--------------------------- MODULE MCIndexServer ---------------------------
(* IndexServer for TLC: three chunks, one of them large, files that share     *)
(* chunks, segments of up to three chunks.                                  *)
EXTENDS IndexServer

CONSTANTS x, y, z

MCFp == {x, y, z}
MCFiles == {<<x, y, z, x>>, <<y, x, z, z, z>>, <<z, y>>}
MCKinds == {"OUT_ENCLAVE", "IN_ENCLAVE", "EXTREME_BIN", "SPARSE_INDEX", "FREQ_INDEX"}
MCChunkSize == (x :> 1) @@ (y :> 2) @@ (z :> 1)
MCHashVal == (x :> 4) @@ (y :> 2) @@ (z :> 2)
MCHooks == {x, z}
=============================================================================
