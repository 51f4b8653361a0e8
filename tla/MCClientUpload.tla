--------------------------- MODULE MCClientUpload ---------------------------
(* ClientUpload for TLC: all files of two different bytes up to a length of  *)
(* more than one block, and short traces.                                    *)
EXTENDS ClientUpload, TLC

CONSTANTS a, b, nothing, MaxFile

MCByte == {0, 1}
MCGEAR == (0 :> 8) @@ (1 :> 13)
MCLineSize == (a :> 1) @@ (b :> 9)

SeqsUpTo(S, n) == UNION {[1 .. m -> S] : m \in 0 .. n}
MCInputs ==
    [type : {"FAST_CDC", "FIXED_SIZE_CHUNKING"}, file : SeqsUpTo(MCByte, MaxFile), newline : {FALSE}]
    \cup [type : {"TRACE"}, file : SeqsUpTo({a, b, nothing}, 4), newline : BOOLEAN]
=============================================================================
