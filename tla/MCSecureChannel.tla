--------------------------- MODULE MCSecureChannel ---------------------------
(* Instance of SecureChannel for TLC. *)
EXTENDS SecureChannel

MCSizes == <<3, 1, 2>>
=============================================================================
