------------------------------- MODULE CMSketch -------------------------------
(***************************************************************************)
(* The count-min sketch of the enclave (ecallUtil/ecallCMSketch.cc): depth_ *)
(* rows of width_ counters.  A fingerprint owns one counter in each row,    *)
(* at the position given by one 32-bit word of the fingerprint modulo the   *)
(* width, so distinct fingerprints may share counters.                      *)
(*                                                                         *)
(* Counters are natural numbers here: the uint32_t of the code wraps after  *)
(* 2^32 updates of one counter, which the users of this module exclude by   *)
(* a bound on the number of chunks received.                                *)
(***************************************************************************)
EXTENDS Integers, FiniteSetsExt

CONSTANTS Fp,     \* the fingerprints (equivalently, the chunk contents)
          Row,    \* the rows of the counter array
          Width,  \* width_
          Pos     \* Pos[r][fp]: word r of the fingerprint, modulo width_

ASSUME SketchAssumption ==
    /\ Row # {}
    /\ Width \in Nat \ {0}
    /\ Pos \in [Row -> [Fp -> 0..(Width - 1)]]

Sketch == [Row -> [0..(Width - 1) -> Nat]]

EmptySketch == [r \in Row |-> [p \in 0..(Width - 1) |-> 0]]

(* Seeded fault: one row only is counted. *)
UpdateOneRow(sk, fp) ==
    LET row == CHOOSE r \in Row : TRUE
    IN  [sk EXCEPT ![row][Pos[row][fp]] = @ + 1]

(* EcallCMSketch::Update with count 1: one counter per row. *)
Update(sk, fp) ==
    [r \in Row |-> [sk[r] EXCEPT ![Pos[r][fp]] = @ + 1]]

(* EcallCMSketch::Estimate: the minimum over the rows. *)
Estimate(sk, fp) == Min({sk[r][Pos[r][fp]] : r \in Row})
=============================================================================
