----------------------------- MODULE MCFreqUpload -----------------------------
(* Instances of FreqUpload for TLC. *)
EXTENDS FreqUpload

CONSTANTS c1, c2, x, y, z

(* Two sketch rows of two counters.  x and y collide in row 1, y and z in   *)
(* row 2, so every estimate can be an overestimate but none is shared by    *)
(* all rows.                                                                *)
MCRow == {1, 2}
MCPos == [r \in MCRow |-> [fp \in Fp |->
             IF r = 1 THEN (IF fp = z THEN 1 ELSE 0)
                      ELSE (IF fp = x THEN 1 ELSE 0)]]

(* Stored lengths; with BlockSize 2 and MaxContainerSize 9 a container       *)
(* takes x and y, or z alone, so a session that stores x, z and y fills      *)
(* three containers, one more than the queue holds.                          *)
MCChunkLen == [fp \in Fp |-> IF fp = z THEN 5 ELSE 1]

MCBatches1 == {<<x>>, <<x, y>>, <<z, x>>, <<y, y>>}
MCBatches2 == {<<x>>, <<x, y>>, <<z, y>>}
=============================================================================
