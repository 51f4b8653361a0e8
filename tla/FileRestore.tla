----------------------------- MODULE FileRestore -----------------------------
(***************************************************************************)
(* What a restore promises: the output is written chunk by chunk, in the    *)
(* order of the file, and the restore is reported complete only when the    *)
(* whole file is there and has as many chunks as its head says.  It may      *)
(* fail at any time.                                                        *)
(***************************************************************************)
EXTENDS Naturals, Sequences

VARIABLES
    file,     \* the chunks that the recipe lists
    length,   \* the number of chunks in the recipe's head
    output,   \* what has been written
    status    \* "running", "complete" or "failed"

Init ==
    /\ output = <<>>
    /\ status = "running"

WriteNext ==
    /\ status = "running"
    /\ Len(output) < Len(file)
    /\ output' = Append(output, file[Len(output) + 1])
    /\ UNCHANGED <<file, length, status>>

Complete ==
    /\ status = "running"
    /\ output = file /\ Len(output) = length
    /\ status' = "complete"
    /\ UNCHANGED <<file, length, output>>

Fail ==
    /\ status = "running"
    /\ status' = "failed"
    /\ UNCHANGED <<file, length, output>>

Next == WriteNext \/ Complete \/ Fail

Spec == Init /\ [][Next]_<<file, length, output, status>>
=============================================================================
