-------------------------------- MODULE MCDaE --------------------------------
(* An instance of DaE for TLC. *)
EXTENDS DaE, TLC

CONSTANTS c1, c2, a, b

Up(f)   == <<f>>
Restore == <<>>

(* One client alone, which may be lost: its file changes, a chunk repeats,    *)
(* the last batch is not full; with TED, which has more states, without a loss *)
(* or with less to upload.  Two clients that share chunks, the first one        *)
(* restoring.  Two small uploads, one of which may be lost.                     *)
Alone  == c1 :> <<Up(<<a, a, a>>), Up(<<a, b, b>>), Restore>> @@ c2 :> <<>>
Shared == c1 :> <<Up(<<a, b>>), Restore>> @@ c2 :> <<Up(<<b>>)>>
Once   == c1 :> <<Restore, Up(<<a>>), Restore>> @@ c2 :> <<>>
Same   == c1 :> <<Up(<<a>>), Restore>> @@ c2 :> <<Up(<<a>>)>>
Later  == c1 :> <<Up(<<a, a, b>>), Up(<<b, a>>), Restore>> @@ c2 :> <<>>
Short  == c1 :> <<Up(<<a, b>>), Up(<<a>>), Restore>> @@ c2 :> <<>>
Pair   == c1 :> <<Up(<<a>>)>> @@ c2 :> <<Up(<<a>>)>>

MCDeployments ==
    [method : {"Plain", "CE", "DupLESS"}, plan : {Alone}, aborts : {1}]
    \cup [method : {"CE"}, plan : {Once}, aborts : {2}]
    \cup [method : {"CE"}, plan : {Shared}, aborts : {0}]
    \cup [method : {"Plain", "DupLESS"}, plan : {Same}, aborts : {1}]
    \cup [method : {"TED"}, plan : {Later, Pair}, aborts : {0}]
    \cup [method : {"TED"}, plan : {Short}, aborts : {1}]

(* One client whose file fills as many containers as a restore fetches at     *)
(* once, when a container has room for one chunk.                             *)
MCExactGroup == {[method |-> "CE", aborts |-> 0,
                  plan |-> c1 :> <<Up(<<a, b>>), Restore>> @@ c2 :> <<>>]}

(* Both chunks share a counter in the first row only. *)
MCShortHash == a :> <<0, 0>> @@ b :> <<0, 1>>
=============================================================================
