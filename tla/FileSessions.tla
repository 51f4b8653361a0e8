----------------------------- MODULE FileSessions -----------------------------
(***************************************************************************)
(* What the server promises about stored files, without locks, keys or     *)
(* messages: the sessions of one client exclude each other, so a file is   *)
(* replaced by one upload at a time and does not change under a restore.   *)
(***************************************************************************)
CONSTANTS Sessions, Files,
          Workloads   \* of every session, what it asks for: [opt, client, path]

VARIABLES
    job,      \* what each session asks for; never changes
    open,     \* the sessions that are being served
    file      \* file[f]: "absent", "partial" or "complete"

vars == <<job, open, file>>

Init ==
    /\ job \in Workloads
    /\ open = {}
    /\ file \in [Files -> {"absent", "complete"}]

Alone(s) == \A t \in open : job[t].client # job[s].client

Begin(s, opt) ==
    /\ s \notin open /\ Alone(s) /\ job[s].opt = opt
    /\ open' = open \cup {s}
    /\ UNCHANGED job

(* An upload replaces the file from its first moment on. *)
BeginUpload(s) ==
    /\ Begin(s, "UPLOAD")
    /\ file' = [file EXCEPT ![job[s].path] = "partial"]

CommitUpload(s) ==
    /\ s \in open /\ job[s].opt = "UPLOAD"
    /\ file' = [file EXCEPT ![job[s].path] = "complete"]
    /\ UNCHANGED <<job, open>>

BeginRestore(s) ==
    /\ Begin(s, "DOWNLOAD")
    /\ file[job[s].path] # "absent"
    /\ UNCHANGED file

End(s) ==
    /\ s \in open
    /\ open' = open \ {s}
    /\ UNCHANGED <<job, file>>

(* The server stops. *)
Stop ==
    /\ open' = {}
    /\ UNCHANGED <<job, file>>

Next ==
    \/ \E s \in Sessions : BeginUpload(s) \/ CommitUpload(s) \/ BeginRestore(s) \/ End(s)
    \/ Stop

Spec == Init /\ [][Next]_vars
=============================================================================
