--------------------------- MODULE MCServerSession ---------------------------
(* An instance of ServerSession for TLC. *)
EXTENDS ServerSession, TLC

CONSTANTS k1, k2, k3, alice, bob, fa, fb

Upload(id, p)   == [opt |-> "UPLOAD", client |-> id, path |-> p]
Download(id, p) == [opt |-> "DOWNLOAD", client |-> id, path |-> p]
Attest(id, p)   == [opt |-> "RA", client |-> id, path |-> p]

(* Two sessions of alice that must exclude each other, and a third of bob.   *)
Sharing == k1 :> Upload(alice, fa) @@ k2 :> Download(alice, fa) @@ k3 :> Upload(bob, fb)
Restore == k1 :> Upload(alice, fa) @@ k2 :> Download(alice, fa) @@ k3 :> Attest(bob, fb)
Replace == k1 :> Upload(alice, fa) @@ k2 :> Upload(alice, fa) @@ k3 :> Attest(bob, fb)
Attests == k1 :> Attest(alice, fa) @@ k2 :> Attest(alice, fa) @@ k3 :> Attest(bob, fb)

Setup(job0, files, lost, may) == [job |-> job0, files |-> files, indexed |-> lost, mortal |-> may]

(* alice deduplicates against bob's upload, which may be cut short; or one of *)
(* her own sessions may, with and without a file of hers that is already      *)
(* there, in an index that leads to a lost container.                         *)
MCSetups == {Setup(Sharing, {}, {}, {k3}),
             Setup(Restore, {}, {}, {k1}), Setup(Restore, {fa}, {None}, {k2}),
             Setup(Replace, {fa}, {}, {k2}), Setup(Attests, {}, {}, {k3})}
=============================================================================
