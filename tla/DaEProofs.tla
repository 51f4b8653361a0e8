------------------------------ MODULE DaEProofs ------------------------------
(***************************************************************************)
(* Proofs about DaE, for every set of clients, every file, every method and  *)
(* every batch, container and queue size.                                   *)
(*                                                                         *)
(* BaseInv: the client, its messages and its session on the server are in    *)
(* step, and no two containers share an ID, so that a container keeps its    *)
(* chunks on the way from the session through the queue to the disk.  With   *)
(* it the index resolves.                                                    *)
(*                                                                         *)
(* UploadInv: the file and the keys drawn so far determine the ciphertexts   *)
(* and the key entries.  Flows says that recipe, key recipe and the messages *)
(* under way are consecutive pieces of them; GoodInv says what is left of an *)
(* upload that has ended, and Hist when the history variables may say so.    *)
(*                                                                         *)
(* Restores: what the client has decrypted, the replies under way and what   *)
(* the server has not sent are consecutive pieces of the ciphertexts.        *)
(*                                                                         *)
(* DedupInv: as long as no two threads of the key manager raced, a counter   *)
(* of the sketch holds no more than the open connections have counted, and   *)
(* every seed, every message and every index entry keeps the bound on the    *)
(* ciphertexts of a chunk.                                                   *)
(***************************************************************************)
EXTENDS DaE, TLAPS, FiniteSetTheorems, WellFoundedInduction

Methods    == {"Plain", "CE", "TED", "DupLESS"}
Seed       == Nat \cup {Garbage, NoFile}
Key        == {"ones"} \cup {<<p>> : p \in Chunk} \cup {<<p, s>> : p \in Chunk, s \in Seed}
Ciphertext == [plain : Chunk, key : Key]
KeyEntry   == [hash : Ciphertext, key : Key]
Addr       == [id : Nat, offset : Nat]
Container  == [id : Nat, body : Seq(Ciphertext)]
Recipe     == [head : Nat \cup {Garbage}, entries : Seq(Addr)]
Logins     == {"CLIENT_LOGIN_UPLOAD", "CLIENT_LOGIN_DOWNLOAD"}
Msg == [type : Logins, items : {<<>>}]
       \cup [type : {"CLIENT_UPLOAD_RECIPE"}, items : Seq(KeyEntry)]
       \cup [type : {"CLIENT_UPLOAD_CHUNK"}, items : Seq(Ciphertext) \ {<<>>}]
       \cup [type : {"CLIENT_UPLOAD_RECIPE_END"}, items : Seq(Nat) \ {<<>>}]

(* The functions of the state are over the clients. *)
Shape ==
    /\ method \in Methods
    /\ DOMAIN plan = Client /\ DOMAIN client = Client /\ DOMAIN localKeys = Client
    /\ DOMAIN toServer = Client /\ DOMAIN toClient = Client /\ DOMAIN km = Client
    /\ DOMAIN srv = Client /\ DOMAIN recipe = Client /\ DOMAIN keyRecipe = Client
    /\ DOMAIN committed = Client

Step(c) ==
    \/ StartUpload(c) \/ StartRestore(c) \/ RestoreUnknown(c) \/ Abort(c)
    \/ FillBatch(c) \/ RequestKeys(c) \/ EncryptBatch(c) \/ EndUpload(c)
    \/ ReceiveChunks(c) \/ ExitRestore(c)
    \/ GenerateKeySeed(c) \/ ReplyKeys(c) \/ CloseKeyThread(c)
    \/ AdmitUpload(c) \/ ProcessRecipes(c) \/ ReceiveBatch(c) \/ QueryIndex(c)
    \/ StoreChunk(c) \/ ProcessRecipeEnd(c) \/ ConnectionClosed(c)
    \/ LastContainer(c) \/ EndSession(c) \/ SaveToFile(c)
    \/ RejectRestore(c) \/ AdmitRestore(c) \/ DecodeEntry(c) \/ DecodeTail(c)
    \/ DecoderFails(c) \/ CloseRestore(c) \/ ClientFails(c) \/ Again(c)

(* What a step of one client leaves to another. *)
Frame(d) ==
    /\ plan'[d] = plan[d] /\ client'[d] = client[d] /\ localKeys'[d] = localKeys[d]
    /\ toServer'[d] = toServer[d] /\ toClient'[d] = toClient[d] /\ km'[d] = km[d]
    /\ srv'[d] = srv[d] /\ recipe'[d] = recipe[d] /\ keyRecipe'[d] = keyRecipe[d]
    /\ committed'[d] = committed[d]

(* The key manager clears a counter, or nothing happens. *)
Aside == UNCHANGED <<method, plan, client, localKeys, toServer, toClient, km, srv, recipe, keyRecipe,
                     index, disk, uuids, serverUp, aborts, uploaded, committed, settled>>

LEMMA ClearsAside == ASSUME NEW k, ClearCounter(k) PROVE Aside
  BY DEF ClearCounter, Aside, serverVars, storeVars

LEMMA StutterAside == UNCHANGED vars => Aside
  BY DEF vars, kmVars, serverVars, storeVars, history, Aside

LEMMA NextIs == Next => \/ \E c \in Client : Step(c)
                        \/ \E k \in Counters : ClearCounter(k)
                        \/ RestartServer
  BY DEF Next, Step, Sender, Retriever, KeyManager, Receiver, Decoder, Ends

LEMMA StepsAre == [Next]_vars => (\E c \in Client : Step(c)) \/ RestartServer \/ Aside
  BY NextIs, ClearsAside, StutterAside

LEMMA StepFrame ==
    ASSUME Shape, NEW c \in Client, Step(c)
    PROVE  Shape' /\ \A d \in Client \ {c} : Frame(d)
  <1> USE DEF Shape, Frame, serverVars, storeVars, history, kmVars
  <1>1. CASE StartUpload(c)  BY <1>1 DEF StartUpload
  <1>2. CASE StartRestore(c)  BY <1>2 DEF StartRestore
  <1>3. CASE RestoreUnknown(c)  BY <1>3 DEF RestoreUnknown
  <1>4. CASE Abort(c)  BY <1>4 DEF Abort, KeysLeft
  <1>5. CASE FillBatch(c)  BY <1>5 DEF FillBatch
  <1>6. CASE RequestKeys(c)  BY <1>6 DEF RequestKeys
  <1>7. CASE EncryptBatch(c)  BY <1>7, Zenon DEF EncryptBatch
  <1>8. CASE EndUpload(c)  BY <1>8 DEF EndUpload
  <1>9. CASE ReceiveChunks(c)  BY <1>9, Zenon DEF ReceiveChunks
  <1>10. CASE ExitRestore(c)  BY <1>10 DEF ExitRestore
  <1>11. CASE GenerateKeySeed(c)  BY <1>11 DEF GenerateKeySeed
  <1>12. CASE ReplyKeys(c)  BY <1>12 DEF ReplyKeys
  <1>13. CASE CloseKeyThread(c)  BY <1>13 DEF CloseKeyThread, Committed
  <1>14. CASE AdmitUpload(c)  BY <1>14 DEF AdmitUpload, Login, Responds
  <1>15. CASE ProcessRecipes(c)  BY <1>15 DEF ProcessRecipes, Receives
  <1>16. CASE ReceiveBatch(c)  BY <1>16 DEF ReceiveBatch, Receives
  <1>17. CASE QueryIndex(c)  BY <1>17 DEF QueryIndex, UpdateFileRecipe
  <1>18. CASE StoreChunk(c)  BY <1>18 DEF StoreChunk, UpdateFileRecipe
  <1>19. CASE ProcessRecipeEnd(c)  BY <1>19 DEF ProcessRecipeEnd, Receives
  <1>20. CASE ConnectionClosed(c)  BY <1>20 DEF ConnectionClosed, Committed
  <1>21. CASE LastContainer(c)  BY <1>21 DEF LastContainer
  <1>22. CASE EndSession(c)  BY <1>22 DEF EndSession
  <1>23. CASE SaveToFile(c)  BY <1>23 DEF SaveToFile
  <1>24. CASE RejectRestore(c)  BY <1>24 DEF RejectRestore, Login, Responds
  <1>25. CASE AdmitRestore(c)  BY <1>25 DEF AdmitRestore, Login
  <1>26. CASE DecodeEntry(c)  BY <1>26 DEF DecodeEntry
  <1>27. CASE DecodeTail(c)  BY <1>27 DEF DecodeTail
  <1>28. CASE DecoderFails(c)  BY <1>28 DEF DecoderFails
  <1>29. CASE CloseRestore(c)  BY <1>29 DEF CloseRestore
  <1>30. CASE ClientFails(c)  BY <1>30 DEF ClientFails, KeysLeft
  <1>31. CASE Again(c)  BY <1>31 DEF Again
  <1> QED
    BY <1>1, <1>2, <1>3, <1>4, <1>5, <1>6, <1>7, <1>8, <1>9, <1>10, <1>11, <1>12, <1>13, <1>14,
       <1>15, <1>16, <1>17, <1>18, <1>19, <1>20, <1>21, <1>22, <1>23, <1>24, <1>25, <1>26, <1>27,
       <1>28, <1>29, <1>30, <1>31 DEF Step
-----------------------------------------------------------------------------
(* The client's side. *)
Ops == Uploading \cup Restoring \cup {"idle", "dead", "restored"}
Batching == {"batch", "lastBatch"}

Piece(s, f, i, j) ==
    /\ i \in Nat /\ j \in Nat /\ i <= j /\ Len(s) = j - i
    /\ \A n \in 1 .. Len(s) : s[n] = f[i + n]

ProcessOK(p) ==
    /\ DOMAIN p = {"op", "file", "pos", "plain", "cipher", "keyList", "head", "used", "out"}
    /\ p.op \in Ops /\ p.file \in Seq(Chunk) /\ p.pos \in Nat /\ p.plain \in Seq(Chunk)
    /\ p.cipher = <<>> /\ p.keyList \in Seq(KeyEntry)

(* The plain buffer holds the chunks before the place in the file, which have *)
(* no key yet.                                                               *)
BatchOK(p, keys) ==
    p.op \in Uploading =>
        /\ p.pos <= Len(p.file)
        /\ keys \in Seq(Key) /\ Len(keys) + Len(p.plain) = p.pos
        /\ p.op \in Batching => Piece(p.plain, p.file, Len(keys), p.pos) /\ p.plain # <<>>
        /\ p.op \notin Batching => p.plain = <<>>
        /\ p.op = "batch" => Len(p.plain) = sendChunkBatchSize
        /\ p.op \in {"lastBatch", "end", "finish", "closeKM"} => p.pos = Len(p.file)
        /\ p.op = "login" => p.pos = 0 /\ p.keyList = <<>>

(* The key manager's thread works on the batch that the client waits for. *)
ThreadOK(p, k) ==
    /\ DOMAIN k = {"pc", "in", "out"} /\ k.pc \in {"none", "recv", "loop", "reply", "sent"}
    /\ k.in \in Seq(Chunk) /\ k.out \in Seq(Seed)
    /\ ~UsesKM => k.pc = "none"
    /\ p.op \in Uploading \ Batching => k.pc \in {"none", "recv"}
    /\ p.op \in Batching /\ k.pc \in {"loop", "reply", "sent"} => k.in = p.plain
    /\ k.pc = "loop" => Len(k.out) < Len(k.in)
    /\ k.pc \in {"reply", "sent"} => Len(k.out) = Len(k.in)

ClientOK(c) ==
    /\ plan[c] \in Seq(Seq(Seq(Chunk))) /\ ProcessOK(client[c])
    /\ BatchOK(client[c], localKeys[c]) /\ ThreadOK(client[c], km[c])
    /\ toServer[c] \in Seq(Msg)

LEMMA SubSeqIs ==
    ASSUME NEW S, NEW s \in Seq(S), NEW i \in Nat, NEW n \in Nat, i + n <= Len(s)
    PROVE  /\ SubSeq(s, i + 1, i + n) \in Seq(S) /\ Len(SubSeq(s, i + 1, i + n)) = n
           /\ \A k \in 1 .. n : SubSeq(s, i + 1, i + n)[k] = s[i + k]
  <1> DEFINE u == SubSeq(s, i + 1, i + n)
  <1>1. u \in Seq(S) /\ Len(u) = n
    OBVIOUS
  <1>2. \A k \in 1 .. n : u[k] = s[i + k]
    OBVIOUS
  <1> QED  BY <1>1, <1>2

LEMMA EmptyIff == ASSUME NEW S, NEW s \in Seq(S) PROVE Len(s) \in Nat /\ (s = <<>> <=> Len(s) = 0)
  OBVIOUS

LEMMA IdleOK == ProcessOK(Process) /\ \A keys : BatchOK(Process, keys)
  BY DEF ProcessOK, BatchOK, Process, Ops, Uploading, Restoring

(* A client that leaves its loop keeps the shape. *)
LEMMA OpOK ==
    ASSUME NEW p, NEW op \in Ops \ Uploading, NEW q, ProcessOK(p), DOMAIN q = DOMAIN p, q.op = op,
           q.file = p.file, q.pos = p.pos, q.plain = p.plain, q.cipher = p.cipher, q.keyList = p.keyList
    PROVE  ProcessOK(q) /\ \A keys : BatchOK(q, keys)
  BY DEF ProcessOK, BatchOK, Ops

LEMMA StartUploadClient ==
    ASSUME Shape, NEW c \in Client, ClientOK(c), StartUpload(c)
    PROVE  ClientOK(c)'
  <1> DEFINE p == [Process EXCEPT !.op = "login", !.file = Head(plan[c])[1]]
  <1>1. /\ client'[c] = p /\ localKeys'[c] = <<>> /\ plan'[c] = Tail(plan[c])
        /\ toServer'[c] = <<Message("CLIENT_LOGIN_UPLOAD", <<>>)>>
        /\ (~UsesKM /\ km'[c] = km[c]) \/ (UsesKM /\ km'[c] = [km[c] EXCEPT !.pc = "recv"])
        /\ method' = method
        /\ plan[c] # <<>> /\ Head(plan[c]) # <<>>
    BY DEF StartUpload, Shape
  <1>2. plan[c] \in Seq(Seq(Seq(Chunk)))
    BY DEF ClientOK
  <1>3. Tail(plan[c]) \in Seq(Seq(Seq(Chunk))) /\ Head(plan[c])[1] \in Seq(Chunk)
    <2>1. Head(plan[c]) \in Seq(Seq(Chunk)) /\ Tail(plan[c]) \in Seq(Seq(Seq(Chunk)))
      BY <1>1, <1>2
    <2> QED  BY <1>1, <2>1
  <1>4. ProcessOK(p)
    BY <1>3 DEF ProcessOK, Process, Ops, Uploading
  <1>5. BatchOK(p, <<>>)
    BY <1>3 DEF BatchOK, Process, Batching, Uploading
  <1>6. ThreadOK(client[c], km[c])
    BY DEF ClientOK
  <1>7. ThreadOK(p, km'[c])
    BY <1>1, <1>6 DEF ThreadOK, Process, Batching, Uploading
  <1>8. <<Message("CLIENT_LOGIN_UPLOAD", <<>>)>> \in Seq(Msg)
    BY DEF Message, Msg, Logins
  <1> HIDE DEF p
  <1> QED  BY <1>1, <1>3, <1>4, <1>5, <1>7, <1>8 DEF ClientOK, ThreadOK, UsesKM

LEMMA StartRestoreClient ==
    ASSUME Shape, NEW c \in Client, ClientOK(c), StartRestore(c)
    PROVE  ClientOK(c)'
  <1> DEFINE p == [Process EXCEPT !.op = "loginRestore"]
  <1>1. /\ client'[c] = p /\ localKeys' = localKeys /\ plan'[c] = Tail(plan[c])
        /\ toServer'[c] = <<Message("CLIENT_LOGIN_DOWNLOAD", <<>>)>> /\ km' = km
        /\ plan[c] # <<>> /\ method' = method
    BY DEF StartRestore, Shape, kmVars
  <1>2. plan[c] \in Seq(Seq(Seq(Chunk)))
    BY DEF ClientOK
  <1>3. Tail(plan[c]) \in Seq(Seq(Seq(Chunk)))
    BY <1>1, <1>2
  <1>4. ProcessOK(p) /\ BatchOK(p, localKeys[c])
    BY DEF ProcessOK, Process, Ops, Restoring, BatchOK, Uploading
  <1>5. ThreadOK(p, km[c])
    BY DEF ClientOK, ThreadOK, Process, Batching, Uploading
  <1>6. <<Message("CLIENT_LOGIN_DOWNLOAD", <<>>)>> \in Seq(Msg)
    BY DEF Message, Msg, Logins
  <1> HIDE DEF p
  <1> QED  BY <1>1, <1>3, <1>4, <1>5, <1>6 DEF ClientOK, ThreadOK, UsesKM

(* A batch: the next chunks of the file. *)
LEMMA FilledOK ==
    ASSUME NEW p, NEW q, NEW keys, NEW n, ProcessOK(p), BatchOK(p, keys), p.op = "pop",
           DOMAIN q = DOMAIN p, q.file = p.file, q.cipher = p.cipher, q.keyList = p.keyList,
           n = (IF Len(p.file) - p.pos < sendChunkBatchSize THEN Len(p.file) - p.pos ELSE sendChunkBatchSize),
           q.plain = SubSeq(p.file, p.pos + 1, p.pos + n), q.pos = p.pos + n,
           q.op = (CASE n = sendChunkBatchSize -> "batch" [] n = 0 -> "end" [] OTHER -> "lastBatch")
    PROVE  ProcessOK(q) /\ BatchOK(q, keys)
  <1>1. /\ p.file \in Seq(Chunk) /\ p.pos \in Nat /\ p.pos <= Len(p.file)
        /\ keys \in Seq(Key) /\ Len(keys) + Len(p.plain) = p.pos /\ p.plain = <<>>
    BY DEF ProcessOK, BatchOK, Uploading, Batching
  <1>2. Len(p.file) \in Nat /\ sendChunkBatchSize \in Nat /\ sendChunkBatchSize # 0
    BY <1>1, DaEAssumption
  <1>3. Len(keys) = p.pos
    BY <1>1
  <1>4. n \in Nat /\ p.pos + n <= Len(p.file) /\ n <= sendChunkBatchSize
        /\ (n < sendChunkBatchSize => p.pos + n = Len(p.file))
    BY <1>1, <1>2
  <1>5. q.plain \in Seq(Chunk) /\ Len(q.plain) = n
        /\ \A k \in 1 .. n : q.plain[k] = p.file[p.pos + k]
    <2>1. /\ p.file \in Seq(Chunk) /\ p.pos \in Nat /\ n \in Nat /\ p.pos + n <= Len(p.file)
          /\ q.plain = SubSeq(p.file, p.pos + 1, p.pos + n)
      BY <1>1, <1>4
    <2>2. /\ SubSeq(p.file, p.pos + 1, p.pos + n) \in Seq(Chunk)
          /\ Len(SubSeq(p.file, p.pos + 1, p.pos + n)) = n
          /\ \A k \in 1 .. n : SubSeq(p.file, p.pos + 1, p.pos + n)[k] = p.file[p.pos + k]
      <3>1. PICK f, i : f = p.file /\ i = p.pos
        OBVIOUS
      <3>2. f \in Seq(Chunk) /\ i \in Nat /\ n \in Nat /\ i + n <= Len(f)
        BY ONLY <2>1, <3>1
      <3>3. /\ SubSeq(f, i + 1, i + n) \in Seq(Chunk) /\ Len(SubSeq(f, i + 1, i + n)) = n
            /\ \A k \in 1 .. n : SubSeq(f, i + 1, i + n)[k] = f[i + k]
        BY ONLY <3>2, SubSeqIs
      <3> QED  BY ONLY <3>1, <3>3
    <2> QED  BY ONLY <2>1, <2>2
  <1>6. (q.op = "batch" /\ n = sendChunkBatchSize) \/ (q.op = "end" /\ n = 0)
        \/ (q.op = "lastBatch" /\ n # 0 /\ n # sendChunkBatchSize)
    OBVIOUS
  <1>7. q.pos \in Nat /\ q.op \in Ops
    BY <1>1, <1>4, <1>6 DEF Ops, Uploading
  <1>8. ProcessOK(q)
    BY <1>1, <1>5, <1>7 DEF ProcessOK
  <1>9. q.pos = p.pos + n /\ q.pos <= Len(q.file) /\ Len(keys) + Len(q.plain) = q.pos
    BY <1>1, <1>3, <1>4, <1>5
  <1>10. Piece(q.plain, q.file, Len(keys), q.pos)
    <2>1. p.pos \in Nat /\ n \in Nat /\ q.pos = p.pos + n /\ Len(keys) = p.pos /\ Len(q.plain) = n
      BY <1>1, <1>3, <1>4, <1>5
    <2>2. Len(keys) \in Nat /\ Len(keys) <= q.pos /\ Len(q.plain) = q.pos - Len(keys)
      BY ONLY <2>1
    <2> QED  BY <1>3, <1>5, <1>7, <2>2 DEF Piece
  <1>11. q.op = "end" <=> q.plain = <<>>
    <2>1. q.plain = <<>> <=> n = 0
      BY ONLY <1>5, EmptyIff
    <2> QED  BY <1>2, <1>6, <2>1
  <1>12. q.op \in {"lastBatch", "end"} => q.pos = Len(q.file)
    BY <1>1, <1>2, <1>4, <1>6
  <1> QED
    BY <1>1, <1>5, <1>6, <1>8, <1>9, <1>10, <1>11, <1>12 DEF BatchOK, Batching, Uploading

LEMMA FillBatchClient ==
    ASSUME Shape, NEW c \in Client, ClientOK(c), FillBatch(c)
    PROVE  ClientOK(c)'
  <1> DEFINE n == IF Len(client[c].file) - client[c].pos < sendChunkBatchSize
                  THEN Len(client[c].file) - client[c].pos ELSE sendChunkBatchSize
  <1>0. PICK q : q = client'[c]
    OBVIOUS
  <1>1. ProcessOK(client[c]) /\ BatchOK(client[c], localKeys[c]) /\ ThreadOK(client[c], km[c])
    BY DEF ClientOK
  <1>2. /\ DOMAIN q = DOMAIN client[c] /\ q.file = client[c].file /\ q.cipher = client[c].cipher
        /\ q.keyList = client[c].keyList
        /\ q.plain = SubSeq(client[c].file, client[c].pos + 1, client[c].pos + n)
        /\ q.pos = client[c].pos + n
        /\ q.op = (CASE n = sendChunkBatchSize -> "batch" [] n = 0 -> "end" [] OTHER -> "lastBatch")
        /\ client[c].op = "pop" /\ UNCHANGED <<method, plan, localKeys, km, toServer>>
    BY <1>0, <1>1 DEF FillBatch, Shape, kmVars, ProcessOK
  <1>3. ProcessOK(q) /\ BatchOK(q, localKeys[c])
    BY <1>1, <1>2, FilledOK
  <1>4. ThreadOK(q, km[c])
    BY <1>1, <1>2 DEF ThreadOK, Uploading, Batching
  <1> QED  BY <1>0, <1>2, <1>3, <1>4 DEF ClientOK, ThreadOK, UsesKM

(* What is sent, and which buffers are empty then. *)
RecipeMsg(list, due) == IF due THEN <<Message("CLIENT_UPLOAD_RECIPE", list)>> ELSE <<>>
ChunkMsg(cts, due)   == IF due THEN <<Message("CLIENT_UPLOAD_CHUNK", cts)>> ELSE <<>>
EndMsg(n, last)      == IF last THEN <<Message("CLIENT_UPLOAD_RECIPE_END", <<n>>)>> ELSE <<>>
Has(msgs, ty)        == \E n \in DOMAIN msgs : msgs[n].type = ty
Due(s, n, last)      == IF last THEN s # <<>> ELSE Len(s) % n = 0

LEMMA ConcatIs ==
    ASSUME NEW S, NEW s \in Seq(S), NEW u \in Seq(S)
    PROVE  /\ s \o u \in Seq(S) /\ Len(s \o u) = Len(s) + Len(u)
           /\ \A n \in 1 .. Len(s) : (s \o u)[n] = s[n]
           /\ \A n \in 1 .. Len(u) : (s \o u)[Len(s) + n] = u[n]
  OBVIOUS

LEMMA HasConcat ==
    ASSUME NEW S, NEW s \in Seq(S), NEW u \in Seq(S), NEW ty
    PROVE  Has(s \o u, ty) <=> Has(s, ty) \/ Has(u, ty)
  <1> DEFINE v == s \o u
  <1>1. /\ v \in Seq(S) /\ Len(v) = Len(s) + Len(u)
        /\ \A n \in 1 .. Len(s) : v[n] = s[n]
        /\ \A n \in 1 .. Len(u) : v[Len(s) + n] = u[n]
    BY ConcatIs
  <1>2. DOMAIN v = 1 .. Len(s) + Len(u) /\ DOMAIN s = 1 .. Len(s) /\ DOMAIN u = 1 .. Len(u)
        /\ Len(s) \in Nat /\ Len(u) \in Nat
    BY <1>1
  <1> HIDE DEF v
  <1>3. ASSUME NEW n \in DOMAIN v, v[n].type = ty PROVE Has(s, ty) \/ Has(u, ty)
    <2>1. CASE n <= Len(s)
      <3>1. n \in 1 .. Len(s)
        BY <1>2, <2>1
      <3> QED  BY <1>1, <1>2, <1>3, <3>1 DEF Has
    <2>2. CASE ~(n <= Len(s))
      <3>1. n - Len(s) \in 1 .. Len(u) /\ Len(s) + (n - Len(s)) = n
        BY <1>2, <2>2
      <3>2. u[n - Len(s)] = v[n]
        BY <1>1, <3>1
      <3> QED  BY <1>2, <1>3, <3>1, <3>2 DEF Has
    <2> QED  BY <2>1, <2>2
  <1>4. ASSUME NEW n \in DOMAIN s, s[n].type = ty PROVE Has(v, ty)
    <2>1. n \in DOMAIN v /\ v[n] = s[n]
      BY <1>1, <1>2
    <2> QED  BY <1>4, <2>1 DEF Has
  <1>5. ASSUME NEW n \in DOMAIN u, u[n].type = ty PROVE Has(v, ty)
    <2>1. Len(s) + n \in DOMAIN v /\ v[Len(s) + n] = u[n]
      BY <1>1, <1>2
    <2> QED  BY <1>5, <2>1 DEF Has
  <1>6. Has(v, ty) <=> Has(s, ty) \/ Has(u, ty)
    BY <1>3, <1>4, <1>5 DEF Has
  <1> QED  BY <1>6 DEF v

LEMMA OneMsg ==
    ASSUME NEW S, NEW m \in S
    PROVE  <<m>> \in Seq(S) /\ <<m>> # <<>> /\ \A ty : Has(<<m>>, ty) <=> m.type = ty
  <1> DEFINE s == <<m>>
  <1>1. s \in Seq(S) /\ s # <<>> /\ DOMAIN s = 1 .. 1 /\ s[1] = m
    OBVIOUS
  <1>2. 1 \in 1 .. 1 /\ \A n \in 1 .. 1 : n = 1
    OBVIOUS
  <1> HIDE DEF s
  <1>3. \A ty : Has(s, ty) <=> m.type = ty
    BY <1>1, <1>2 DEF Has
  <1> QED  BY <1>1, <1>3 DEF s

LEMMA NoMsg == <<>> \in Seq(Msg) /\ \A ty : ~Has(<<>>, ty)
  BY DEF Has

LEMMA MsgsIs ==
    ASSUME NEW list \in Seq(KeyEntry), NEW cts \in Seq(Ciphertext), NEW n \in Nat, NEW r, NEW k, NEW e,
           r = <<>> \/ r = <<Message("CLIENT_UPLOAD_RECIPE", list)>>,
           k = <<>> \/ (k = <<Message("CLIENT_UPLOAD_CHUNK", cts)>> /\ cts # <<>>),
           e = <<>> \/ e = <<Message("CLIENT_UPLOAD_RECIPE_END", <<n>>)>>
    PROVE  /\ r \o k \o e \in Seq(Msg)
           /\ Has(r \o k \o e, "CLIENT_UPLOAD_RECIPE") <=> r # <<>>
           /\ Has(r \o k \o e, "CLIENT_UPLOAD_CHUNK") <=> k # <<>>
  <1>1. /\ r \in Seq(Msg) /\ (Has(r, "CLIENT_UPLOAD_RECIPE") <=> r # <<>>)
        /\ ~Has(r, "CLIENT_UPLOAD_CHUNK")
    <2>1. PICK x : x = Message("CLIENT_UPLOAD_RECIPE", list)
      OBVIOUS
    <2>2. x \in Msg /\ x.type = "CLIENT_UPLOAD_RECIPE"
      BY <2>1 DEF Message, Msg
    <2>3. CASE r = <<x>>  BY <2>2, <2>3, OneMsg
    <2>4. CASE r = <<>>  BY <2>4, NoMsg
    <2> QED  BY <2>1, <2>3, <2>4
  <1>2. /\ k \in Seq(Msg) /\ (Has(k, "CLIENT_UPLOAD_CHUNK") <=> k # <<>>)
        /\ ~Has(k, "CLIENT_UPLOAD_RECIPE")
    <2>1. PICK x : x = Message("CLIENT_UPLOAD_CHUNK", cts)
      OBVIOUS
    <2>2. cts # <<>> => x \in Msg /\ x.type = "CLIENT_UPLOAD_CHUNK"
      BY <2>1 DEF Message, Msg
    <2>3. CASE k = <<x>> /\ cts # <<>>  BY <2>2, <2>3, OneMsg
    <2>4. CASE k = <<>>  BY <2>4, NoMsg
    <2> QED  BY <2>1, <2>3, <2>4
  <1>3. /\ e \in Seq(Msg) /\ ~Has(e, "CLIENT_UPLOAD_CHUNK") /\ ~Has(e, "CLIENT_UPLOAD_RECIPE")
    <2>1. <<n>> \in Seq(Nat) \ {<<>>}
      OBVIOUS
    <2>2. PICK x : x = Message("CLIENT_UPLOAD_RECIPE_END", <<n>>)
      OBVIOUS
    <2>3. x \in Msg /\ x.type = "CLIENT_UPLOAD_RECIPE_END"
      BY <2>1, <2>2 DEF Message, Msg
    <2>4. CASE e = <<x>>  BY <2>3, <2>4, OneMsg
    <2>5. CASE e = <<>>  BY <2>5, NoMsg
    <2> QED  BY <2>2, <2>4, <2>5
  <1>4. r \o k \in Seq(Msg)
    BY <1>1, <1>2
  <1>5. \A ty : Has((r \o k) \o e, ty) <=> Has(r \o k, ty) \/ Has(e, ty)
    BY <1>3, <1>4, HasConcat
  <1>6. \A ty : Has(r \o k, ty) <=> Has(r, ty) \/ Has(k, ty)
    BY <1>1, <1>2, HasConcat
  <1>7. (r \o k) \o e \in Seq(Msg)
    BY <1>3, <1>4
  <1> QED  BY <1>1, <1>2, <1>3, <1>5, <1>6, <1>7

LEMMA KeyIs ==
    ASSUME Shape, NEW p \in Chunk, NEW s \in Seed
    PROVE  /\ KeyOf(p, s) \in Key /\ Encrypt(p, KeyOf(p, s)) \in Ciphertext
           /\ [hash |-> Encrypt(p, KeyOf(p, s)), key |-> KeyOf(p, s)] \in KeyEntry
  <1>1. KeyOf(p, s) \in Key
    BY DEF KeyOf, Key, Shape, Methods
  <1> QED  BY <1>1 DEF Encrypt, Ciphertext, KeyEntry

(* An encrypted batch: one key, one ciphertext and one entry for each chunk. *)
Sealed(plain, keys, cts, ents) ==
    /\ keys \in Seq(Key) /\ cts \in Seq(Ciphertext) /\ ents \in Seq(KeyEntry)
    /\ Len(keys) = Len(plain) /\ Len(cts) = Len(plain) /\ Len(ents) = Len(plain)
    /\ \A n \in 1 .. Len(plain) : /\ cts[n] = Encrypt(plain[n], keys[n])
                                  /\ ents[n] = [hash |-> cts[n], key |-> keys[n]]

(* q is p after the messages msgs with the list of keys were sent. *)
SendsTo(p, q, msgs, list, d1, cts, d2, last) ==
    /\ msgs = RecipeMsg(list, d1) \o ChunkMsg(cts, d2) \o EndMsg(p.pos, last)
    /\ msgs \in Seq(Msg)
    /\ DOMAIN q = DOMAIN p /\ q.plain = <<>> /\ q.cipher = <<>> /\ q.file = p.file /\ q.pos = p.pos
    /\ q.keyList = (IF d1 THEN <<>> ELSE list)
    /\ q.op = (IF last THEN "finish" ELSE "pop")

LEMMA EncryptIs ==
    ASSUME Shape, NEW c \in Client, ClientOK(c), EncryptBatch(c)
    PROVE  \E keys, cts, ents, msgs : \E d1, last \in BOOLEAN :
              /\ Sealed(client[c].plain, keys, cts, ents)
              /\ last = (client[c].op = "lastBatch") /\ (last => d1)
              /\ localKeys'[c] = localKeys[c] \o keys
              /\ toServer'[c] = toServer[c] \o msgs
              /\ SendsTo(client[c], client'[c], msgs, client[c].keyList \o ents, d1, cts, TRUE, last)
  <1>1. PICK p : p = client[c]
    OBVIOUS
  <1> DEFINE seed(n) == IF UsesKM THEN km[c].out[n] ELSE NoFile
             keys == [n \in DOMAIN p.plain |-> KeyOf(p.plain[n], seed(n))]
             own  == [n \in DOMAIN p.plain |-> Encrypt(p.plain[n], keys[n])]
             cts  == p.cipher \o own
             ents == [n \in DOMAIN cts |-> [hash |-> cts[n], key |-> keys[n]]]
             last == p.op = "lastBatch"
             list == p.keyList \o ents
             full == [p EXCEPT !.cipher = cts, !.keyList = list]
             msgs == SendBuffers(full, last)
             d1   == Due(list, sendRecipeBatchSize, last)
             d2   == Due(cts, sendChunkBatchSize, last)
  <1>2. /\ localKeys' = [localKeys EXCEPT ![c] = @ \o keys]
        /\ toServer' = [toServer EXCEPT ![c] = @ \o msgs]
        /\ client' = [client EXCEPT ![c] = AfterSend(full, msgs, last)]
        /\ p.op \in Batching /\ (UsesKM => km[c].pc = "sent")
    BY <1>1, ZenonT(30) DEF EncryptBatch, Batching
  <1>3. ProcessOK(p) /\ BatchOK(p, localKeys[c]) /\ ThreadOK(p, km[c])
    BY <1>1 DEF ClientOK
  <1>4. /\ p.plain \in Seq(Chunk) /\ p.plain # <<>> /\ p.keyList \in Seq(KeyEntry) /\ p.pos \in Nat
        /\ p.cipher = <<>> /\ (p.op = "batch" => Len(p.plain) = sendChunkBatchSize)
    BY <1>2, <1>3, Zenon DEF ProcessOK, BatchOK, Batching, Uploading
  <1>5. PICK N : N = Len(p.plain)
    BY Zenon
  <1>6. N \in Nat /\ N # 0 /\ DOMAIN p.plain = 1 .. N /\ \A n \in 1 .. N : p.plain[n] \in Chunk
    BY <1>4, <1>5
  <1>7. ASSUME NEW n \in 1 .. N PROVE seed(n) \in Seed
    <2>1. CASE UsesKM
      <3>1. km[c].out \in Seq(Seed) /\ Len(km[c].out) = N
        BY <1>2, <1>3, <1>5, <2>1, Zenon DEF ThreadOK
      <3> QED  BY <1>6, <2>1, <3>1
    <2>2. CASE ~UsesKM  BY <2>2 DEF Seed
    <2> QED  BY <2>1, <2>2
  <1>8. ASSUME NEW n \in 1 .. N
        PROVE  /\ KeyOf(p.plain[n], seed(n)) \in Key
               /\ Encrypt(p.plain[n], KeyOf(p.plain[n], seed(n))) \in Ciphertext
               /\ [hash |-> Encrypt(p.plain[n], KeyOf(p.plain[n], seed(n))),
                   key |-> KeyOf(p.plain[n], seed(n))] \in KeyEntry
    BY <1>6, <1>7, KeyIs
  <1> HIDE DEF seed
  <1>9. keys \in Seq(Key) /\ Len(keys) = N /\ \A n \in 1 .. N : keys[n] = KeyOf(p.plain[n], seed(n))
    <2> DEFINE key(n) == KeyOf(p.plain[n], seed(n))
    <2>1. keys = [n \in 1 .. N |-> key(n)]
      BY <1>6
    <2>2. \A n \in 1 .. N : key(n) \in Key
      BY <1>8
    <2> HIDE DEF keys, key
    <2>3. keys \in Seq(Key) /\ Len(keys) = N /\ \A n \in 1 .. N : keys[n] = key(n)
      BY <1>6, <2>1, <2>2
    <2> QED  BY <2>3 DEF key
  <1>10. own \in Seq(Ciphertext) /\ Len(own) = N
         /\ \A n \in 1 .. N : own[n] = Encrypt(p.plain[n], keys[n])
    <2> DEFINE ct(n) == Encrypt(p.plain[n], keys[n])
    <2>1. own = [n \in 1 .. N |-> ct(n)]
      BY <1>6
    <2>2. \A n \in 1 .. N : ct(n) \in Ciphertext
      BY <1>8, <1>9
    <2> HIDE DEF own, ct
    <2>3. own \in Seq(Ciphertext) /\ Len(own) = N /\ \A n \in 1 .. N : own[n] = ct(n)
      BY <1>6, <2>1, <2>2
    <2> QED  BY <2>3 DEF ct
  <1> HIDE DEF keys, own
  <1>11. cts = own
    BY <1>4, <1>10
  <1> HIDE DEF cts
  <1>12. DOMAIN cts = 1 .. N /\ cts \in Seq(Ciphertext) /\ Len(cts) = N
         /\ \A n \in 1 .. N : cts[n] = Encrypt(p.plain[n], keys[n])
    BY <1>6, <1>10, <1>11
  <1>13. \A n \in 1 .. N : [hash |-> cts[n], key |-> keys[n]] \in KeyEntry
    BY <1>8, <1>9, <1>12
  <1>14. ents \in Seq(KeyEntry) /\ Len(ents) = N
         /\ \A n \in 1 .. N : ents[n] = [hash |-> cts[n], key |-> keys[n]]
    BY <1>6, <1>12, <1>13
  <1> HIDE DEF ents
  <1>15. Sealed(p.plain, keys, cts, ents)
    BY <1>5, <1>9, <1>12, <1>14 DEF Sealed
  <1>16. list \in Seq(KeyEntry) /\ list # <<>>
    BY <1>4, <1>6, <1>14
  <1> HIDE DEF list
  <1>17. last \in BOOLEAN /\ (last => d1) /\ d2 /\ d1 \in BOOLEAN /\ d2 \in BOOLEAN /\ cts # <<>>
    <2>1. cts # <<>>
      BY <1>6, <1>12
    <2>2. p.op = "batch" => Len(cts) % sendChunkBatchSize = 0
      <3>1. \A k \in Nat \ {0} : k % k = 0
        OBVIOUS
      <3> QED  BY <1>4, <1>5, <1>12, <3>1, DaEAssumption
    <2> QED  BY <1>2, <1>16, <2>1, <2>2 DEF Due, Batching
  <1>18. /\ full.cipher = cts /\ full.keyList = list /\ full.pos = p.pos /\ full.file = p.file
         /\ DOMAIN full = DOMAIN p
         /\ {"op", "plain", "cipher", "keyList", "file", "pos"} \subseteq DOMAIN p
    BY <1>3 DEF ProcessOK
  <1>19. PICK q, g, z : q = client'[c] /\ g = full /\ z = msgs
    OBVIOUS
  <1>20. q = AfterSend(g, z, last) /\ z = SendBuffers(g, last)
    BY <1>2, <1>19 DEF Shape
  <1>21. /\ g.cipher = cts /\ g.keyList = list /\ g.pos = p.pos /\ g.file = p.file
         /\ DOMAIN g = DOMAIN p
    BY <1>18, <1>19
  <1> HIDE DEF full, msgs
  <1>22. z = RecipeMsg(list, d1) \o ChunkMsg(cts, d2) \o EndMsg(p.pos, last)
    <2>1. z = RecipeMsg(g.keyList, Due(g.keyList, sendRecipeBatchSize, last))
              \o ChunkMsg(g.cipher, Due(g.cipher, sendChunkBatchSize, last)) \o EndMsg(g.pos, last)
      BY <1>20 DEF SendBuffers, RecipeMsg, ChunkMsg, EndMsg, Due
    <2> QED  BY <1>21, <2>1
  <1>27. z \in Seq(Msg) /\ (Has(z, "CLIENT_UPLOAD_RECIPE") <=> d1) /\ Has(z, "CLIENT_UPLOAD_CHUNK")
    <2>1. PICK n : n = p.pos
      OBVIOUS
    <2>2. PICK r, k, e : /\ r = RecipeMsg(list, d1) /\ k = ChunkMsg(cts, d2) /\ e = EndMsg(n, last)
      OBVIOUS
    <2>3. /\ list \in Seq(KeyEntry) /\ cts \in Seq(Ciphertext) /\ n \in Nat
          /\ z = r \o k \o e
      BY <1>4, <1>12, <1>16, <1>22, <2>1, <2>2
    <2>4. /\ r = <<>> \/ r = <<Message("CLIENT_UPLOAD_RECIPE", list)>>
          /\ k = <<>> \/ (k = <<Message("CLIENT_UPLOAD_CHUNK", cts)>> /\ cts # <<>>)
          /\ e = <<>> \/ e = <<Message("CLIENT_UPLOAD_RECIPE_END", <<n>>)>>
      BY <1>17, <2>2 DEF RecipeMsg, ChunkMsg, EndMsg
    <2>5. (r # <<>> <=> d1) /\ k # <<>>
      BY <1>17, <2>2 DEF RecipeMsg, ChunkMsg
    <2>6. /\ r \o k \o e \in Seq(Msg)
          /\ Has(r \o k \o e, "CLIENT_UPLOAD_RECIPE") <=> r # <<>>
          /\ Has(r \o k \o e, "CLIENT_UPLOAD_CHUNK") <=> k # <<>>
      BY ONLY <2>3, <2>4, MsgsIs
    <2> QED  BY <2>3, <2>5, <2>6
  <1>28. /\ DOMAIN q = DOMAIN p /\ q.plain = <<>> /\ q.file = p.file /\ q.pos = p.pos
         /\ q.keyList = (IF d1 THEN <<>> ELSE list) /\ q.cipher = <<>>
         /\ q.op = (IF last THEN "finish" ELSE "pop")
    <2>1. q = [g EXCEPT !.plain = <<>>,
                 !.keyList = IF Has(z, "CLIENT_UPLOAD_RECIPE") THEN <<>> ELSE @,
                 !.cipher = IF Has(z, "CLIENT_UPLOAD_CHUNK") THEN <<>> ELSE @,
                 !.op = IF last THEN "finish" ELSE "pop"]
      BY <1>20 DEF AfterSend, Has
    <2> HIDE DEF d1, last
    <2> QED  BY <1>18, <1>21, <1>27, <2>1
  <1>23. SendsTo(p, q, z, list, d1, cts, TRUE, last)
    BY <1>17, <1>22, <1>27, <1>28 DEF SendsTo
  <1>24. localKeys'[c] = localKeys[c] \o keys /\ toServer'[c] = toServer[c] \o z
    BY <1>2, <1>19 DEF Shape
  <1>25. last = (client[c].op = "lastBatch")
    BY <1>1
  <1>26. Sealed(client[c].plain, keys, cts, ents)
         /\ SendsTo(client[c], client'[c], z, client[c].keyList \o ents, d1, cts, TRUE, last)
    BY <1>1, <1>15, <1>19, <1>23 DEF list
  <1> HIDE DEF d1, last
  <1> QED  BY <1>17, <1>24, <1>25, <1>26

LEMMA EndIs ==
    ASSUME Shape, NEW c \in Client, ClientOK(c), EndUpload(c)
    PROVE  \E msgs : /\ toServer'[c] = toServer[c] \o msgs /\ localKeys' = localKeys
                     /\ SendsTo(client[c], client'[c], msgs, client[c].keyList,
                                client[c].keyList # <<>>, <<>>, FALSE, TRUE)
                     /\ client'[c].keyList = <<>>
  <1>1. PICK p, q, z : p = client[c] /\ q = client'[c] /\ z = SendBuffers(p, TRUE)
    OBVIOUS
  <1>2. ProcessOK(p)
    BY <1>1 DEF ClientOK
  <1>3. /\ p.keyList \in Seq(KeyEntry) /\ p.pos \in Nat /\ p.cipher = <<>>
        /\ {"op", "plain", "cipher", "keyList", "file", "pos"} \subseteq DOMAIN p
    BY <1>2 DEF ProcessOK
  <1>4. /\ q = AfterSend(p, z, TRUE) /\ toServer'[c] = toServer[c] \o z /\ localKeys' = localKeys
    BY <1>1 DEF EndUpload, Shape
  <1>5. z = RecipeMsg(p.keyList, p.keyList # <<>>) \o ChunkMsg(<<>>, FALSE) \o EndMsg(p.pos, TRUE)
    BY <1>1, <1>3 DEF SendBuffers, RecipeMsg, ChunkMsg, EndMsg
  <1>6. z \in Seq(Msg) /\ (Has(z, "CLIENT_UPLOAD_RECIPE") <=> p.keyList # <<>>)
    <2>1. PICK n, list : n = p.pos /\ list = p.keyList
      OBVIOUS
    <2>2. PICK r, e : r = RecipeMsg(list, list # <<>>) /\ e = EndMsg(n, TRUE)
      OBVIOUS
    <2>3. /\ list \in Seq(KeyEntry) /\ <<>> \in Seq(Ciphertext) /\ n \in Nat
          /\ z = r \o <<>> \o e
      BY <1>3, <1>5, <2>1, <2>2 DEF ChunkMsg
    <2>4. /\ r = <<>> \/ r = <<Message("CLIENT_UPLOAD_RECIPE", list)>>
          /\ e = <<>> \/ e = <<Message("CLIENT_UPLOAD_RECIPE_END", <<n>>)>>
      BY <2>2 DEF RecipeMsg, EndMsg
    <2>5. r # <<>> <=> list # <<>>
      BY <2>2 DEF RecipeMsg
    <2>6. /\ r \o <<>> \o e \in Seq(Msg)
          /\ Has(r \o <<>> \o e, "CLIENT_UPLOAD_RECIPE") <=> r # <<>>
      BY ONLY <2>3, <2>4, MsgsIs
    <2> QED  BY <2>1, <2>3, <2>5, <2>6
  <1>7. q = [p EXCEPT !.plain = <<>>,
                 !.keyList = IF Has(z, "CLIENT_UPLOAD_RECIPE") THEN <<>> ELSE @,
                 !.cipher = IF Has(z, "CLIENT_UPLOAD_CHUNK") THEN <<>> ELSE @,
                 !.op = IF TRUE THEN "finish" ELSE "pop"]
    BY <1>4 DEF AfterSend, Has
  <1>8. /\ DOMAIN q = DOMAIN p /\ q.plain = <<>> /\ q.file = p.file /\ q.pos = p.pos
        /\ q.keyList = <<>> /\ q.cipher = <<>> /\ q.op = "finish"
    BY <1>3, <1>6, <1>7
  <1>9. SendsTo(p, q, z, p.keyList, p.keyList # <<>>, <<>>, FALSE, TRUE)
    BY <1>5, <1>6, <1>8 DEF SendsTo
  <1> QED  BY <1>1, <1>4, <1>8, <1>9

LEMMA EncryptBatchClient ==
    ASSUME Shape, NEW c \in Client, ClientOK(c), EncryptBatch(c)
    PROVE  ClientOK(c)'
  <1>1. PICK p, q, old, new : p = client[c] /\ q = client'[c] /\ old = localKeys[c] /\ new = localKeys'[c]
    OBVIOUS
  <1>2. ProcessOK(p) /\ BatchOK(p, old) /\ ThreadOK(p, km[c]) /\ toServer[c] \in Seq(Msg)
    BY <1>1 DEF ClientOK
  <1>3. PICK keys, cts, ents, msgs : \E d1, last \in BOOLEAN :
              /\ Sealed(client[c].plain, keys, cts, ents)
              /\ last = (client[c].op = "lastBatch") /\ (last => d1)
              /\ localKeys'[c] = localKeys[c] \o keys
              /\ toServer'[c] = toServer[c] \o msgs
              /\ SendsTo(client[c], client'[c], msgs, client[c].keyList \o ents, d1, cts, TRUE, last)
    BY EncryptIs
  <1>4. /\ keys \in Seq(Key) /\ Len(keys) = Len(p.plain) /\ ents \in Seq(KeyEntry)
        /\ new = old \o keys /\ toServer'[c] = toServer[c] \o msgs /\ msgs \in Seq(Msg)
        /\ DOMAIN q = DOMAIN p /\ q.plain = <<>> /\ q.cipher = <<>> /\ q.file = p.file /\ q.pos = p.pos
        /\ q.keyList = <<>> \/ q.keyList = p.keyList \o ents
        /\ (p.op = "lastBatch" /\ q.op = "finish") \/ (p.op = "batch" /\ q.op = "pop")
    <2>1. p.op \in Batching
      BY <1>1, Zenon DEF EncryptBatch, Batching
    <2> QED  BY <1>1, <1>3, <2>1, Zenon DEF Sealed, SendsTo, Batching
  <1>5. /\ UNCHANGED <<method, plan>>
        /\ (~UsesKM /\ km' = km) \/ (UsesKM /\ km'[c] = [KMThread EXCEPT !.pc = "recv"])
    BY Zenon DEF EncryptBatch, Shape
  <1>6. /\ old \in Seq(Key) /\ Len(old) + Len(p.plain) = p.pos /\ p.pos <= Len(p.file)
        /\ p.file \in Seq(Chunk) /\ p.plain \in Seq(Chunk)
        /\ (p.op = "lastBatch" => p.pos = Len(p.file)) /\ p.keyList \in Seq(KeyEntry) /\ p.pos \in Nat
    BY <1>2, <1>4 DEF ProcessOK, BatchOK, Uploading
  <1>7. new \in Seq(Key) /\ Len(new) = p.pos
    <2>1. Len(new) = Len(old) + Len(keys) /\ new \in Seq(Key)
      <3>1. PICK a, b : a = old /\ b = keys
        OBVIOUS
      <3>2. a \in Seq(Key) /\ b \in Seq(Key) /\ new = a \o b
        BY <1>4, <1>6, <3>1
      <3>3. Len(a \o b) = Len(a) + Len(b) /\ a \o b \in Seq(Key)
        BY ONLY <3>2, ConcatIs
      <3> QED  BY <3>1, <3>2, <3>3
    <2> QED  BY <1>4, <1>6, <2>1
  <1>8. q.keyList \in Seq(KeyEntry)
    <2>1. PICK list : list = p.keyList
      OBVIOUS
    <2>2. list \in Seq(KeyEntry) /\ list \o ents \in Seq(KeyEntry)
      BY ONLY <1>4, <1>6, <2>1, ConcatIs
    <2>3. q.keyList = <<>> \/ q.keyList = list \o ents
      BY <1>4, <2>1
    <2>4. <<>> \in Seq(KeyEntry)
      OBVIOUS
    <2> QED  BY ONLY <2>2, <2>3, <2>4
  <1>9. ProcessOK(q)
    BY <1>2, <1>4, <1>6, <1>8 DEF ProcessOK, Ops, Uploading
  <1>10. BatchOK(q, new)
    BY <1>4, <1>6, <1>7 DEF BatchOK, Batching, Uploading
  <1>11. ThreadOK(q, km[c])'
    <2>1. ThreadOK(p, km[c]) /\ (UsesKM' <=> UsesKM) /\ q.op \notin Batching
      BY <1>2, <1>4, <1>5 DEF UsesKM, Batching
    <2>2. CASE ~UsesKM
      BY <1>5, <2>1, <2>2 DEF ThreadOK
    <2>3. CASE UsesKM
      <3>1. km'[c].pc = "recv" /\ km'[c].in = <<>> /\ km'[c].out = <<>>
            /\ DOMAIN km'[c] = {"pc", "in", "out"}
        BY <1>5, <2>3 DEF KMThread
      <3> QED  BY <2>1, <2>3, <3>1 DEF ThreadOK
    <2> QED  BY <2>2, <2>3
  <1>12. toServer'[c] \in Seq(Msg) /\ plan'[c] \in Seq(Seq(Seq(Chunk)))
    <2>1. plan'[c] \in Seq(Seq(Seq(Chunk)))
      BY <1>5 DEF ClientOK
    <2> QED  BY ONLY <1>2, <1>4, <2>1, ConcatIs
  <1> QED  BY <1>1, <1>9, <1>10, <1>11, <1>12 DEF ClientOK

LEMMA EndUploadClient ==
    ASSUME Shape, NEW c \in Client, ClientOK(c), EndUpload(c)
    PROVE  ClientOK(c)'
  <1>1. PICK p, q, keys : p = client[c] /\ q = client'[c] /\ keys = localKeys[c]
    OBVIOUS
  <1>2. ProcessOK(p) /\ BatchOK(p, keys) /\ ThreadOK(p, km[c]) /\ toServer[c] \in Seq(Msg)
    BY <1>1 DEF ClientOK
  <1>3. PICK msgs : /\ toServer'[c] = toServer[c] \o msgs /\ localKeys' = localKeys
                    /\ SendsTo(p, q, msgs, p.keyList, p.keyList # <<>>, <<>>, FALSE, TRUE)
                    /\ q.keyList = <<>>
    BY <1>1, EndIs
  <1>4. UNCHANGED <<method, plan, km>> /\ p.op = "end"
    BY <1>1 DEF EndUpload, kmVars
  <1>5. /\ msgs \in Seq(Msg) /\ DOMAIN q = DOMAIN p /\ q.plain = <<>> /\ q.cipher = <<>>
        /\ q.file = p.file /\ q.pos = p.pos /\ q.op = "finish"
    BY <1>3 DEF SendsTo
  <1>6. ProcessOK(q)
    BY <1>2, <1>3, <1>5 DEF ProcessOK, Ops, Uploading
  <1>7. BatchOK(q, keys)
    BY <1>2, <1>4, <1>5 DEF BatchOK, Batching, Uploading
  <1>8. ThreadOK(q, km[c])'
    BY <1>2, <1>4, <1>5 DEF ThreadOK, UsesKM, Batching, Uploading
  <1>9. toServer'[c] \in Seq(Msg) /\ plan'[c] \in Seq(Seq(Seq(Chunk)))
    BY <1>2, <1>3, <1>4, <1>5 DEF ClientOK
  <1> QED  BY <1>1, <1>3, <1>4, <1>6, <1>7, <1>8, <1>9 DEF ClientOK

LEMMA ClientParts ==
    ASSUME NEW c \in Client, ClientOK(c)
    PROVE  /\ plan[c] \in Seq(Seq(Seq(Chunk))) /\ ProcessOK(client[c])
           /\ BatchOK(client[c], localKeys[c]) /\ ThreadOK(client[c], km[c])
           /\ toServer[c] \in Seq(Msg)
  BY DEF ClientOK

(* A step that leaves the client's process, keys and thread alone. *)
LEMMA SameClient ==
    ASSUME NEW c \in Client, ClientOK(c), method' = method, plan'[c] \in Seq(Seq(Seq(Chunk))),
           client'[c] = client[c], localKeys'[c] = localKeys[c], km'[c] = km[c], toServer'[c] \in Seq(Msg)
    PROVE  ClientOK(c)'
  BY DEF ClientOK, ThreadOK, UsesKM

(* A step after which the client is not uploading. *)
LEMMA AwayClient ==
    ASSUME NEW c \in Client, ClientOK(c), method' = method, plan'[c] = plan[c], km'[c] = km[c],
           ProcessOK(client'[c]), client'[c].op \notin Uploading, toServer'[c] \in Seq(Msg)
    PROVE  ClientOK(c)'
  BY DEF ClientOK, ThreadOK, BatchOK, Batching, Uploading, UsesKM

LEMMA MsgTail ==
    ASSUME NEW S, NEW s \in Seq(S), s # <<>>
    PROVE  /\ Head(s) \in S /\ Tail(s) \in Seq(S) /\ Len(Tail(s)) = Len(s) - 1
           /\ \A n \in 1 .. Len(s) - 1 : Tail(s)[n] = s[n + 1]
  OBVIOUS

LEMMA AbortClient ==
    ASSUME Shape, NEW c \in Client, ClientOK(c), Abort(c)
    PROVE  ClientOK(c)'
  <1>1. /\ client'[c] = [Process EXCEPT !.op = "dead"] /\ UNCHANGED <<method, plan, km>>
        /\ \E n \in 0 .. Len(toServer[c]) : toServer'[c] = SubSeq(toServer[c], 1, n)
    BY DEF Abort, Shape, kmVars
  <1>2. toServer[c] \in Seq(Msg)
    BY ClientParts
  <1>3. PICK n \in 0 .. Len(toServer[c]) : toServer'[c] = SubSeq(toServer[c], 1, n)
    BY <1>1
  <1>4. toServer'[c] \in Seq(Msg)
    <2>1. PICK s : s = toServer[c]
      OBVIOUS
    <2>2. s \in Seq(Msg) /\ n \in 0 .. Len(s)
      BY ONLY <1>2, <2>1, n \in 0 .. Len(toServer[c])
    <2>3. SubSeq(s, 1, n) \in Seq(Msg)
      BY ONLY <2>2
    <2> QED  BY <1>3, <2>1, <2>3
  <1>5. ProcessOK(client'[c]) /\ client'[c].op \notin Uploading
    BY <1>1 DEF ProcessOK, Process, Ops, Uploading
  <1> QED  BY <1>1, <1>4, <1>5, AwayClient

LEMMA ReceiverClient ==
    ASSUME Shape, NEW c \in Client, ClientOK(c),
           \/ ProcessRecipes(c) \/ ReceiveBatch(c) \/ ProcessRecipeEnd(c)
           \/ QueryIndex(c) \/ StoreChunk(c) \/ LastContainer(c) \/ EndSession(c) \/ SaveToFile(c)
           \/ DecodeEntry(c) \/ DecodeTail(c) \/ DecoderFails(c)
    PROVE  ClientOK(c)'
  <1>1. /\ UNCHANGED <<method, plan, client, localKeys, km>>
        /\ toServer'[c] = toServer[c] \/ (toServer[c] # <<>> /\ toServer'[c] = Tail(toServer[c]))
    <2>1. CASE \/ ProcessRecipes(c) \/ ReceiveBatch(c) \/ ProcessRecipeEnd(c)
      BY <2>1 DEF ProcessRecipes, ReceiveBatch, ProcessRecipeEnd, Receives, kmVars, Shape
    <2>2. CASE \/ QueryIndex(c) \/ StoreChunk(c) \/ LastContainer(c) \/ EndSession(c) \/ SaveToFile(c)
      BY <2>2 DEF QueryIndex, StoreChunk, LastContainer, EndSession, SaveToFile, kmVars
    <2>3. CASE \/ DecodeEntry(c) \/ DecodeTail(c) \/ DecoderFails(c)
      BY <2>3 DEF DecodeEntry, DecodeTail, DecoderFails, kmVars
    <2> QED  BY <2>1, <2>2, <2>3
  <1>2. toServer[c] \in Seq(Msg) /\ plan[c] \in Seq(Seq(Seq(Chunk)))
    BY ClientParts
  <1>3. toServer'[c] \in Seq(Msg)
    BY ONLY <1>1, <1>2, MsgTail
  <1> QED  BY <1>1, <1>2, <1>3, SameClient

LEMMA RestoreUnknownClient ==
    ASSUME Shape, NEW c \in Client, ClientOK(c), RestoreUnknown(c)
    PROVE  ClientOK(c)'
  <1>1. /\ UNCHANGED <<method, client, localKeys, km, toServer>>
        /\ plan[c] # <<>> /\ plan'[c] = Tail(plan[c])
    BY DEF RestoreUnknown, kmVars, Shape
  <1>2. toServer[c] \in Seq(Msg) /\ plan[c] \in Seq(Seq(Seq(Chunk)))
    BY ClientParts
  <1>3. plan'[c] \in Seq(Seq(Seq(Chunk)))
    BY ONLY <1>1, <1>2, MsgTail
  <1> QED  BY <1>1, <1>2, <1>3, SameClient

LEMMA LeavingClient ==
    ASSUME Shape, NEW c \in Client, ClientOK(c),
           ClientFails(c) \/ Again(c) \/ ExitRestore(c) \/ CloseRestore(c) \/ ReceiveChunks(c)
    PROVE  ClientOK(c)'
  <1>1. ProcessOK(client[c]) /\ toServer[c] \in Seq(Msg)
    BY ClientParts
  <1>2. UNCHANGED <<method, plan, km, toServer>>
    BY Zenon DEF ClientFails, Again, ExitRestore, CloseRestore, ReceiveChunks, kmVars
  <1>3. ProcessOK(client'[c]) /\ client'[c].op \notin Uploading
    <2> USE DEF Shape, ProcessOK, Process, Ops, Uploading, Restoring
    <2>1. CASE ClientFails(c)  BY <1>1, <2>1 DEF ClientFails
    <2>2. CASE Again(c)  BY <1>1, <2>2 DEF Again
    <2>3. CASE ExitRestore(c)  BY <1>1, <2>3 DEF ExitRestore
    <2>4. CASE CloseRestore(c)  BY <1>1, <2>4 DEF CloseRestore
    <2>5. CASE ReceiveChunks(c)  BY <1>1, <2>5, Zenon DEF ReceiveChunks
    <2> QED  BY <2>1, <2>2, <2>3, <2>4, <2>5
  <1> QED  BY <1>1, <1>2, <1>3, AwayClient

LEMMA LoginClient ==
    ASSUME Shape, NEW c \in Client, NEW type, Login(c, type), ClientOK(c)
    PROVE  toServer'[c] \in Seq(Msg)
  <1>1. toServer[c] \in Seq(Msg)
    BY ClientParts
  <1>2. toServer[c] # <<>> /\ toServer'[c] = Tail(toServer[c])
    BY DEF Login, Shape
  <1> QED  BY ONLY <1>1, <1>2, MsgTail

(* Where the client is, where the server's session for it is, and what is     *)
(* between them.                                                             *)
Busy    == {"recv", "query", "store"}
Quiet   == {"none", "last", "join"}
Sending == {"pop", "batch", "lastBatch", "end", "finish"}
Upload  == {"CLIENT_UPLOAD_RECIPE", "CLIENT_UPLOAD_CHUNK", "CLIENT_UPLOAD_RECIPE_END"}
ProtoAt(op, pc, msgs) ==
    /\ op \in {"idle", "restored"} => pc \in Quiet /\ msgs = <<>>
    /\ op = "login" => pc \in Quiet /\ msgs = <<Message("CLIENT_LOGIN_UPLOAD", <<>>)>>
    /\ op \in Sending => pc \in Busy /\ \A n \in DOMAIN msgs : msgs[n].type \in Upload
    /\ op = "loginRestore" => pc \in Quiet /\ msgs = <<Message("CLIENT_LOGIN_DOWNLOAD", <<>>)>>
    /\ op \in {"receive", "closing"} => pc \in {"decode", "waitClose"} /\ msgs = <<>>
Proto(c) ==
    /\ serverUp => ProtoAt(client[c].op, srv[c].pc, toServer[c])
    /\ client[c].op = "closeKM" => srv[c].pc \in Quiet /\ toServer[c] = <<>>

LEMMA LoginIs ==
    ASSUME NEW c \in Client, NEW type \in Logins, ClientOK(c), Proto(c), Login(c, type)
    PROVE  /\ client[c].op \in {"login", "loginRestore", "dead"}
           /\ client[c].op = "login" => type = "CLIENT_LOGIN_UPLOAD"
           /\ client[c].op = "loginRestore" => type = "CLIENT_LOGIN_DOWNLOAD"
           /\ client[c].op # "dead" => Tail(toServer[c]) = <<>>
  <1>1. client[c].op \in Ops /\ toServer[c] \in Seq(Msg)
    BY ClientParts DEF ProcessOK
  <1>2. serverUp /\ srv[c].pc = "none" /\ toServer[c] # <<>> /\ Head(toServer[c]).type = type
    BY DEF Login
  <1>3. ProtoAt(client[c].op, srv[c].pc, toServer[c])
    BY <1>2 DEF Proto
  <1>4. client[c].op \notin Sending \cup {"receive", "closing", "idle", "restored", "closeKM"}
    BY <1>2, <1>3 DEF ProtoAt, Proto, Busy
  <1>5. client[c].op \in {"login", "loginRestore", "dead"}
    BY <1>1, <1>4 DEF Ops, Uploading, Restoring, Sending
  <1>6. client[c].op = "login" => toServer[c] = <<Message("CLIENT_LOGIN_UPLOAD", <<>>)>>
    BY <1>3 DEF ProtoAt
  <1>7. client[c].op = "loginRestore" => toServer[c] = <<Message("CLIENT_LOGIN_DOWNLOAD", <<>>)>>
    BY <1>3 DEF ProtoAt
  <1>8. \A x : Head(<<x>>) = x /\ Tail(<<x>>) = <<>>
    OBVIOUS
  <1>9. Message("CLIENT_LOGIN_UPLOAD", <<>>).type = "CLIENT_LOGIN_UPLOAD"
        /\ Message("CLIENT_LOGIN_DOWNLOAD", <<>>).type = "CLIENT_LOGIN_DOWNLOAD"
    BY DEF Message
  <1>10. PICK s, x, y : /\ s = toServer[c] /\ x = Message("CLIENT_LOGIN_UPLOAD", <<>>)
                        /\ y = Message("CLIENT_LOGIN_DOWNLOAD", <<>>)
    OBVIOUS
  <1>11. CASE client[c].op = "login"
    <2>1. s = <<x>> /\ Head(s).type = type /\ x.type = "CLIENT_LOGIN_UPLOAD"
      BY <1>2, <1>6, <1>9, <1>10, <1>11
    <2>2. Tail(s) = <<>> /\ Head(s) = x
      BY <1>8, <2>1
    <2> QED  BY <1>10, <1>11, <2>1, <2>2
  <1>12. CASE client[c].op = "loginRestore"
    <2>1. s = <<y>> /\ Head(s).type = type /\ y.type = "CLIENT_LOGIN_DOWNLOAD"
      BY <1>2, <1>7, <1>9, <1>10, <1>12
    <2>2. Tail(s) = <<>> /\ Head(s) = y
      BY <1>8, <2>1
    <2> QED  BY <1>10, <1>12, <2>1, <2>2
  <1> QED  BY <1>5, <1>11, <1>12

LEMMA AdmitUploadClient ==
    ASSUME Shape, NEW c \in Client, ClientOK(c), Proto(c), AdmitUpload(c)
    PROVE  ClientOK(c)'
  <1>1. /\ Login(c, "CLIENT_LOGIN_UPLOAD") /\ UNCHANGED <<method, plan, localKeys, km>>
        /\ client'[c] = client[c] \/ (client[c].op # "dead" /\ client'[c] = [client[c] EXCEPT !.op = "pop"])
        /\ client[c].op # "dead" => client'[c] = [client[c] EXCEPT !.op = "pop"]
    BY DEF AdmitUpload, Responds, Shape, kmVars
  <1>2. toServer'[c] \in Seq(Msg)
    BY <1>1, LoginClient
  <1>3. client[c].op \in {"login", "dead"}
    BY <1>1, LoginIs DEF Logins
  <1>4. CASE client'[c] = client[c]
    BY <1>1, <1>2, <1>4, ClientParts, SameClient
  <1>5. CASE client[c].op # "dead"
    <2>1. PICK p, q : p = client[c] /\ q = client'[c]
      OBVIOUS
    <2>2. ProcessOK(p) /\ BatchOK(p, localKeys[c]) /\ ThreadOK(p, km[c]) /\ p.op = "login"
      BY <1>3, <1>5, <2>1, ClientParts
    <2>3. /\ DOMAIN q = DOMAIN p /\ q.op = "pop" /\ q.file = p.file /\ q.pos = p.pos /\ q.plain = p.plain
          /\ q.cipher = p.cipher /\ q.keyList = p.keyList
      BY <1>1, <1>5, <2>1, <2>2 DEF ProcessOK
    <2>4. ProcessOK(q)
      BY <2>2, <2>3 DEF ProcessOK, Ops, Uploading
    <2>5. BatchOK(q, localKeys[c])
      BY <2>2, <2>3 DEF BatchOK, Batching, Uploading
    <2>6. ThreadOK(q, km[c])'
      BY <1>1, <2>2, <2>3 DEF ThreadOK, Batching, Uploading, UsesKM
    <2> QED  BY <1>1, <1>2, <2>1, <2>4, <2>5, <2>6, ClientParts DEF ClientOK
  <1> QED  BY <1>1, <1>4, <1>5

LEMMA LoginRestoreClient ==
    ASSUME Shape, NEW c \in Client, ClientOK(c), Proto(c), RejectRestore(c) \/ AdmitRestore(c)
    PROVE  ClientOK(c)'
  <1>1. /\ Login(c, "CLIENT_LOGIN_DOWNLOAD") /\ UNCHANGED <<method, plan, localKeys, km>>
    BY DEF RejectRestore, AdmitRestore, kmVars
  <1>2. toServer'[c] \in Seq(Msg)
    BY <1>1, LoginClient
  <1>3. client[c].op \in {"loginRestore", "dead"}
    BY <1>1, LoginIs DEF Logins
  <1>4. ProcessOK(client[c])
    BY ClientParts
  <1>5. ProcessOK(client'[c]) /\ client'[c].op \notin Uploading
    <2> USE DEF Shape, ProcessOK, Process, Ops, Uploading, Restoring
    <2>1. CASE RejectRestore(c)  BY <1>3, <1>4, <2>1 DEF RejectRestore, Responds
    <2>2. CASE AdmitRestore(c)  BY <1>3, <1>4, <2>2 DEF AdmitRestore
    <2> QED  BY <2>1, <2>2
  <1> QED  BY <1>1, <1>2, <1>5, AwayClient

LEMMA ConnectionClosedClient ==
    ASSUME Shape, NEW c \in Client, ClientOK(c), ConnectionClosed(c)
    PROVE  ClientOK(c)'
  <1>1. /\ UNCHANGED <<method, plan, localKeys, km, toServer>>
        /\ client[c].op \in {"finish", "dead"}
        /\ \/ client'[c] = client[c]
           \/ client[c].op = "finish" /\ client'[c] = [client[c] EXCEPT !.op = "closeKM"]
           \/ client'[c] = Process
    BY DEF ConnectionClosed, PeerGone, Shape, kmVars
  <1>2. toServer'[c] \in Seq(Msg)
    BY <1>1, ClientParts
  <1>3. CASE client'[c] = client[c]
    BY <1>1, <1>2, <1>3, ClientParts, SameClient
  <1>4. CASE client'[c] = Process
    BY <1>1, <1>2, <1>4, IdleOK, AwayClient DEF Process, Uploading
  <1>5. CASE client[c].op = "finish" /\ client'[c] = [client[c] EXCEPT !.op = "closeKM"]
    <2>1. PICK p, q : p = client[c] /\ q = client'[c]
      OBVIOUS
    <2>2. ProcessOK(p) /\ BatchOK(p, localKeys[c]) /\ ThreadOK(p, km[c]) /\ p.op = "finish"
      BY <1>5, <2>1, ClientParts
    <2>3. /\ DOMAIN q = DOMAIN p /\ q.op = "closeKM" /\ q.file = p.file /\ q.pos = p.pos /\ q.plain = p.plain
          /\ q.cipher = p.cipher /\ q.keyList = p.keyList
      BY <1>5, <2>1, <2>2 DEF ProcessOK
    <2>4. ProcessOK(q)
      BY <2>2, <2>3 DEF ProcessOK, Ops, Uploading
    <2>5. BatchOK(q, localKeys[c])
      BY <2>2, <2>3 DEF BatchOK, Batching, Uploading
    <2>6. ThreadOK(q, km[c])'
      BY <1>1, <2>2, <2>3 DEF ThreadOK, Batching, Uploading, UsesKM
    <2> QED  BY <1>1, <1>2, <2>1, <2>4, <2>5, <2>6, ClientParts DEF ClientOK
  <1> QED  BY <1>1, <1>3, <1>4, <1>5

LEMMA KeyManagerClient ==
    ASSUME Shape, NEW c \in Client, ClientOK(c),
           RequestKeys(c) \/ GenerateKeySeed(c) \/ ReplyKeys(c)
    PROVE  ClientOK(c)'
  <1>1. UNCHANGED <<method, plan, client, localKeys, toServer>>
    BY DEF RequestKeys, GenerateKeySeed, ReplyKeys
  <1>2. PICK p, k, m : p = client[c] /\ k = km[c] /\ m = km'[c]
    OBVIOUS
  <1>3. ProcessOK(p) /\ BatchOK(p, localKeys[c]) /\ ThreadOK(p, k)
    BY <1>2, ClientParts
  <1>4. ThreadOK(p, m)
    <2>1. CASE RequestKeys(c)
      <3>1. m = [pc |-> "loop", in |-> p.plain, out |-> <<>>] /\ p.op \in Batching /\ UsesKM
        BY <1>2, <2>1 DEF RequestKeys, Shape, Batching
      <3>2. p.plain \in Seq(Chunk) /\ p.plain # <<>>
        BY <1>3, <3>1 DEF ProcessOK, BatchOK, Batching, Uploading
      <3>3. Len(p.plain) > 0
        BY <3>2
      <3> QED  BY <3>1, <3>2, <3>3 DEF ThreadOK
    <2>2. CASE GenerateKeySeed(c)
      <3>1. PICK seed \in Seed : m = [k EXCEPT !.out = Append(@, seed),
                        !.pc = IF Len(k.out) + 1 = Len(k.in) THEN "reply" ELSE @]
        <4>1. \A freq : Params(freq) \subseteq Seed
          BY DEF Params, Seed
        <4>2. {0} \subseteq Seed /\ Garbage \in Seed
          BY DEF Seed
        <4> DEFINE freq == CurFreq(Count(sketchTable, km[c].in[Len(km[c].out) + 1]),
                                   km[c].in[Len(km[c].out) + 1])
                   right == IF method = "TED" THEN Params(freq) ELSE {0}
                   bad   == IF Racing(c) THEN {Garbage} ELSE {}
        <4>3. \E seed \in right \cup bad :
                 km' = [km EXCEPT ![c].out = Append(@, seed),
                                  ![c].pc = IF Len(km[c].out) + 1 = Len(km[c].in) THEN "reply" ELSE @]
          BY <2>2 DEF GenerateKeySeed, NextChunk
        <4>4. right \cup bad \subseteq Seed
          BY <4>1, <4>2
        <4> HIDE DEF right, bad
        <4> QED  BY <1>2, <4>3, <4>4, Zenon DEF Shape
      <3>2. k.out \in Seq(Seed) /\ k.in \in Seq(Chunk) /\ Len(k.out) < Len(k.in) /\ k.pc = "loop"
        BY <1>2, <1>3, <2>2 DEF ThreadOK, GenerateKeySeed
      <3>3. PICK out : out = Append(k.out, seed)
        OBVIOUS
      <3>4. out \in Seq(Seed) /\ Len(out) = Len(k.out) + 1
        BY <3>2, <3>3
      <3>5. DOMAIN m = DOMAIN k /\ m.out = out /\ m.in = k.in
            /\ m.pc = IF Len(k.out) + 1 = Len(k.in) THEN "reply" ELSE k.pc
        BY <1>3, <3>1, <3>3 DEF ThreadOK
      <3>6. m.pc \in {"loop", "reply"} /\ (m.pc = "loop" => Len(m.out) < Len(m.in))
            /\ (m.pc = "reply" => Len(m.out) = Len(m.in))
        BY <3>2, <3>4, <3>5
      <3> QED  BY <1>3, <3>2, <3>4, <3>5, <3>6 DEF ThreadOK
    <2>3. CASE ReplyKeys(c)
      <3>1. \/ m = [k EXCEPT !.pc = "sent"] /\ k.pc = "reply"
            \/ m = [KMThread EXCEPT !.pc = "recv"] /\ p.op = "dead" /\ k.pc = "reply"
            \/ m = k
        BY <1>2, <2>3 DEF ReplyKeys, Shape
      <3>2. CASE m = k  BY <1>3, <3>2
      <3>3. CASE m = [k EXCEPT !.pc = "sent"] /\ k.pc = "reply"
        BY <1>3, <3>3 DEF ThreadOK
      <3>4. CASE m = [KMThread EXCEPT !.pc = "recv"] /\ p.op = "dead" /\ k.pc = "reply"
        BY <1>3, <3>4 DEF ThreadOK, KMThread, Batching, Uploading
      <3> QED  BY <3>1, <3>2, <3>3, <3>4
    <2> QED  BY <2>1, <2>2, <2>3
  <1> QED  BY <1>1, <1>2, <1>4, ClientParts DEF ClientOK, ThreadOK, UsesKM

LEMMA CloseKeyThreadClient ==
    ASSUME Shape, NEW c \in Client, ClientOK(c), CloseKeyThread(c)
    PROVE  ClientOK(c)'
  <1>1. UNCHANGED <<method, plan, localKeys, toServer>> /\ km'[c] = KMThread
        /\ client'[c] \in {client[c], Process} /\ client[c].op \in {"closeKM", "dead"}
        /\ (client[c].op = "closeKM" => client'[c] = Process)
    BY DEF CloseKeyThread, Shape
  <1>2. ProcessOK(client'[c]) /\ client'[c].op \notin Uploading
    BY <1>1, IdleOK, ClientParts DEF Process, Uploading
  <1>3. ThreadOK(client[c], km[c])'
    BY <1>1, <1>2 DEF ThreadOK, KMThread, Batching, Uploading
  <1> QED  BY <1>1, <1>2, <1>3, ClientParts DEF ClientOK, BatchOK

LEMMA ClientStep ==
    ASSUME Shape, NEW c \in Client, ClientOK(c), Proto(c), Step(c)
    PROVE  ClientOK(c)'
  BY StartUploadClient, StartRestoreClient, RestoreUnknownClient, AbortClient, FillBatchClient,
     EncryptBatchClient, EndUploadClient, ReceiverClient, LeavingClient, KeyManagerClient,
     CloseKeyThreadClient, AdmitUploadClient, LoginRestoreClient, ConnectionClosedClient DEF Step

LEMMA TailUpload ==
    ASSUME NEW S, NEW msgs \in Seq(S), msgs # <<>>, \A n \in DOMAIN msgs : msgs[n].type \in Upload
    PROVE  \A n \in DOMAIN Tail(msgs) : Tail(msgs)[n].type \in Upload
  <1> SUFFICES ASSUME NEW n \in DOMAIN Tail(msgs) PROVE Tail(msgs)[n].type \in Upload
    OBVIOUS
  <1>1. n \in 1 .. Len(msgs) - 1 /\ n + 1 \in DOMAIN msgs
    OBVIOUS
  <1>2. Tail(msgs)[n] = msgs[n + 1]
    BY <1>1
  <1> QED  BY <1>1, <1>2

LEMMA ConcatUpload ==
    ASSUME NEW S, NEW s \in Seq(S), NEW u \in Seq(S),
           \A n \in DOMAIN s : s[n].type \in Upload, \A n \in DOMAIN u : u[n].type \in Upload
    PROVE  \A n \in DOMAIN (s \o u) : (s \o u)[n].type \in Upload
  <1> SUFFICES ASSUME NEW n \in DOMAIN (s \o u) PROVE (s \o u)[n].type \in Upload
    OBVIOUS
  <1>1. n \in 1 .. Len(s) + Len(u) /\ Len(s) \in Nat /\ Len(u) \in Nat
    OBVIOUS
  <1>2. CASE n <= Len(s)
    <2>1. n \in DOMAIN s /\ (s \o u)[n] = s[n]
      BY <1>1, <1>2
    <2> QED  BY <2>1
  <1>3. CASE ~(n <= Len(s))
    <2>1. n - Len(s) \in DOMAIN u /\ (s \o u)[n] = u[n - Len(s)]
      BY <1>1, <1>3
    <2> QED  BY <2>1
  <1> QED  BY <1>2, <1>3

LEMMA SendsUpload ==
    ASSUME NEW p, NEW q, NEW msgs, NEW list, NEW d1, NEW cts, NEW d2, NEW last,
           SendsTo(p, q, msgs, list, d1, cts, d2, last)
    PROVE  \A n \in DOMAIN msgs : msgs[n].type \in Upload
  <1> DEFINE r == RecipeMsg(list, d1)
             k == ChunkMsg(cts, d2)
             e == EndMsg(p.pos, last)
             S == {Message("CLIENT_UPLOAD_RECIPE", list), Message("CLIENT_UPLOAD_CHUNK", cts),
                   Message("CLIENT_UPLOAD_RECIPE_END", <<p.pos>>)}
  <1>1. r \in Seq(S) /\ k \in Seq(S) /\ e \in Seq(S)
    <2>1. \A x \in S : <<x>> \in Seq(S)
      OBVIOUS
    <2>2. <<>> \in Seq(S)
      OBVIOUS
    <2>3. /\ r = <<>> \/ r = <<Message("CLIENT_UPLOAD_RECIPE", list)>>
          /\ k = <<>> \/ k = <<Message("CLIENT_UPLOAD_CHUNK", cts)>>
          /\ e = <<>> \/ e = <<Message("CLIENT_UPLOAD_RECIPE_END", <<p.pos>>)>>
      BY DEF RecipeMsg, ChunkMsg, EndMsg
    <2>4. /\ Message("CLIENT_UPLOAD_RECIPE", list) \in S /\ Message("CLIENT_UPLOAD_CHUNK", cts) \in S
          /\ Message("CLIENT_UPLOAD_RECIPE_END", <<p.pos>>) \in S
      OBVIOUS
    <2> HIDE DEF r, k, e, S
    <2> QED  BY <2>1, <2>2, <2>3, <2>4
  <1>2. \A x \in S : x.type \in Upload
    BY DEF Upload, Message
  <1>3. msgs = (r \o k) \o e
    BY DEF SendsTo
  <1> HIDE DEF r, k, e, S
  <1>4. msgs \in Seq(S)
    BY <1>1, <1>3
  <1> QED  BY <1>2, <1>4

LEMMA ProtoStep ==
    ASSUME Shape, NEW c \in Client, ClientOK(c), Proto(c), Step(c), DOMAIN srv[c] = DOMAIN Session
    PROVE  Proto(c)'
  <1>1. PICK op, pc, msgs, opn, pcn, msgsn : /\ op = client[c].op /\ pc = srv[c].pc /\ msgs = toServer[c]
                         /\ opn = client'[c].op /\ pcn = srv'[c].pc /\ msgsn = toServer'[c]
    OBVIOUS
  <1>2. /\ (serverUp => ProtoAt(op, pc, msgs)) /\ (op = "closeKM" => pc \in Quiet /\ msgs = <<>>)
        /\ op \in Ops /\ msgs \in Seq(Msg) /\ DOMAIN client[c] = DOMAIN Process /\ "pc" \in DOMAIN srv[c]
    BY <1>1, ClientParts DEF Proto, ProcessOK, Process, Session
  <1> DEFINE Goal == /\ serverUp' => ProtoAt(opn, pcn, msgsn)
                     /\ opn = "closeKM" => pcn \in Quiet /\ msgsn = <<>>
  <1> SUFFICES Goal
    BY <1>1 DEF Proto
  <1>3. CASE pcn = pc /\ msgsn = msgs /\ (opn = op \/ opn = "dead") /\ (serverUp' => serverUp)
    BY <1>2, <1>3 DEF ProtoAt, Sending
  <1>4. CASE \/ GenerateKeySeed(c) \/ ReplyKeys(c) \/ RequestKeys(c) \/ RestoreUnknown(c) \/ ClientFails(c)
             \/ DecoderFails(c)
    <2>1. pcn = pc /\ msgsn = msgs /\ (opn = op \/ opn = "dead") /\ (serverUp' => serverUp)
      BY <1>1, <1>2, <1>4 DEF GenerateKeySeed, ReplyKeys, RequestKeys, RestoreUnknown, ClientFails,
            DecoderFails, Shape, serverVars, Process
    <2> QED  BY <1>3, <2>1
  <1>5. CASE Abort(c)
    <2>1. opn = "dead"
      BY <1>1, <1>2, <1>5 DEF Abort, Shape, Process
    <2> QED  BY <2>1 DEF ProtoAt, Sending
  <1>6. CASE StartUpload(c)
    <2>1. /\ op = "idle" /\ pcn = pc /\ opn = "login" /\ serverUp
          /\ msgsn = <<Message("CLIENT_LOGIN_UPLOAD", <<>>)>>
      BY <1>1, <1>2, <1>6 DEF StartUpload, Shape, serverVars, Process
    <2> QED  BY <1>2, <2>1 DEF ProtoAt, Sending
  <1>7. CASE StartRestore(c)
    <2>1. /\ op = "idle" /\ pcn = pc /\ opn = "loginRestore" /\ serverUp
          /\ msgsn = <<Message("CLIENT_LOGIN_DOWNLOAD", <<>>)>>
      BY <1>1, <1>2, <1>7 DEF StartRestore, Shape, serverVars, Process
    <2> QED  BY <1>2, <2>1 DEF ProtoAt, Sending
  <1>8. CASE FillBatch(c)
    <2>1. /\ op \in Sending /\ opn \in Sending /\ pcn = pc /\ msgsn = msgs /\ serverUp' = serverUp
      BY <1>1, <1>2, <1>8 DEF FillBatch, Shape, serverVars, Process, Sending
    <2> QED  BY <1>2, <2>1 DEF ProtoAt, Sending
  <1>9. CASE EncryptBatch(c) \/ EndUpload(c)
    <2>1. op \in Sending /\ pcn = pc /\ serverUp' = serverUp
      BY <1>1, <1>9, Zenon DEF EncryptBatch, EndUpload, serverVars, Sending
    <2>2. \E new : /\ new \in Seq(Msg) /\ msgsn = msgs \o new /\ opn \in Sending
                   /\ \A n \in DOMAIN new : new[n].type \in Upload
      <3>1. CASE EncryptBatch(c)
        <4>1. PICK keys, cts, ents, new : \E d1, last \in BOOLEAN :
              /\ Sealed(client[c].plain, keys, cts, ents)
              /\ last = (client[c].op = "lastBatch") /\ (last => d1)
              /\ localKeys'[c] = localKeys[c] \o keys
              /\ toServer'[c] = toServer[c] \o new
              /\ SendsTo(client[c], client'[c], new, client[c].keyList \o ents, d1, cts, TRUE, last)
          BY <3>1, EncryptIs
        <4>2. \A n \in DOMAIN new : new[n].type \in Upload
          BY <4>1, SendsUpload
        <4>3. new \in Seq(Msg) /\ msgsn = msgs \o new /\ opn \in Sending
          BY <1>1, <4>1 DEF SendsTo, Sending
        <4> QED  BY <4>2, <4>3
      <3>2. CASE EndUpload(c)
        <4>1. PICK new : /\ toServer'[c] = toServer[c] \o new /\ localKeys' = localKeys
                     /\ SendsTo(client[c], client'[c], new, client[c].keyList,
                                client[c].keyList # <<>>, <<>>, FALSE, TRUE)
                     /\ client'[c].keyList = <<>>
          BY <3>2, EndIs
        <4>2. \A n \in DOMAIN new : new[n].type \in Upload
          BY <4>1, SendsUpload
        <4>3. new \in Seq(Msg) /\ msgsn = msgs \o new /\ opn \in Sending
          BY <1>1, <4>1 DEF SendsTo, Sending
        <4> QED  BY <4>2, <4>3
      <3> QED  BY <1>9, <3>1, <3>2
    <2>3. serverUp => pc \in Busy /\ \A n \in DOMAIN msgs : msgs[n].type \in Upload
      BY <1>2, <2>1 DEF ProtoAt
    <2>4. serverUp => \A n \in DOMAIN msgsn : msgsn[n].type \in Upload
      BY <1>2, <2>2, <2>3, ConcatUpload
    <2> QED  BY <2>1, <2>2, <2>3, <2>4 DEF ProtoAt, Sending
  <1>10. CASE ReceiveChunks(c)
    <2>1. op = "receive" /\ opn \in {"receive", "closing"} /\ pcn = pc /\ msgsn = msgs /\ serverUp' = serverUp
      BY <1>1, <1>2, <1>10, Zenon DEF ReceiveChunks, Shape, serverVars, Process
    <2> QED  BY <1>2, <2>1 DEF ProtoAt, Sending
  <1>11. CASE ExitRestore(c)
    <2>1. op = "restored" /\ opn = "idle" /\ pcn = pc /\ msgsn = msgs /\ serverUp' = serverUp
      BY <1>1, <1>2, <1>11 DEF ExitRestore, Shape, serverVars, Process
    <2> QED  BY <1>2, <2>1 DEF ProtoAt, Sending
  <1>12. CASE CloseKeyThread(c)
    <2>1. pcn = pc /\ msgsn = msgs /\ serverUp' = serverUp
          /\ ((op = "closeKM" /\ opn = "idle") \/ (op = "dead" /\ opn = "dead"))
      BY <1>1, <1>2, <1>12 DEF CloseKeyThread, Shape, serverVars, Process
    <2> QED  BY <1>2, <2>1 DEF ProtoAt, Sending
  <1>13. CASE Again(c)
    <2>1. /\ opn = "idle" /\ pcn = pc /\ msgsn = msgs /\ serverUp' = serverUp
          /\ serverUp => pc = "none" /\ msgs = <<>>
      BY <1>1, <1>2, <1>13 DEF Again, Shape, serverVars, Process
    <2> QED  BY <2>1 DEF ProtoAt, Sending, Quiet
  <1>14. CASE AdmitUpload(c)
    <2>1. Login(c, "CLIENT_LOGIN_UPLOAD") /\ pcn = "recv" /\ msgsn = Tail(msgs)
          /\ (op = "dead" => opn = "dead") /\ (op # "dead" => opn = "pop")
      <3>1. Login(c, "CLIENT_LOGIN_UPLOAD") /\ Responds(c, "pop")
            /\ srv' = [srv EXCEPT ![c] = [Session EXCEPT !.pc = "recv", !.cur.id = uuids + 1]]
        BY <1>14 DEF AdmitUpload
      <3>2. msgsn = Tail(msgs)
        BY <1>1, <3>1 DEF Login, Shape
      <3>3. pcn = "recv"
        BY <1>1, <3>1 DEF Shape, Session
      <3>4. (op = "dead" => opn = "dead") /\ (op # "dead" => opn = "pop")
        BY <1>1, <1>2, <3>1 DEF Responds, Shape, Process
      <3> QED  BY <3>1, <3>2, <3>3, <3>4
    <2>2. op \in {"login", "dead"} /\ (op # "dead" => Tail(msgs) = <<>>)
      BY <1>1, <2>1, LoginIs DEF Logins
    <2> QED  BY <2>1, <2>2 DEF ProtoAt, Sending, Busy
  <1>15. CASE RejectRestore(c)
    <2>1. Login(c, "CLIENT_LOGIN_DOWNLOAD") /\ pcn = pc /\ pc = "none" /\ msgsn = Tail(msgs)
          /\ (op = "dead" => opn = "dead") /\ (op # "dead" => opn = "idle")
      <3>1. Login(c, "CLIENT_LOGIN_DOWNLOAD") /\ Responds(c, "idle") /\ srv' = srv
        BY <1>15 DEF RejectRestore
      <3>2. msgsn = Tail(msgs) /\ pc = "none"
        BY <1>1, <3>1 DEF Login, Shape
      <3>3. (op = "dead" => opn = "dead") /\ (op # "dead" => opn = "idle")
        BY <1>1, <1>2, <3>1 DEF Responds, Shape, Process
      <3> QED  BY <1>1, <3>1, <3>2, <3>3
    <2>2. op \in {"loginRestore", "dead"} /\ (op # "dead" => Tail(msgs) = <<>>)
      BY <1>1, <2>1, LoginIs DEF Logins
    <2> QED  BY <2>1, <2>2 DEF ProtoAt, Sending, Quiet
  <1>16. CASE AdmitRestore(c)
    <2>1. Login(c, "CLIENT_LOGIN_DOWNLOAD") /\ pcn = "decode" /\ msgsn = Tail(msgs)
          /\ (op = "dead" => opn = "dead") /\ (op # "dead" => opn = "receive")
      BY <1>1, <1>2, <1>16 DEF AdmitRestore, Login, Shape, Process, Session
    <2>2. op \in {"loginRestore", "dead"} /\ (op # "dead" => Tail(msgs) = <<>>)
      BY <1>1, <2>1, LoginIs DEF Logins
    <2> QED  BY <2>1, <2>2 DEF ProtoAt, Sending, Quiet
  <1>17. CASE ProcessRecipes(c) \/ ReceiveBatch(c) \/ ProcessRecipeEnd(c)
    <2>1. serverUp /\ pc = "recv" /\ pcn \in Busy /\ msgs # <<>> /\ msgsn = Tail(msgs) /\ opn = op
      <3>1. PICK type : Receives(c, type)
        BY <1>17 DEF ProcessRecipes, ReceiveBatch, ProcessRecipeEnd
      <3>2. serverUp /\ pc = "recv" /\ msgs # <<>> /\ msgsn = Tail(msgs)
        BY <1>1, <3>1 DEF Receives, Shape
      <3>3. client' = client
        BY <1>17 DEF ProcessRecipes, ReceiveBatch, ProcessRecipeEnd
      <3>7. pcn \in Busy
        <4>4. CASE ProcessRecipes(c)  BY <1>1, <3>2, <4>4 DEF ProcessRecipes, Busy
        <4>5. CASE ReceiveBatch(c)  BY <1>1, <1>2, <3>2, <4>5 DEF ReceiveBatch, Busy, Shape
        <4>6. CASE ProcessRecipeEnd(c)  BY <1>1, <1>2, <3>2, <4>6 DEF ProcessRecipeEnd, Busy, Shape
        <4> QED  BY <1>17, <4>4, <4>5, <4>6
      <3> QED  BY <1>1, <3>2, <3>3, <3>7
    <2>2. op \in Sending \cup {"dead"}
      BY <1>2, <2>1 DEF ProtoAt, Ops, Uploading, Restoring, Sending, Quiet
    <2>3. op \in Sending => \A n \in DOMAIN Tail(msgs) : Tail(msgs)[n].type \in Upload
      BY <1>2, <2>1, TailUpload DEF ProtoAt
    <2> QED  BY <2>1, <2>2, <2>3 DEF ProtoAt, Sending
  <1>18. CASE QueryIndex(c) \/ StoreChunk(c)
    <2>1. serverUp /\ pc \in Busy /\ msgsn = msgs /\ opn = op
      BY <1>1, <1>18 DEF QueryIndex, StoreChunk, Busy
    <2>2. pcn \in Busy
      <3>1. CASE QueryIndex(c)
        <4>1. UpdateFileRecipe(c, srv[c], index[Head(srv[c].rest)]) \/ srv' = [srv EXCEPT ![c].pc = "store"]
          BY <3>1 DEF QueryIndex
        <4>2. CASE UpdateFileRecipe(c, srv[c], index[Head(srv[c].rest)])
          BY <1>1, <1>2, <4>2 DEF UpdateFileRecipe, Shape, Busy
        <4>3. CASE srv' = [srv EXCEPT ![c].pc = "store"]
          BY <1>1, <1>2, <4>3 DEF Shape, Busy
        <4> QED  BY <4>1, <4>2, <4>3
      <3>2. CASE StoreChunk(c)
        <4>1. PICK s : s = SaveChunk(srv[c], Head(srv[c].rest)).session
          OBVIOUS
        <4>2. UpdateFileRecipe(c, s, SaveChunk(srv[c], Head(srv[c].rest)).addr)
          BY <3>2, <4>1 DEF StoreChunk
        <4>3. DOMAIN s = DOMAIN srv[c]
          BY <4>1 DEF SaveChunk, WriteContainer
        <4> QED  BY <1>1, <1>2, <4>2, <4>3 DEF UpdateFileRecipe, Shape, Busy
      <3> QED  BY <1>18, <3>1, <3>2
    <2>3. op \in Sending \cup {"dead"}
      BY <1>2, <2>1 DEF ProtoAt, Ops, Uploading, Restoring, Sending, Quiet, Busy
    <2> QED  BY <1>2, <2>1, <2>2, <2>3 DEF ProtoAt, Sending
  <1>19. CASE ConnectionClosed(c)
    <2>1. serverUp /\ pcn = "last" /\ msgs = <<>> /\ msgsn = msgs /\ opn \in {"dead", "idle", "closeKM"}
      BY <1>1, <1>2, <1>19 DEF ConnectionClosed, PeerGone, Shape, Process
    <2> QED  BY <2>1 DEF ProtoAt, Sending, Quiet
  <1>20. CASE LastContainer(c) \/ EndSession(c)
    <2>1. serverUp /\ pc \in {"last", "join"} /\ pcn \in Quiet /\ msgsn = msgs /\ opn = op
      <3>1. serverUp /\ pc \in {"last", "join"} /\ UNCHANGED <<client, toServer>>
        BY <1>1, <1>20 DEF LastContainer, EndSession
      <3>2. \/ srv' = [srv EXCEPT ![c] = [WriteContainer(@) EXCEPT !.pc = "join"]]
            \/ srv' = [srv EXCEPT ![c].pc = "join"] \/ srv' = [srv EXCEPT ![c] = Session]
        BY <1>20 DEF LastContainer, EndSession
      <3>3. DOMAIN WriteContainer(srv[c]) = DOMAIN srv[c]
        BY DEF WriteContainer
      <3>4. pcn \in Quiet
        BY <1>1, <1>2, <3>2, <3>3 DEF Shape, Quiet, Session
      <3> QED  BY <1>1, <3>1, <3>4
    <2>2. op \notin Sending \cup {"receive", "closing"}
      BY <1>2, <2>1 DEF ProtoAt, Busy
    <2> QED  BY <1>2, <2>1, <2>2 DEF ProtoAt, Sending, Quiet
  <1>21. CASE SaveToFile(c)
    <2>1. pcn = pc /\ msgsn = msgs /\ opn = op /\ serverUp' = serverUp
      BY <1>1, <1>2, <1>21 DEF SaveToFile, Shape
    <2> QED  BY <1>3, <2>1
  <1>22. CASE DecodeEntry(c) \/ DecodeTail(c)
    <2>1. serverUp /\ pc = "decode" /\ msgsn = msgs /\ opn = op
      BY <1>1, <1>22 DEF DecodeEntry, DecodeTail
    <2>2. pcn \in {"decode", "waitClose"}
      <3>1. CASE DecodeEntry(c)
        <4>1. PICK s : s = ParseEntry(c, srv[c])
          OBVIOUS
        <4>2. DOMAIN s = DOMAIN srv[c] /\ s.pc = pc
          BY <1>1, <1>2, <4>1 DEF ParseEntry
        <4>3. srv' = srv \/ srv' = [srv EXCEPT ![c] = s]
              \/ srv' = [srv EXCEPT ![c] = [s EXCEPT !.send = Unsent(Recovered(s)), !.ids = <<>>,
                                                     !.map = {}, !.buf = <<>>]]
          BY <3>1, <4>1 DEF DecodeEntry
        <4> QED  BY <1>1, <1>2, <2>1, <4>2, <4>3, ZenonT(30) DEF Shape
      <3>2. CASE DecodeTail(c)
        <4>1. srv' = srv \/ srv' = [srv EXCEPT ![c] = [Session EXCEPT !.pc = "waitClose"]]
          BY <3>2 DEF DecodeTail
        <4>2. [Session EXCEPT !.pc = "waitClose"].pc = "waitClose"
          BY DEF Session
        <4> QED  BY <1>1, <2>1, <4>1, <4>2 DEF Shape
      <3> QED  BY <1>22, <3>1, <3>2
    <2>3. op \in {"receive", "closing", "dead"}
      BY <1>2, <2>1 DEF ProtoAt, Ops, Uploading, Restoring, Sending, Quiet, Busy
    <2> QED  BY <1>2, <2>1, <2>2, <2>3 DEF ProtoAt, Sending
  <1>23. CASE CloseRestore(c)
    <2>1. /\ serverUp /\ pc = "waitClose" /\ pcn = "none" /\ msgsn = msgs
          /\ op \in {"closing", "dead"} /\ opn \in {"restored", "idle", "dead"}
          /\ op = "dead" => opn = "dead"
      BY <1>1, <1>2, <1>23 DEF CloseRestore, Shape, Process, Session
    <2> QED  BY <1>2, <2>1 DEF ProtoAt, Sending, Quiet
  <1> QED
    BY <1>4, <1>5, <1>6, <1>7, <1>8, <1>9, <1>10, <1>11, <1>12, <1>13, <1>14, <1>15, <1>16, <1>17,
       <1>18, <1>19, <1>20, <1>21, <1>22, <1>23 DEF Step
-----------------------------------------------------------------------------
(* The server's side. *)
OpenPcs == {"recv", "query", "store", "last", "join"}
Slot    == [n : Nat, offset : Nat]

SessionOK(s) ==
    /\ DOMAIN s = {"pc", "rest", "inRecipe", "cur", "inputMQ", "todo", "ids", "map", "buf", "send"}
    /\ s.pc \in OpenPcs \cup {"none", "decode", "waitClose"}
    /\ s.rest \in Seq(Ciphertext) /\ (s.rest # <<>> <=> s.pc \in {"query", "store"})
    /\ s.inRecipe \in Seq(Addr) /\ s.cur \in Container /\ s.inputMQ \in Seq(Container)
    /\ s.todo \in Seq(Addr) /\ s.ids \in Seq(Nat) /\ s.buf \in Seq(Slot)
    /\ s.map \subseteq [id : Nat, n : Nat]
    /\ s.pc \notin OpenPcs => s.cur.body = <<>> /\ s.inputMQ = <<>>
    /\ s.pc = "join" => s.cur.body = <<>>

ServerOK(c) ==
    /\ SessionOK(srv[c])
    /\ recipe[c] \in Recipe \cup {NoFile} /\ (srv[c].pc # "none" => recipe[c] \in Recipe)
    /\ srv[c].pc \in OpenPcs => keyRecipe[c] \in Seq(KeyEntry)

StoreOK ==
    /\ uuids \in Nat
    /\ \A ct \in DOMAIN index : index[ct] \in Addr
    /\ \A n \in DOMAIN disk : n \in Nat /\ disk[n] \in Seq(Ciphertext)

LEMMA SessionIs ==
    /\ SessionOK(Session) /\ SessionOK([Session EXCEPT !.pc = "waitClose"])
    /\ [Session EXCEPT !.pc = "waitClose"].pc = "waitClose" /\ Session.pc = "none"
  <1>1. /\ <<>> \in Seq(Ciphertext) /\ <<>> \in Seq(Addr) /\ <<>> \in Seq(Container) /\ <<>> \in Seq(Nat)
        /\ <<>> \in Seq(Slot) /\ [id |-> 0, body |-> <<>>] \in Container
    BY DEF Container
  <1> QED  BY <1>1 DEF SessionOK, Session, OpenPcs

LEMMA ConcatAppend ==
    ASSUME NEW S, NEW s \in Seq(S), NEW u \in Seq(S), NEW x \in S
    PROVE  s \o Append(u, x) = Append(s \o u, x) /\ s \o Append(u, x) \in Seq(S)
  <1> DEFINE a == s \o Append(u, x)
             b == Append(s \o u, x)
  <1>1. a \in Seq(S) /\ b \in Seq(S) /\ Len(a) = Len(s) + Len(u) + 1 /\ Len(b) = Len(s) + Len(u) + 1
        /\ Len(s) \in Nat /\ Len(u) \in Nat
    OBVIOUS
  <1>2. ASSUME NEW n \in 1 .. Len(s) + Len(u) + 1 PROVE a[n] = b[n]
    <2>1. CASE n <= Len(s)  BY <1>1, <2>1
    <2>2. CASE n > Len(s) /\ n <= Len(s) + Len(u)  BY <1>1, <2>2
    <2>3. CASE n = Len(s) + Len(u) + 1  BY <1>1, <2>3
    <2> QED  BY <1>1, <2>1, <2>2, <2>3
  <1> HIDE DEF a, b
  <1>3. a = b
    BY <1>1, <1>2
  <1> QED  BY <1>1, <1>3 DEF a, b

(* UpdateFileRecipe adds one address to the recipe and its buffer, and goes   *)
(* on to the next ciphertext of the batch.                                   *)
Updated(c, s, addr, u, old, new) ==
    /\ DOMAIN u = DOMAIN s /\ u.cur = s.cur /\ u.inputMQ = s.inputMQ /\ u.todo = s.todo
    /\ u.ids = s.ids /\ u.map = s.map /\ u.buf = s.buf /\ u.send = s.send
    /\ u.rest = Tail(s.rest) /\ u.pc = (IF Len(s.rest) = 1 THEN "recv" ELSE "query")
    /\ u.inRecipe \in Seq(Addr) /\ new \in Recipe /\ new.head = old.head
    /\ new.entries \o u.inRecipe = Append(old.entries \o s.inRecipe, addr)

LEMMA UpdateIs ==
    ASSUME Shape, NEW c \in Client, NEW s, NEW addr \in Addr, UpdateFileRecipe(c, s, addr),
           DOMAIN s = DOMAIN Session, s.inRecipe \in Seq(Addr), recipe[c] \in Recipe
    PROVE  Updated(c, s, addr, srv'[c], recipe[c], recipe'[c])
  <1>1. PICK es, old, new, u, q : /\ es = Append(s.inRecipe, addr) /\ old = recipe[c] /\ new = recipe'[c]
                                  /\ u = srv'[c] /\ q = old.entries
    OBVIOUS
  <1>2. es \in Seq(Addr) /\ <<>> \in Seq(Addr) /\ q \in Seq(Addr) /\ old \in Recipe /\ s.inRecipe \in Seq(Addr)
    BY <1>1 DEF Recipe
  <1>3. /\ u = [s EXCEPT !.inRecipe = IF Len(es) % sendRecipeBatchSize = 0 THEN <<>> ELSE es,
                         !.rest = Tail(@), !.pc = IF Len(s.rest) = 1 THEN "recv" ELSE "query"]
        /\ Len(es) % sendRecipeBatchSize = 0 => new = [old EXCEPT !.entries = @ \o es]
        /\ Len(es) % sendRecipeBatchSize # 0 => new = old
    BY <1>1 DEF UpdateFileRecipe, Shape
  <1> USE DEF Session
  <1>4. q \o es \in Seq(Addr) /\ q \o es = Append(q \o s.inRecipe, addr)
    <2>1. PICK in : in = s.inRecipe
      OBVIOUS
    <2>2. in \in Seq(Addr) /\ es = Append(in, addr) /\ addr \in Addr
      BY <1>1, <1>2, <2>1
    <2> QED  BY ONLY <1>2, <2>1, <2>2, ConcatAppend
  <1>5. CASE Len(es) % sendRecipeBatchSize = 0
    <2>1. new.entries = q \o es /\ new.head = old.head /\ new \in Recipe /\ u.inRecipe = <<>>
      BY <1>1, <1>2, <1>3, <1>4, <1>5 DEF Recipe
    <2>2. (q \o es) \o <<>> = q \o es
      BY <1>4
    <2>3. new.entries \o u.inRecipe = Append(old.entries \o s.inRecipe, addr)
      BY <1>1, <1>4, <2>1, <2>2
    <2>4. /\ DOMAIN u = DOMAIN s /\ u.cur = s.cur /\ u.inputMQ = s.inputMQ /\ u.todo = s.todo
          /\ u.ids = s.ids /\ u.map = s.map /\ u.buf = s.buf /\ u.send = s.send
          /\ u.rest = Tail(s.rest) /\ u.pc = (IF Len(s.rest) = 1 THEN "recv" ELSE "query")
      BY <1>3, SMT
    <2> QED  BY <1>1, <1>2, <2>1, <2>3, <2>4 DEF Updated
  <1>6. CASE Len(es) % sendRecipeBatchSize # 0
    <2>1. new = old /\ u.inRecipe = es
      BY <1>3, <1>6
    <2>2. new.entries \o u.inRecipe = Append(old.entries \o s.inRecipe, addr)
      BY <1>1, <1>4, <2>1
    <2>3. /\ DOMAIN u = DOMAIN s /\ u.cur = s.cur /\ u.inputMQ = s.inputMQ /\ u.todo = s.todo
          /\ u.ids = s.ids /\ u.map = s.map /\ u.buf = s.buf /\ u.send = s.send
          /\ u.rest = Tail(s.rest) /\ u.pc = (IF Len(s.rest) = 1 THEN "recv" ELSE "query")
      BY <1>3, SMT
    <2> QED  BY <1>1, <1>2, <2>1, <2>2, <2>3 DEF Updated
  <1> QED  BY <1>5, <1>6

(* SaveChunk puts the ciphertext at the end of the open container, or at the  *)
(* beginning of a new one.                                                   *)
Saved(s, ct, u, addr, new) ==
    /\ DOMAIN u = DOMAIN s /\ u.rest = s.rest /\ u.inRecipe = s.inRecipe /\ u.todo = s.todo
    /\ u.ids = s.ids /\ u.map = s.map /\ u.buf = s.buf /\ u.pc = s.pc
    /\ u.cur \in Container /\ u.inputMQ \in Seq(Container) /\ addr \in Addr
    /\ addr.id = u.cur.id /\ addr.offset \in DOMAIN u.cur.body /\ u.cur.body[addr.offset] = ct
    /\ new => /\ u.inputMQ = Append(s.inputMQ, s.cur) /\ u.cur.id = uuids + 1
    /\ ~new => /\ u.inputMQ = s.inputMQ /\ u.cur.id = s.cur.id
               /\ u.cur.body = Append(s.cur.body, ct)

LEMMA SaveIs ==
    ASSUME NEW s, NEW ct \in Ciphertext, SessionOK(s), uuids \in Nat, NEW r, r = SaveChunk(s, ct)
    PROVE  Saved(s, ct, r.session, r.addr, r.new)
  <1>1. /\ s.cur \in Container /\ s.inputMQ \in Seq(Container)
        /\ {"cur", "inputMQ", "rest", "inRecipe", "todo", "ids", "map", "buf", "pc"} \subseteq DOMAIN s
    BY DEF SessionOK
  <1>2. PICK body, id : body = s.cur.body /\ id = s.cur.id
    OBVIOUS
  <1>3. body \in Seq(Ciphertext) /\ id \in Nat /\ DOMAIN s.cur = {"id", "body"}
    BY <1>1, <1>2 DEF Container
  <1>4. /\ Append(body, ct) \in Seq(Ciphertext) /\ Len(body) + 1 \in DOMAIN Append(body, ct)
        /\ Append(body, ct)[Len(body) + 1] = ct /\ Len(body) \in Nat
    BY <1>3
  <1>5. CASE Len(body) + 1 >= MAX_CONTAINER_SIZE
    <2>1. PICK w : w = WriteContainer(s)
      OBVIOUS
    <2>2. /\ w = [s EXCEPT !.inputMQ = Append(@, s.cur), !.cur = [id |-> uuids + 1, body |-> <<>>]]
      BY <2>1 DEF WriteContainer
    <2>3. r = [session |-> [w EXCEPT !.cur.body = Append(@, ct)],
               addr |-> [id |-> w.cur.id, offset |-> Len(w.cur.body) + 1], new |-> TRUE]
      BY <1>2, <1>5, <2>1 DEF SaveChunk
    <2>4. /\ w.cur = [id |-> uuids + 1, body |-> <<>>] /\ w.inputMQ = Append(s.inputMQ, s.cur)
          /\ DOMAIN w = DOMAIN s /\ w.rest = s.rest /\ w.inRecipe = s.inRecipe /\ w.todo = s.todo
          /\ w.ids = s.ids /\ w.map = s.map /\ w.buf = s.buf /\ w.pc = s.pc
      BY <1>1, <2>2
    <2>5. r.new = TRUE /\ r.addr = [id |-> uuids + 1, offset |-> 1]
      BY <2>3, <2>4
    <2>6. PICK u : u = r.session
      OBVIOUS
    <2>7. u = [w EXCEPT !.cur.body = Append(@, ct)]
      BY <2>3, <2>6
    <2>8. /\ DOMAIN u = DOMAIN s /\ u.rest = s.rest /\ u.inRecipe = s.inRecipe /\ u.todo = s.todo
          /\ u.ids = s.ids /\ u.map = s.map /\ u.buf = s.buf /\ u.pc = s.pc /\ u.inputMQ = w.inputMQ
          /\ u.cur = [w.cur EXCEPT !.body = Append(@, ct)]
      BY <1>1, <2>4, <2>7
    <2>9. u.cur = [id |-> uuids + 1, body |-> Append(<<>>, ct)]
      BY <2>4, <2>8
    <2>10. /\ Append(<<>>, ct) \in Seq(Ciphertext) /\ 1 \in DOMAIN Append(<<>>, ct)
           /\ Append(<<>>, ct)[1] = ct
      OBVIOUS
    <2>11. u.cur \in Container /\ r.addr \in Addr /\ u.inputMQ \in Seq(Container)
      <3>1. u.cur \in Container /\ r.addr \in Addr
        BY <2>5, <2>9, <2>10 DEF Container, Addr
      <3>2. u.inputMQ = Append(s.inputMQ, s.cur)
        BY <2>4, <2>8
      <3>3. PICK mq, cur : mq = s.inputMQ /\ cur = s.cur
        OBVIOUS
      <3>4. mq \in Seq(Container) /\ cur \in Container
        BY <1>1, <3>3
      <3>5. Append(mq, cur) \in Seq(Container)
        BY ONLY <3>4
      <3> QED  BY <3>1, <3>2, <3>3, <3>5
    <2> QED  BY <2>4, <2>5, <2>6, <2>8, <2>9, <2>10, <2>11 DEF Saved
  <1>6. CASE ~(Len(body) + 1 >= MAX_CONTAINER_SIZE)
    <2>1. /\ r.session = [s EXCEPT !.cur.body = Append(@, ct)]
          /\ r.addr = [id |-> id, offset |-> Len(body) + 1] /\ ~r.new
      BY <1>2, <1>6 DEF SaveChunk
    <2>2. PICK u : u = r.session
      OBVIOUS
    <2>3. u = [s EXCEPT !.cur.body = Append(@, ct)]
      BY <2>1, <2>2
    <2>4. /\ DOMAIN u = DOMAIN s /\ u.rest = s.rest /\ u.inRecipe = s.inRecipe /\ u.todo = s.todo
          /\ u.ids = s.ids /\ u.map = s.map /\ u.buf = s.buf /\ u.pc = s.pc /\ u.inputMQ = s.inputMQ
          /\ u.cur = [s.cur EXCEPT !.body = Append(@, ct)]
      BY <1>1, <2>3
    <2>5. u.cur.id = id /\ u.cur.body = Append(body, ct) /\ u.cur \in Container
      BY <1>1, <1>2, <1>3, <1>4, <2>4 DEF Container
    <2>6. ~r.new /\ r.addr = [id |-> id, offset |-> Len(body) + 1] /\ r.addr \in Addr
      BY <1>3, <1>4, <2>1 DEF Addr
    <2> QED  BY <1>1, <1>2, <1>4, <2>2, <2>4, <2>5, <2>6 DEF Saved
  <1> QED  BY <1>5, <1>6

(* The entries not yet parsed are the end of the recipe, and the buffered     *)
(* entries stand for the ones before them.                                   *)
DecodeOK(s, es) ==
    /\ Len(s.todo) + Len(s.buf) <= Len(es)
    /\ Piece(s.todo, es, Len(es) - Len(s.todo), Len(es))
    /\ \A m \in s.map : m.n \in 1 .. Len(s.ids) /\ s.ids[m.n] = m.id
    /\ \A k \in 1 .. Len(s.buf) :
          LET e == es[Len(es) - Len(s.todo) - Len(s.buf) + k] IN
          /\ s.buf[k].n \in 1 .. Len(s.ids) /\ s.ids[s.buf[k].n] = e.id
          /\ s.buf[k].offset = e.offset

Parsed(s, u) ==
    /\ DOMAIN u = DOMAIN s /\ u.pc = s.pc /\ u.rest = s.rest /\ u.inRecipe = s.inRecipe
    /\ u.cur = s.cur /\ u.inputMQ = s.inputMQ /\ u.send = s.send
    /\ u.todo = Tail(s.todo) /\ Len(u.buf) = Len(s.buf) + 1

LEMMA ParseIs ==
    ASSUME NEW c \in Client, NEW s, SessionOK(s), s.todo # <<>>, recipe[c] \in Recipe,
           DecodeOK(s, recipe[c].entries), NEW u, u = ParseEntry(c, s)
    PROVE  Parsed(s, u) /\ SessionOK(u) /\ DecodeOK(u, recipe[c].entries)
  <1>1. PICK es, todo, ids, buf, old : /\ es = recipe[c].entries /\ todo = s.todo /\ ids = s.ids
                                       /\ buf = s.buf /\ old = s.map
    OBVIOUS
  <1>2. /\ es \in Seq(Addr) /\ todo \in Seq(Addr) /\ todo # <<>> /\ ids \in Seq(Nat) /\ buf \in Seq(Slot)
        /\ old \subseteq [id : Nat, n : Nat]
    BY <1>1 DEF Recipe, SessionOK
  <1>3. /\ Len(todo) + Len(buf) <= Len(es)
        /\ Len(todo) = Len(es) - (Len(es) - Len(todo)) /\ Len(es) - Len(todo) \in Nat
        /\ \A n \in 1 .. Len(todo) : todo[n] = es[Len(es) - Len(todo) + n]
        /\ \A m \in old : m.n \in 1 .. Len(ids) /\ ids[m.n] = m.id
        /\ \A k \in 1 .. Len(buf) :
              /\ buf[k].n \in 1 .. Len(ids)
              /\ ids[buf[k].n] = es[Len(es) - Len(todo) - Len(buf) + k].id
              /\ buf[k].offset = es[Len(es) - Len(todo) - Len(buf) + k].offset
    BY <1>1 DEF DecodeOK, Piece
  <1>4. PICK L, T, I, B : L = Len(es) /\ T = Len(todo) /\ I = Len(ids) /\ B = Len(buf)
    OBVIOUS
  <1>5. L \in Nat /\ T \in Nat /\ I \in Nat /\ B \in Nat /\ T # 0 /\ T + B <= L
    BY <1>2, <1>3, <1>4
  <1>6. PICK e, rest : e = Head(todo) /\ rest = Tail(todo)
    OBVIOUS
  <1>7. /\ e \in Addr /\ e = todo[1] /\ rest \in Seq(Addr) /\ Len(rest) = T - 1
        /\ \A n \in 1 .. T - 1 : rest[n] = todo[n + 1]
    BY <1>2, <1>4, <1>6
  <1>8. e = es[L - T + 1] /\ e.id \in Nat /\ e.offset \in Nat
    <2>1. 1 \in 1 .. T
      BY <1>5
    <2> QED  BY <1>3, <1>4, <1>7, <2>1 DEF Addr
  <1> DEFINE map  == IF (L - T) % sendRecipeBatchSize = 0 THEN {} ELSE old
             hit  == {m \in map : m.id = e.id}
             n    == IF hit = {} THEN I + 1 ELSE (CHOOSE m \in hit : TRUE).n
             new  == IF hit = {} THEN Append(ids, e.id) ELSE ids
             maps == IF hit = {} THEN map \cup {[id |-> e.id, n |-> n]} ELSE map
             slot == [n |-> n, offset |-> e.offset]
  <1>9. u = [s EXCEPT !.todo = rest, !.ids = new, !.map = maps, !.buf = Append(buf, slot)]
    BY <1>1, <1>4, <1>6 DEF ParseEntry
  <1>10. map \subseteq old
    OBVIOUS
  <1> HIDE DEF map
  <1>11. /\ new \in Seq(Nat) /\ I <= Len(new) /\ \A k \in 1 .. I : new[k] = ids[k]
         /\ n \in 1 .. Len(new) /\ new[n] = e.id
    <2>1. CASE hit = {}
      <3>1. /\ new \in Seq(Nat) /\ Len(new) = I + 1 /\ (\A k \in 1 .. I : new[k] = ids[k])
            /\ new[I + 1] = e.id
        BY <1>2, <1>4, <1>8, <2>1
      <3> QED  BY <1>5, <2>1, <3>1
    <2>2. CASE hit # {}
      <3>1. PICK m : m = (CHOOSE x \in hit : TRUE)
        OBVIOUS
      <3>2. m \in hit
        BY <2>2, <3>1
      <3>3. m \in old /\ m.id = e.id
        BY <1>10, <3>2
      <3>4. n = m.n /\ new = ids
        BY <2>2, <3>1
      <3> QED  BY <1>2, <1>3, <1>4, <1>5, <3>3, <3>4
    <2> QED  BY <2>1, <2>2
  <1>12. slot \in Slot /\ n \in Nat
    BY <1>8, <1>11 DEF Slot
  <1>13. maps \subseteq [id : Nat, n : Nat] /\ \A m \in maps : m.n \in 1 .. Len(new) /\ new[m.n] = m.id
    <2>1. ASSUME NEW m \in maps
          PROVE  m \in [id : Nat, n : Nat] /\ m.n \in 1 .. Len(new) /\ new[m.n] = m.id
      <3>1. CASE m \in old
        <4>1. m \in [id : Nat, n : Nat] /\ m.n \in 1 .. I /\ ids[m.n] = m.id
          BY <1>2, <1>3, <1>4, <3>1
        <4>2. new[m.n] = ids[m.n] /\ m.n \in 1 .. Len(new)
          <5>1. PICK i : i = m.n
            OBVIOUS
          <5> QED  BY <1>2, <1>5, <1>11, <4>1, <5>1, SMTT(20)
        <4> QED  BY <4>1, <4>2
      <3>2. CASE m \notin old
        <4>1. m = [id |-> e.id, n |-> n]
          BY <1>10, <2>1, <3>2
        <4> HIDE DEF n, new
        <4> QED  BY <1>8, <1>11, <1>12, <4>1
      <3> QED  BY <3>1, <3>2
    <2> QED  BY <2>1
  <1> HIDE DEF n, new, maps, hit
  <1>14. PICK nb : nb = Append(buf, slot)
    OBVIOUS
  <1>15. /\ nb \in Seq(Slot) /\ Len(nb) = B + 1 /\ (\A k \in 1 .. B : nb[k] = buf[k]) /\ nb[B + 1] = slot
    BY <1>2, <1>4, <1>12, <1>14
  <1>16. /\ DOMAIN u = DOMAIN s /\ u.pc = s.pc /\ u.rest = s.rest /\ u.inRecipe = s.inRecipe
         /\ u.cur = s.cur /\ u.inputMQ = s.inputMQ /\ u.send = s.send
         /\ u.todo = rest /\ u.ids = new /\ u.map = maps /\ u.buf = nb
    BY <1>9, <1>14 DEF SessionOK
  <1>17. Parsed(s, u)
    BY <1>1, <1>4, <1>6, <1>15, <1>16 DEF Parsed
  <1>18. SessionOK(u)
    BY <1>7, <1>11, <1>13, <1>15, <1>16 DEF SessionOK
  <1>19. ASSUME NEW k \in 1 .. B + 1
         PROVE  /\ nb[k].n \in 1 .. Len(new) /\ new[nb[k].n] = es[L - (T - 1) - (B + 1) + k].id
                /\ nb[k].offset = es[L - (T - 1) - (B + 1) + k].offset
    <2>1. CASE k = B + 1
      <3>1. L - (T - 1) - (B + 1) + k = L - T + 1
        BY <1>5, <2>1
      <3>2. nb[k] = slot /\ slot.n = n /\ slot.offset = e.offset
        BY <1>15, <2>1
      <3> QED  BY <1>8, <1>11, <3>1, <3>2
    <2>2. CASE k # B + 1
      <3>1. k \in 1 .. B /\ L - (T - 1) - (B + 1) + k = L - T - B + k
        BY <1>5, <2>2
      <3>2. nb[k] = buf[k]
        BY <1>15, <3>1
      <3>3. buf[k].n \in 1 .. I /\ ids[buf[k].n] = es[L - T - B + k].id
            /\ buf[k].offset = es[L - T - B + k].offset
        BY <1>3, <1>4, <3>1
      <3>4. buf[k].n \in 1 .. Len(new) /\ new[buf[k].n] = ids[buf[k].n]
        <4>1. PICK j : j = buf[k].n
          OBVIOUS
        <4>2. j \in 1 .. I /\ Len(new) \in Nat /\ I <= Len(new)
          BY <1>11, <3>3, <4>1
        <4> QED  BY <1>5, <1>11, <4>1, <4>2
      <3> QED  BY <3>1, <3>2, <3>3, <3>4
    <2> QED  BY <2>1, <2>2
  <1>20. Piece(rest, es, L - (T - 1), L)
    <2>1. ASSUME NEW k \in 1 .. T - 1 PROVE rest[k] = es[L - (T - 1) + k]
      <3>1. k + 1 \in 1 .. T /\ L - T + (k + 1) = L - (T - 1) + k
        BY <1>5
      <3>2. rest[k] = todo[k + 1] /\ todo[k + 1] = es[L - T + (k + 1)]
        BY <1>3, <1>4, <1>7, <3>1
      <3> QED  BY <3>1, <3>2
    <2>2. L - (T - 1) \in Nat /\ L - (T - 1) <= L /\ T - 1 = L - (L - (T - 1))
      BY <1>5
    <2> QED  BY <1>5, <1>7, <2>1, <2>2 DEF Piece
  <1>21. (T - 1) + (B + 1) <= L
    BY <1>5
  <1>22. DecodeOK(u, es)
    <2>1. Len(u.todo) = T - 1 /\ Len(u.buf) = B + 1 /\ Len(es) = L
      BY <1>4, <1>7, <1>15, <1>16
    <2>2. Piece(u.todo, es, Len(es) - Len(u.todo), Len(es)) /\ Len(u.todo) + Len(u.buf) <= Len(es)
      BY <1>16, <1>20, <1>21, <2>1
    <2>3. \A m \in u.map : m.n \in 1 .. Len(u.ids) /\ u.ids[m.n] = m.id
      BY <1>13, <1>16
    <2>4. ASSUME NEW k \in 1 .. Len(u.buf)
          PROVE  LET f == es[Len(es) - Len(u.todo) - Len(u.buf) + k] IN
                 /\ u.buf[k].n \in 1 .. Len(u.ids) /\ u.ids[u.buf[k].n] = f.id
                 /\ u.buf[k].offset = f.offset
      BY <1>16, <1>19, <2>1
    <2> QED  BY <2>2, <2>3, <2>4 DEF DecodeOK
  <1> QED  BY <1>1, <1>17, <1>18, <1>22

Decoding(c) == srv[c].pc = "decode" => DecodeOK(srv[c], recipe[c].entries)

LEMMA ServerParts ==
    ASSUME NEW c \in Client, ServerOK(c)
    PROVE  /\ SessionOK(srv[c]) /\ recipe[c] \in Recipe \cup {NoFile}
           /\ srv[c].pc # "none" => recipe[c] \in Recipe
           /\ srv[c].pc \in OpenPcs => keyRecipe[c] \in Seq(KeyEntry)
  BY DEF ServerOK

(* A step that leaves the session and the recipes of c alone. *)
LEMMA SameServer ==
    ASSUME NEW c \in Client, ServerOK(c), Decoding(c),
           srv'[c] = srv[c], recipe'[c] = recipe[c], keyRecipe'[c] = keyRecipe[c]
    PROVE  ServerOK(c)' /\ Decoding(c)'
  BY DEF ServerOK, Decoding

(* A step after which the session of c is an upload. *)
LEMMA OpenServer ==
    ASSUME NEW c \in Client, NEW s, s = srv'[c], SessionOK(s), s.pc \in OpenPcs,
           recipe'[c] \in Recipe, keyRecipe'[c] \in Seq(KeyEntry)
    PROVE  ServerOK(c)' /\ Decoding(c)'
  BY DEF ServerOK, Decoding, OpenPcs

(* The batch after its first ciphertext. *)
LEMMA UpdatedOK ==
    ASSUME NEW c, NEW s, NEW addr, NEW u, NEW old, NEW new, SessionOK(s), s.rest # <<>>,
           Updated(c, s, addr, u, old, new)
    PROVE  SessionOK(u) /\ u.pc \in {"recv", "query"}
  <1>1. PICK r : r = s.rest
    OBVIOUS
  <1>2. r \in Seq(Ciphertext) /\ r # <<>>
    BY <1>1 DEF SessionOK
  <1>3. Tail(r) \in Seq(Ciphertext) /\ (Tail(r) = <<>> <=> Len(r) = 1)
    <2>1. PICK v : v = Tail(r)
      OBVIOUS
    <2>2. v \in Seq(Ciphertext) /\ Len(v) = Len(r) - 1 /\ Len(r) \in Nat
      BY ONLY <1>2, <2>1, MsgTail
    <2>3. v = <<>> <=> Len(v) = 0
      BY ONLY <2>2, EmptyIff
    <2> QED  BY <2>1, <2>2, <2>3
  <1>4. u.rest = Tail(r) /\ u.pc = (IF Len(r) = 1 THEN "recv" ELSE "query") /\ u.inRecipe \in Seq(Addr)
        /\ DOMAIN u = DOMAIN s /\ u.cur = s.cur /\ u.inputMQ = s.inputMQ /\ u.todo = s.todo
        /\ u.ids = s.ids /\ u.map = s.map /\ u.buf = s.buf
    BY <1>1 DEF Updated
  <1> QED  BY <1>1, <1>3, <1>4 DEF SessionOK, OpenPcs

(* The result of StoreChunk. *)
LEMMA StoreIs ==
    ASSUME Shape, NEW c \in Client, ServerOK(c), StoreOK, StoreChunk(c)
    PROVE  \E s, addr, ct, new :
              /\ ct = Head(srv[c].rest) /\ ct \in Ciphertext
              /\ Saved(srv[c], ct, s, addr, new) /\ SessionOK(s)
              /\ Updated(c, s, addr, srv'[c], recipe[c], recipe'[c])
              /\ index' = [x \in DOMAIN index \cup {ct} |-> IF x = ct THEN addr ELSE index[x]]
              /\ uuids' = (IF new THEN uuids + 1 ELSE uuids)
  <1>1. PICK old, ct, r : old = srv[c] /\ ct = Head(old.rest) /\ r = SaveChunk(old, ct)
    OBVIOUS
  <1>2. SessionOK(old) /\ old.pc = "store" /\ recipe[c] \in Recipe
    BY <1>1, ServerParts DEF StoreChunk
  <1>3. ct \in Ciphertext
    <2>1. PICK rest : rest = old.rest
      OBVIOUS
    <2>2. rest \in Seq(Ciphertext) /\ rest # <<>>
      BY <1>2, <2>1 DEF SessionOK
    <2> QED  BY <1>1, <2>1, <2>2
  <1>4. PICK s, addr : s = r.session /\ addr = r.addr
    OBVIOUS
  <1>5. Saved(old, ct, s, addr, r.new)
    BY <1>1, <1>2, <1>3, <1>4, SaveIs DEF StoreOK
  <1>6. SessionOK(s)
    <2>1. /\ DOMAIN s = DOMAIN old /\ s.rest = old.rest /\ s.inRecipe = old.inRecipe /\ s.todo = old.todo
          /\ s.ids = old.ids /\ s.map = old.map /\ s.buf = old.buf /\ s.pc = old.pc
          /\ s.cur \in Container /\ s.inputMQ \in Seq(Container)
      BY <1>5 DEF Saved
    <2> QED  BY <1>2, <2>1 DEF SessionOK, OpenPcs
  <1>7. /\ UpdateFileRecipe(c, s, addr) /\ uuids' = (IF r.new THEN uuids + 1 ELSE uuids)
        /\ index' = [x \in DOMAIN index \cup {ct} |-> IF x = ct THEN addr ELSE index[x]]
    BY <1>1, <1>4 DEF StoreChunk
  <1>8. Updated(c, s, addr, srv'[c], recipe[c], recipe'[c])
    <2>1. addr \in Addr
      BY <1>5 DEF Saved
    <2>2. DOMAIN s = DOMAIN Session /\ s.inRecipe \in Seq(Addr)
      BY <1>6 DEF SessionOK, Session
    <2> QED  BY <1>2, <1>7, <2>1, <2>2, UpdateIs
  <1>9. PICK new : new = r.new
    OBVIOUS
  <1>10. Saved(old, ct, s, addr, new) /\ uuids' = (IF new THEN uuids + 1 ELSE uuids)
    BY <1>5, <1>7, <1>9
  <1> QED  BY <1>1, <1>3, <1>6, <1>7, <1>8, <1>10

(* The result of QueryIndex. *)
LEMMA QueryIs ==
    ASSUME Shape, NEW c \in Client, ServerOK(c), StoreOK, QueryIndex(c)
    PROVE  \/ /\ Head(srv[c].rest) \in DOMAIN index
              /\ Updated(c, srv[c], index[Head(srv[c].rest)], srv'[c], recipe[c], recipe'[c])
           \/ srv'[c] = [srv[c] EXCEPT !.pc = "store"] /\ recipe'[c] = recipe[c]
  <1>1. SessionOK(srv[c]) /\ recipe[c] \in Recipe /\ srv[c].pc = "query"
    BY ServerParts DEF QueryIndex
  <1>2. \/ Head(srv[c].rest) \in DOMAIN index /\ UpdateFileRecipe(c, srv[c], index[Head(srv[c].rest)])
        \/ srv'[c] = [srv[c] EXCEPT !.pc = "store"] /\ recipe'[c] = recipe[c]
    BY DEF QueryIndex, Shape
  <1>3. CASE /\ Head(srv[c].rest) \in DOMAIN index
             /\ UpdateFileRecipe(c, srv[c], index[Head(srv[c].rest)])
    <2>1. index[Head(srv[c].rest)] \in Addr
      BY <1>3 DEF StoreOK
    <2>2. DOMAIN srv[c] = DOMAIN Session /\ srv[c].inRecipe \in Seq(Addr)
      BY <1>1 DEF SessionOK, Session
    <2> QED  BY <1>1, <1>3, <2>1, <2>2, UpdateIs
  <1> QED  BY <1>2, <1>3

LEMMA ReceiverServer ==
    ASSUME Shape, NEW c \in Client, ClientOK(c), ServerOK(c), StoreOK,
           \/ ProcessRecipes(c) \/ ReceiveBatch(c) \/ QueryIndex(c) \/ StoreChunk(c)
           \/ ProcessRecipeEnd(c) \/ ConnectionClosed(c) \/ LastContainer(c) \/ SaveToFile(c)
    PROVE  ServerOK(c)' /\ Decoding(c)'
  <1>1. PICK s, u : s = srv[c] /\ u = srv'[c]
    OBVIOUS
  <1>2. SessionOK(s) /\ (s.pc # "none" => recipe[c] \in Recipe)
        /\ (s.pc \in OpenPcs => keyRecipe[c] \in Seq(KeyEntry))
    BY <1>1, ServerParts
  <1>3. PICK msgs : msgs = toServer[c]
    OBVIOUS
  <1>4. msgs \in Seq(Msg) /\ (msgs # <<>> => Head(msgs) \in Msg)
    BY <1>3, ClientParts
  <1>5. CASE ProcessRecipes(c)
    <2>1. u = s /\ s.pc = "recv" /\ recipe' = recipe /\ msgs # <<>> /\ Head(msgs).type = "CLIENT_UPLOAD_RECIPE"
          /\ keyRecipe'[c] = keyRecipe[c] \o Head(msgs).items
      BY <1>1, <1>3, <1>5 DEF ProcessRecipes, Receives, Shape
    <2>2. PICK items : items = Head(msgs).items
      OBVIOUS
    <2>3. items \in Seq(KeyEntry)
      BY <1>4, <2>1, <2>2 DEF Msg, Logins
    <2>4. keyRecipe[c] \in Seq(KeyEntry) /\ recipe[c] \in Recipe
      BY <1>2, <2>1 DEF OpenPcs
    <2>5. keyRecipe'[c] \in Seq(KeyEntry)
      BY ONLY <2>1, <2>2, <2>3, <2>4, ConcatIs
    <2> QED  BY <1>1, <1>2, <2>1, <2>4, <2>5, OpenServer DEF OpenPcs
  <1>6. CASE ReceiveBatch(c)
    <2>1. u = [s EXCEPT !.rest = Head(msgs).items, !.pc = "query"] /\ s.pc = "recv"
          /\ recipe' = recipe /\ keyRecipe' = keyRecipe
          /\ msgs # <<>> /\ Head(msgs).type = "CLIENT_UPLOAD_CHUNK"
      BY <1>1, <1>3, <1>6 DEF ReceiveBatch, Receives, Shape
    <2>2. PICK items : items = Head(msgs).items
      OBVIOUS
    <2>3. items \in Seq(Ciphertext) /\ items # <<>>
      BY <1>4, <2>1, <2>2 DEF Msg, Logins
    <2>4. SessionOK(u) /\ u.pc \in OpenPcs
      BY <1>2, <2>1, <2>2, <2>3 DEF SessionOK, OpenPcs
    <2> QED  BY <1>1, <1>2, <2>1, <2>4, OpenServer DEF OpenPcs
  <1>7. CASE QueryIndex(c)
    <2>1. s.pc = "query" /\ keyRecipe' = keyRecipe /\ s.rest # <<>>
      BY <1>1, <1>2, <1>7 DEF QueryIndex, SessionOK
    <2>2. SessionOK(u) /\ u.pc \in OpenPcs /\ recipe'[c] \in Recipe
      <3>1. CASE Updated(c, srv[c], index[Head(srv[c].rest)], srv'[c], recipe[c], recipe'[c])
        <4>1. SessionOK(u) /\ u.pc \in {"recv", "query"}
          BY <1>1, <1>2, <2>1, <3>1, UpdatedOK
        <4> QED  BY <3>1, <4>1 DEF Updated, OpenPcs
      <3>2. CASE srv'[c] = [srv[c] EXCEPT !.pc = "store"] /\ recipe'[c] = recipe[c]
        BY <1>1, <1>2, <2>1, <3>2 DEF SessionOK, OpenPcs
      <3> QED  BY <1>7, <3>1, <3>2, QueryIs
    <2> QED  BY <1>1, <1>2, <2>1, <2>2, OpenServer DEF OpenPcs
  <1>8. CASE StoreChunk(c)
    <2>1. s.pc = "store" /\ keyRecipe' = keyRecipe /\ s.rest # <<>>
      BY <1>1, <1>2, <1>8 DEF StoreChunk, SessionOK
    <2>2. PICK w, addr, ct, new :
              /\ ct = Head(srv[c].rest) /\ ct \in Ciphertext
              /\ Saved(srv[c], ct, w, addr, new) /\ SessionOK(w)
              /\ Updated(c, w, addr, srv'[c], recipe[c], recipe'[c])
              /\ index' = [x \in DOMAIN index \cup {ct} |-> IF x = ct THEN addr ELSE index[x]]
              /\ uuids' = (IF new THEN uuids + 1 ELSE uuids)
      BY <1>8, StoreIs
    <2>3. w.rest # <<>>
      BY <1>1, <2>1, <2>2 DEF Saved
    <2>4. SessionOK(u) /\ u.pc \in {"recv", "query"} /\ recipe'[c] \in Recipe
      <3>1. PICK old, newr : old = recipe[c] /\ newr = recipe'[c]
        OBVIOUS
      <3>2. Updated(c, w, addr, u, old, newr) /\ SessionOK(w)
        BY <1>1, <2>2, <3>1
      <3>3. SessionOK(u) /\ u.pc \in {"recv", "query"}
        BY ONLY <2>3, <3>2, UpdatedOK
      <3>4. newr \in Recipe
        BY ONLY <3>2 DEF Updated
      <3> QED  BY <3>1, <3>3, <3>4
    <2> QED  BY <1>1, <1>2, <2>1, <2>4, OpenServer DEF OpenPcs
  <1>9. CASE ProcessRecipeEnd(c)
    <2>1. u = [s EXCEPT !.inRecipe = <<>>] /\ s.pc = "recv" /\ keyRecipe' = keyRecipe
          /\ msgs # <<>> /\ Head(msgs).type = "CLIENT_UPLOAD_RECIPE_END"
          /\ recipe'[c] = [recipe[c] EXCEPT !.entries = @ \o s.inRecipe, !.head = Head(Head(msgs).items)]
      BY <1>1, <1>3, <1>9 DEF ProcessRecipeEnd, Receives, Shape
    <2>2. PICK items, es, in : items = Head(msgs).items /\ es = recipe[c].entries /\ in = s.inRecipe
      OBVIOUS
    <2>3. items \in Seq(Nat) /\ items # <<>>
      BY <1>4, <2>1, <2>2 DEF Msg, Logins
    <2>4. recipe[c] \in Recipe /\ es \in Seq(Addr) /\ in \in Seq(Addr)
      BY <1>2, <2>1, <2>2 DEF Recipe, SessionOK
    <2>5. Head(items) \in Nat /\ es \o in \in Seq(Addr)
      BY <2>3, <2>4
    <2>6. recipe'[c] \in Recipe
      BY <2>1, <2>2, <2>4, <2>5 DEF Recipe
    <2>7. SessionOK(u) /\ u.pc \in OpenPcs
      <3>1. <<>> \in Seq(Addr)
        OBVIOUS
      <3> QED  BY <1>2, <2>1, <3>1 DEF SessionOK, OpenPcs
    <2> QED  BY <1>1, <1>2, <2>1, <2>6, <2>7, OpenServer DEF OpenPcs
  <1>10. CASE ConnectionClosed(c)
    <2>1. u = [s EXCEPT !.pc = "last"] /\ s.pc = "recv" /\ recipe' = recipe /\ keyRecipe' = keyRecipe
      BY <1>1, <1>10 DEF ConnectionClosed, Shape
    <2>2. SessionOK(u) /\ u.pc \in OpenPcs
      BY <1>2, <2>1 DEF SessionOK, OpenPcs
    <2> QED  BY <1>1, <1>2, <2>1, <2>2, OpenServer DEF OpenPcs
  <1>11. CASE LastContainer(c)
    <2>1. s.pc = "last" /\ recipe' = recipe /\ keyRecipe' = keyRecipe
          /\ ((u = [WriteContainer(s) EXCEPT !.pc = "join"])
              \/ (u = [s EXCEPT !.pc = "join"] /\ s.cur.body = <<>>))
      BY <1>1, <1>11 DEF LastContainer, LastToWrite, Shape
    <2>2. CASE u = [WriteContainer(s) EXCEPT !.pc = "join"]
      <3>1. PICK mq, cur, w : mq = s.inputMQ /\ cur = s.cur /\ w = WriteContainer(s)
        OBVIOUS
      <3>2. mq \in Seq(Container) /\ cur \in Container
        BY <1>2, <3>1 DEF SessionOK
      <3>3. Append(mq, cur) \in Seq(Container) /\ [id |-> uuids + 1, body |-> <<>>] \in Container
        BY <3>2 DEF Container, StoreOK
      <3>4. w = [s EXCEPT !.inputMQ = Append(@, s.cur), !.cur = [id |-> uuids + 1, body |-> <<>>]]
        BY <3>1 DEF WriteContainer
      <3>5. /\ DOMAIN u = DOMAIN s /\ u.pc = "join" /\ u.inputMQ = Append(mq, cur)
            /\ u.cur = [id |-> uuids + 1, body |-> <<>>]
            /\ u.rest = s.rest /\ u.inRecipe = s.inRecipe /\ u.todo = s.todo /\ u.ids = s.ids
            /\ u.map = s.map /\ u.buf = s.buf
        BY <1>2, <2>2, <3>1, <3>4 DEF SessionOK
      <3>6. SessionOK(u)
        BY <1>2, <2>1, <3>3, <3>5 DEF SessionOK, OpenPcs
      <3> QED  BY <1>1, <1>2, <2>1, <3>5, <3>6, OpenServer DEF OpenPcs
    <2>3. CASE u = [s EXCEPT !.pc = "join"] /\ s.cur.body = <<>>
      <3>1. SessionOK(u) /\ u.pc = "join"
        BY <1>2, <2>1, <2>3 DEF SessionOK, OpenPcs
      <3> QED  BY <1>1, <1>2, <2>1, <3>1, OpenServer DEF OpenPcs
    <2> QED  BY <2>1, <2>2, <2>3
  <1>12. CASE SaveToFile(c)
    <2>1. u = [s EXCEPT !.inputMQ = Tail(@)] /\ recipe' = recipe /\ keyRecipe' = keyRecipe
          /\ s.inputMQ # <<>>
      BY <1>1, <1>12 DEF SaveToFile, Shape
    <2>2. PICK mq : mq = s.inputMQ
      OBVIOUS
    <2>3. Tail(mq) \in Seq(Container) /\ s.pc \in OpenPcs
      BY <1>2, <2>1, <2>2 DEF SessionOK
    <2>4. SessionOK(u) /\ u.pc = s.pc
      BY <1>2, <2>1, <2>2, <2>3 DEF SessionOK
    <2> QED  BY <1>1, <1>2, <2>1, <2>3, <2>4, OpenServer DEF OpenPcs
  <1> QED  BY <1>5, <1>6, <1>7, <1>8, <1>9, <1>10, <1>11, <1>12

LEMMA AdmitUploadServer ==
    ASSUME Shape, NEW c \in Client, StoreOK, AdmitUpload(c)
    PROVE  /\ ServerOK(c)' /\ Decoding(c)'
           /\ srv'[c].pc = "recv" /\ srv'[c].cur = [id |-> uuids + 1, body |-> <<>>]
           /\ srv'[c].rest = <<>> /\ srv'[c].inRecipe = <<>> /\ srv'[c].inputMQ = <<>>
           /\ recipe'[c] = BlankRecipe /\ keyRecipe'[c] = <<>>
  <1>1. PICK u : u = srv'[c]
    OBVIOUS
  <1>2. /\ u = [Session EXCEPT !.pc = "recv", !.cur.id = uuids + 1]
        /\ recipe'[c] = BlankRecipe /\ keyRecipe'[c] = <<>>
    BY <1>1 DEF AdmitUpload, Shape
  <1>3. /\ <<>> \in Seq(Ciphertext) /\ <<>> \in Seq(Addr) /\ <<>> \in Seq(Container) /\ <<>> \in Seq(Nat)
        /\ <<>> \in Seq(Slot) /\ [id |-> uuids + 1, body |-> <<>>] \in Container /\ <<>> \in Seq(KeyEntry)
    BY DEF Container, StoreOK
  <1>4. /\ DOMAIN u = {"pc", "rest", "inRecipe", "cur", "inputMQ", "todo", "ids", "map", "buf", "send"}
        /\ u.pc = "recv" /\ u.rest = <<>> /\ u.inRecipe = <<>> /\ u.inputMQ = <<>>
        /\ u.todo = <<>> /\ u.ids = <<>> /\ u.map = {} /\ u.buf = <<>>
        /\ u.cur = [id |-> uuids + 1, body |-> <<>>]
    BY <1>2 DEF Session
  <1>5. SessionOK(u) /\ u.pc \in OpenPcs
    BY <1>3, <1>4 DEF SessionOK, OpenPcs
  <1>6. BlankRecipe \in Recipe
    BY <1>3 DEF BlankRecipe, Recipe
  <1>7. ServerOK(c)' /\ Decoding(c)'
    BY <1>1, <1>2, <1>3, <1>5, <1>6, OpenServer
  <1> QED  BY <1>1, <1>2, <1>4, <1>7

LEMMA AdmitRestoreServer ==
    ASSUME Shape, NEW c \in Client, ServerOK(c), AdmitRestore(c)
    PROVE  /\ ServerOK(c)' /\ Decoding(c)' /\ srv'[c].pc = "decode" /\ srv'[c].todo = recipe[c].entries
           /\ srv'[c].buf = <<>> /\ srv'[c].send = <<>> /\ srv'[c].inputMQ = <<>> /\ srv'[c].cur = Session.cur
  <1>1. PICK u, es : u = srv'[c] /\ es = recipe[c].entries
    OBVIOUS
  <1>2. /\ u = [Session EXCEPT !.pc = "decode", !.todo = es]
        /\ recipe[c] \in Recipe /\ recipe' = recipe /\ keyRecipe' = keyRecipe
    BY <1>1, ServerParts DEF AdmitRestore, Shape
  <1>3. /\ <<>> \in Seq(Ciphertext) /\ <<>> \in Seq(Addr) /\ <<>> \in Seq(Container) /\ <<>> \in Seq(Nat)
        /\ <<>> \in Seq(Slot) /\ [id |-> 0, body |-> <<>>] \in Container /\ es \in Seq(Addr)
    BY <1>1, <1>2 DEF Container, Recipe
  <1>4. /\ DOMAIN u = {"pc", "rest", "inRecipe", "cur", "inputMQ", "todo", "ids", "map", "buf", "send"}
        /\ u.pc = "decode" /\ u.rest = <<>> /\ u.inRecipe = <<>> /\ u.inputMQ = <<>>
        /\ u.todo = es /\ u.ids = <<>> /\ u.map = {} /\ u.buf = <<>> /\ u.send = <<>>
        /\ u.cur = [id |-> 0, body |-> <<>>] /\ u.cur = Session.cur
    BY <1>2 DEF Session
  <1>5. SessionOK(u)
    BY <1>3, <1>4 DEF SessionOK, OpenPcs
  <1>6. DecodeOK(u, es)
    <2>1. Len(es) \in Nat /\ Len(es) - Len(es) = 0 /\ Len(es) - 0 = Len(es)
          /\ \A n \in 1 .. Len(es) : 0 + n = n
      BY <1>3
    <2>2. Piece(es, es, Len(es) - Len(es), Len(es))
      BY <2>1 DEF Piece
    <2>3. Len(<<>>) = 0 /\ 1 .. 0 = {} /\ Len(es) + 0 <= Len(es)
      BY <2>1
    <2> QED  BY <1>4, <2>2, <2>3 DEF DecodeOK
  <1> QED  BY <1>1, <1>2, <1>4, <1>5, <1>6 DEF ServerOK, Decoding, OpenPcs

LEMMA DecodeServer ==
    ASSUME Shape, NEW c \in Client, ServerOK(c), Decoding(c), DecodeEntry(c) \/ DecodeTail(c)
    PROVE  ServerOK(c)' /\ Decoding(c)' /\ srv'[c].pc \notin OpenPcs
  <1>1. PICK s, u, es : s = srv[c] /\ u = srv'[c] /\ es = recipe[c].entries
    OBVIOUS
  <1>2. /\ s.pc = "decode" /\ SessionOK(s) /\ recipe[c] \in Recipe /\ DecodeOK(s, es)
        /\ recipe' = recipe /\ keyRecipe' = keyRecipe
    BY <1>1, ServerParts DEF DecodeEntry, DecodeTail, Decoding
  <1>3. CASE u = s
    BY <1>1, <1>2, <1>3, SameServer DEF OpenPcs
  <1>4. CASE DecodeTail(c)
    <2>1. u = s \/ u = [Session EXCEPT !.pc = "waitClose"]
      BY <1>1, <1>4 DEF DecodeTail, Shape
    <2>2. CASE u = [Session EXCEPT !.pc = "waitClose"]
      BY <1>1, <1>2, <2>2, SessionIs DEF ServerOK, Decoding, OpenPcs
    <2> QED  BY <1>3, <2>1, <2>2
  <1>5. CASE DecodeEntry(c)
    <2>1. PICK w : w = ParseEntry(c, s)
      OBVIOUS
    <2>2. /\ s.todo # <<>>
          /\ \/ u = s \/ u = w
             \/ u = [w EXCEPT !.send = Unsent(Recovered(w)), !.ids = <<>>, !.map = {}, !.buf = <<>>]
      BY <1>1, <1>5, <2>1 DEF DecodeEntry, Shape
    <2>3. Parsed(s, w) /\ SessionOK(w) /\ DecodeOK(w, es)
      BY <1>1, <1>2, <2>1, <2>2, ParseIs
    <2>4. w.pc = "decode"
      BY <1>2, <2>3 DEF Parsed
    <2>5. CASE u = w
      BY <1>1, <1>2, <2>3, <2>4, <2>5 DEF ServerOK, Decoding, OpenPcs
    <2>6. CASE u = [w EXCEPT !.send = Unsent(Recovered(w)), !.ids = <<>>, !.map = {}, !.buf = <<>>]
      <3>1. /\ DOMAIN u = DOMAIN w /\ u.pc = w.pc /\ u.rest = w.rest /\ u.inRecipe = w.inRecipe
            /\ u.cur = w.cur /\ u.inputMQ = w.inputMQ /\ u.todo = w.todo /\ u.ids = <<>>
            /\ u.map = {} /\ u.buf = <<>>
        BY <2>3, <2>6 DEF SessionOK
      <3>2. <<>> \in Seq(Nat) /\ <<>> \in Seq(Slot) /\ Len(<<>>) = 0 /\ 1 .. 0 = {}
        OBVIOUS
      <3>3. SessionOK(u)
        BY <2>3, <3>1, <3>2 DEF SessionOK
      <3>4. Len(w.todo) \in Nat /\ Len(w.buf) \in Nat /\ Len(es) \in Nat
        BY <1>1, <1>2, <2>3, SMTT(20) DEF SessionOK, Recipe
      <3>5. Len(w.todo) + Len(w.buf) <= Len(es) /\ Piece(w.todo, es, Len(es) - Len(w.todo), Len(es))
        BY <2>3 DEF DecodeOK
      <3>6. DecodeOK(u, es)
        <4>1. Len(w.todo) + 0 <= Len(es)
          <5>1. PICK a, b, n : a = Len(w.todo) /\ b = Len(w.buf) /\ n = Len(es)
            OBVIOUS
          <5>2. a \in Nat /\ b \in Nat /\ n \in Nat /\ a + b <= n
            BY ONLY <3>4, <3>5, <5>1
          <5>3. a + 0 <= n
            BY ONLY <5>2
          <5> QED  BY ONLY <5>1, <5>3
        <4>2. Len(u.todo) + Len(u.buf) <= Len(es) /\ Piece(u.todo, es, Len(es) - Len(u.todo), Len(es))
          BY <3>1, <3>2, <3>5, <4>1
        <4>3. u.map = {} /\ 1 .. Len(u.buf) = {}
          BY <3>1, <3>2
        <4> QED  BY ONLY <4>2, <4>3 DEF DecodeOK
      <3> QED  BY <1>1, <1>2, <2>4, <3>1, <3>3, <3>6 DEF ServerOK, Decoding, OpenPcs
    <2> QED  BY <1>3, <2>2, <2>5, <2>6
  <1> QED  BY <1>4, <1>5

LEMMA ServerStep ==
    ASSUME Shape, NEW c \in Client, ClientOK(c), ServerOK(c), Decoding(c), StoreOK, Step(c)
    PROVE  ServerOK(c)' /\ Decoding(c)'
  <1>1. CASE EndSession(c) \/ CloseRestore(c)
    <2>1. /\ srv'[c] = Session /\ recipe' = recipe /\ keyRecipe' = keyRecipe
      BY <1>1 DEF EndSession, CloseRestore, Shape
    <2> QED  BY <2>1, SessionIs, ServerParts DEF ServerOK, Decoding, OpenPcs
  <1>2. CASE \/ StartUpload(c) \/ StartRestore(c) \/ RestoreUnknown(c) \/ Abort(c) \/ FillBatch(c)
             \/ RequestKeys(c) \/ EncryptBatch(c) \/ EndUpload(c) \/ ReceiveChunks(c) \/ ExitRestore(c)
             \/ GenerateKeySeed(c) \/ ReplyKeys(c) \/ CloseKeyThread(c) \/ RejectRestore(c)
             \/ DecoderFails(c) \/ ClientFails(c) \/ Again(c)
    <2>1. srv' = srv /\ recipe' = recipe /\ keyRecipe' = keyRecipe
      BY <1>2, Zenon DEF StartUpload, StartRestore, RestoreUnknown, Abort, FillBatch, RequestKeys, EncryptBatch,
           EndUpload, ReceiveChunks, ExitRestore, GenerateKeySeed, ReplyKeys, CloseKeyThread, RejectRestore,
           DecoderFails, ClientFails, Again, serverVars
    <2> QED  BY <2>1, SameServer
  <1> QED  BY <1>1, <1>2, ReceiverServer, AdmitUploadServer, AdmitRestoreServer, DecodeServer DEF Step

(* What a step of c does to the store: it leaves it alone, or it opens a      *)
(* container, adds a ciphertext to one, queues one, or writes one.           *)
Untouched(c) == /\ UNCHANGED <<index, disk, uuids>> /\ srv'[c].cur = srv[c].cur
                /\ srv'[c].inputMQ = srv[c].inputMQ
                /\ srv'[c].pc \in OpenPcs <=> srv[c].pc \in OpenPcs
Closes(c) == /\ UNCHANGED <<index, disk, uuids>> /\ srv'[c].pc \notin OpenPcs
             /\ srv'[c].cur.body = <<>> /\ srv'[c].inputMQ = <<>>
             /\ srv[c].cur.body = <<>> /\ srv[c].inputMQ = <<>>
Opens(c) == /\ UNCHANGED <<index, disk>> /\ uuids' = uuids + 1 /\ srv'[c].pc \in OpenPcs
            /\ srv[c].cur.body = <<>> /\ srv[c].inputMQ = <<>>
            /\ srv'[c].cur = [id |-> uuids + 1, body |-> <<>>] /\ srv'[c].inputMQ = <<>>
Stores(c, ct, addr) ==
    /\ srv[c].pc \in OpenPcs /\ srv'[c].pc \in OpenPcs /\ disk' = disk
    /\ addr \in Addr /\ ct \in Ciphertext
    /\ index' = [x \in DOMAIN index \cup {ct} |-> IF x = ct THEN addr ELSE index[x]]
    /\ srv'[c].cur \in Container
    /\ addr.id = srv'[c].cur.id /\ addr.offset \in DOMAIN srv'[c].cur.body /\ srv'[c].cur.body[addr.offset] = ct
    /\ \/ /\ uuids' = uuids + 1 /\ srv'[c].cur.id = uuids + 1
          /\ srv'[c].inputMQ = Append(srv[c].inputMQ, srv[c].cur)
       \/ /\ uuids' = uuids /\ srv'[c].cur.id = srv[c].cur.id /\ srv'[c].inputMQ = srv[c].inputMQ
          /\ srv'[c].cur.body = Append(srv[c].cur.body, ct)
Queues(c) == /\ UNCHANGED <<index, disk>> /\ uuids' = uuids + 1
             /\ srv[c].pc \in OpenPcs /\ srv'[c].pc \in OpenPcs
             /\ srv'[c].inputMQ = Append(srv[c].inputMQ, srv[c].cur)
             /\ srv'[c].cur = [id |-> uuids + 1, body |-> <<>>]
Writes(c) == /\ UNCHANGED <<index, uuids>> /\ srv[c].inputMQ # <<>> /\ srv'[c].cur = srv[c].cur
             /\ srv[c].pc \in OpenPcs /\ srv'[c].pc = srv[c].pc
             /\ srv'[c].inputMQ = Tail(srv[c].inputMQ)
             /\ disk' = [n \in DOMAIN disk \cup {Head(srv[c].inputMQ).id} |->
                           IF n = Head(srv[c].inputMQ).id THEN Head(srv[c].inputMQ).body ELSE disk[n]]

LEMMA StoreStep ==
    ASSUME Shape, NEW c \in Client, ServerOK(c), StoreOK, Decoding(c), Step(c)
    PROVE  \/ Untouched(c) \/ Closes(c) \/ Opens(c) \/ Queues(c) \/ Writes(c)
           \/ \E ct, addr : Stores(c, ct, addr)
  <1>0. PICK s, u : s = srv[c] /\ u = srv'[c]
    OBVIOUS
  <1>1. SessionOK(s)
    BY <1>0, ServerParts
  <1>2. /\ {"pc", "rest", "inRecipe", "cur", "inputMQ"} \subseteq DOMAIN s
        /\ s.pc \notin OpenPcs => s.cur.body = <<>> /\ s.inputMQ = <<>>
        /\ s.pc = "join" => s.cur.body = <<>>
    BY <1>1 DEF SessionOK
  <1>3. CASE \/ StartUpload(c) \/ StartRestore(c) \/ RestoreUnknown(c) \/ Abort(c) \/ FillBatch(c)
             \/ RequestKeys(c) \/ EncryptBatch(c) \/ EndUpload(c) \/ ReceiveChunks(c) \/ ExitRestore(c)
             \/ GenerateKeySeed(c) \/ ReplyKeys(c) \/ CloseKeyThread(c) \/ RejectRestore(c)
             \/ DecoderFails(c) \/ ClientFails(c) \/ Again(c) \/ ProcessRecipes(c)
    <2>1. srv' = srv /\ UNCHANGED <<index, disk, uuids>>
      BY <1>3, Zenon DEF StartUpload, StartRestore, RestoreUnknown, Abort, FillBatch, RequestKeys, EncryptBatch,
           EndUpload, ReceiveChunks, ExitRestore, GenerateKeySeed, ReplyKeys, CloseKeyThread, RejectRestore,
           DecoderFails, ClientFails, Again, ProcessRecipes, serverVars, storeVars
    <2> QED  BY <2>1 DEF Untouched
  <1>4. CASE ReceiveBatch(c) \/ ProcessRecipeEnd(c) \/ ConnectionClosed(c)
    <2>1. /\ UNCHANGED <<index, disk, uuids>> /\ u.cur = s.cur /\ u.inputMQ = s.inputMQ
          /\ u.pc \in OpenPcs /\ s.pc \in OpenPcs
      BY <1>0, <1>2, <1>4 DEF ReceiveBatch, ProcessRecipeEnd, ConnectionClosed, Receives, Shape, storeVars, OpenPcs
    <2> QED  BY <1>0, <2>1 DEF Untouched, OpenPcs
  <1>5. CASE QueryIndex(c)
    <2>1. UNCHANGED <<index, disk, uuids>> /\ s.pc = "query"
      BY <1>0, <1>5 DEF QueryIndex, storeVars
    <2>2. u.cur = s.cur /\ u.inputMQ = s.inputMQ /\ u.pc \in {"recv", "query", "store"}
      <3>1. CASE Updated(c, srv[c], index[Head(srv[c].rest)], srv'[c], recipe[c], recipe'[c])
        BY <1>0, <3>1 DEF Updated
      <3>2. CASE srv'[c] = [srv[c] EXCEPT !.pc = "store"] /\ recipe'[c] = recipe[c]
        BY <1>0, <1>2, <3>2
      <3> QED  BY <1>5, <3>1, <3>2, QueryIs
    <2> QED  BY <1>0, <2>1, <2>2 DEF Untouched, OpenPcs
  <1>6. CASE StoreChunk(c)
    <2>1. PICK w, addr, ct, new :
              /\ ct = Head(srv[c].rest) /\ ct \in Ciphertext
              /\ Saved(srv[c], ct, w, addr, new) /\ SessionOK(w)
              /\ Updated(c, w, addr, srv'[c], recipe[c], recipe'[c])
              /\ index' = [x \in DOMAIN index \cup {ct} |-> IF x = ct THEN addr ELSE index[x]]
              /\ uuids' = (IF new THEN uuids + 1 ELSE uuids)
      BY <1>6, StoreIs
    <2>2. s.pc = "store" /\ disk' = disk
      BY <1>0, <1>6 DEF StoreChunk
    <2>3. u.cur = w.cur /\ u.inputMQ = w.inputMQ /\ u.pc \in {"recv", "query"}
      BY <1>0, <2>1 DEF Updated
    <2>4. /\ w.cur \in Container /\ addr \in Addr
          /\ addr.id = w.cur.id /\ addr.offset \in DOMAIN w.cur.body /\ w.cur.body[addr.offset] = ct
          /\ new => /\ w.inputMQ = Append(s.inputMQ, s.cur) /\ w.cur.id = uuids + 1
          /\ ~new => /\ w.inputMQ = s.inputMQ /\ w.cur.id = s.cur.id
                     /\ w.cur.body = Append(s.cur.body, ct)
      BY <1>0, <2>1 DEF Saved
    <2>5. Stores(c, ct, addr)
      BY <1>0, <2>1, <2>2, <2>3, <2>4 DEF Stores, OpenPcs
    <2> QED  BY <2>5
  <1>7. CASE LastContainer(c)
    <2>1. /\ s.pc = "last" /\ UNCHANGED <<index, disk>>
          /\ \/ u = [WriteContainer(s) EXCEPT !.pc = "join"] /\ uuids' = uuids + 1
             \/ u = [s EXCEPT !.pc = "join"] /\ uuids' = uuids
      BY <1>0, <1>7 DEF LastContainer, Shape
    <2>2. CASE u = [WriteContainer(s) EXCEPT !.pc = "join"] /\ uuids' = uuids + 1
      <3>1. /\ u.pc = "join" /\ u.inputMQ = Append(s.inputMQ, s.cur)
            /\ u.cur = [id |-> uuids + 1, body |-> <<>>]
        BY <1>2, <2>2 DEF WriteContainer
      <3> QED  BY <1>0, <2>1, <2>2, <3>1 DEF Queues, OpenPcs
    <2>3. CASE u = [s EXCEPT !.pc = "join"] /\ uuids' = uuids
      BY <1>0, <1>2, <2>1, <2>3 DEF Untouched, OpenPcs
    <2> QED  BY <2>1, <2>2, <2>3
  <1>8. CASE SaveToFile(c)
    <2>1. /\ u = [s EXCEPT !.inputMQ = Tail(@)] /\ s.inputMQ # <<>> /\ UNCHANGED <<index, uuids>>
          /\ disk' = [n \in DOMAIN disk \cup {Head(s.inputMQ).id} |->
                           IF n = Head(s.inputMQ).id THEN Head(s.inputMQ).body ELSE disk[n]]
      BY <1>0, <1>8 DEF SaveToFile, Shape
    <2>2. s.pc \in OpenPcs /\ u.pc = s.pc /\ u.cur = s.cur /\ u.inputMQ = Tail(s.inputMQ)
      BY <1>2, <2>1
    <2> QED  BY <1>0, <2>1, <2>2 DEF Writes
  <1>9. CASE AdmitUpload(c)
    <2>1. s.pc = "none" /\ UNCHANGED <<index, disk>> /\ uuids' = uuids + 1
      BY <1>0, <1>9 DEF AdmitUpload, Login
    <2>2. srv'[c].pc = "recv" /\ srv'[c].cur = [id |-> uuids + 1, body |-> <<>>] /\ srv'[c].inputMQ = <<>>
      BY <1>9, AdmitUploadServer
    <2> QED  BY <1>0, <1>2, <2>1, <2>2 DEF Opens, OpenPcs
  <1>10. CASE EndSession(c) \/ CloseRestore(c)
    <2>1. u = Session /\ UNCHANGED <<index, disk, uuids>> /\ s.pc \in {"join", "waitClose"}
          /\ (s.pc = "join" => s.inputMQ = <<>>)
      BY <1>0, <1>10 DEF EndSession, CloseRestore, Shape, storeVars
    <2> QED  BY <1>0, <1>2, <2>1 DEF Closes, Session, OpenPcs
  <1>11. CASE AdmitRestore(c)
    <2>1. s.pc = "none" /\ UNCHANGED <<index, disk, uuids>>
      BY <1>0, <1>11 DEF AdmitRestore, Login, storeVars
    <2>2. srv'[c].pc = "decode" /\ srv'[c].inputMQ = <<>> /\ srv'[c].cur = Session.cur
      BY <1>11, AdmitRestoreServer
    <2> QED  BY <1>0, <1>2, <2>1, <2>2 DEF Closes, Session, OpenPcs
  <1>12. CASE DecodeEntry(c) \/ DecodeTail(c)
    <2>1. s.pc = "decode" /\ UNCHANGED <<index, disk, uuids>>
      BY <1>0, <1>12 DEF DecodeEntry, DecodeTail, storeVars
    <2>2. SessionOK(u) /\ u.pc \notin OpenPcs
      BY <1>0, <1>12, DecodeServer DEF ServerOK
    <2>3. u.cur.body = <<>> /\ u.inputMQ = <<>>
      BY <2>2 DEF SessionOK
    <2> QED  BY <1>0, <1>2, <2>1, <2>2, <2>3 DEF Closes, OpenPcs
  <1> QED  BY <1>3, <1>4, <1>5, <1>6, <1>7, <1>8, <1>9, <1>10, <1>11, <1>12 DEF Step
-----------------------------------------------------------------------------
(* The containers that are written, on disk or in a queue, and the open ones. *)
Queued(c) == {srv[c].inputMQ[k] : k \in DOMAIN srv[c].inputMQ}
OnDiskC   == {[id |-> n, body |-> disk[n]] : n \in DOMAIN disk}
Written   == OnDiskC \cup UNION {Queued(c) : c \in Client}
Open(c)   == srv[c].pc \in OpenPcs

(* No two containers share an identifier. *)
StoreInv ==
    /\ \A x, y \in Written : x.id = y.id => x = y
    /\ \A x \in Written : x \in Container /\ x.id \in 1 .. uuids
    /\ \A c \in Client : Open(c) =>
          srv[c].cur.id \in 1 .. uuids /\ \A x \in Written : x.id # srv[c].cur.id
    /\ \A c, d \in Client : Open(c) /\ Open(d) /\ srv[c].cur.id = srv[d].cur.id => c = d

LEMMA QueueAppend ==
    ASSUME NEW S, NEW q \in Seq(S), NEW x \in S
    PROVE  {Append(q, x)[k] : k \in DOMAIN Append(q, x)} = {q[k] : k \in DOMAIN q} \cup {x}
  <1> DEFINE r == Append(q, x)
  <1>1. /\ DOMAIN q = 1 .. Len(q) /\ DOMAIN r = 1 .. Len(q) + 1 /\ Len(q) \in Nat
        /\ r[Len(q) + 1] = x /\ \A k \in 1 .. Len(q) : r[k] = q[k]
    OBVIOUS
  <1>2. ASSUME NEW k \in DOMAIN r PROVE r[k] \in {q[i] : i \in DOMAIN q} \cup {x}
    <2>1. CASE k \in DOMAIN q  BY <1>1, <2>1
    <2>2. CASE k \notin DOMAIN q
      <3>1. k = Len(q) + 1
        BY <1>1, <2>2
      <3> QED  BY <1>1, <3>1
    <2> QED  BY <2>1, <2>2
  <1>3. ASSUME NEW k \in DOMAIN q PROVE q[k] \in {r[i] : i \in DOMAIN r}
    <2>1. k \in DOMAIN r /\ r[k] = q[k]
      BY <1>1
    <2> QED  BY <2>1
  <1>4. x \in {r[i] : i \in DOMAIN r}
    <2>1. Len(q) + 1 \in DOMAIN r
      BY <1>1
    <2> QED  BY <1>1, <2>1
  <1> HIDE DEF r
  <1>5. {r[i] : i \in DOMAIN r} = {q[i] : i \in DOMAIN q} \cup {x}
    BY <1>2, <1>3, <1>4
  <1> QED  BY <1>5 DEF r

LEMMA QueueTail ==
    ASSUME NEW S, NEW q \in Seq(S), q # <<>>
    PROVE  {q[k] : k \in DOMAIN q} = {Tail(q)[k] : k \in DOMAIN Tail(q)} \cup {Head(q)}
  <1> DEFINE r == Tail(q)
             h == Head(q)
  <1>1. /\ DOMAIN q = 1 .. Len(q) /\ DOMAIN r = 1 .. Len(q) - 1 /\ Len(q) \in Nat /\ Len(q) # 0
        /\ h = q[1] /\ \A k \in 1 .. Len(q) - 1 : r[k] = q[k + 1]
    OBVIOUS
  <1> HIDE DEF r, h
  <1>2. ASSUME NEW k \in DOMAIN q PROVE q[k] \in {r[i] : i \in DOMAIN r} \cup {h}
    <2>1. CASE k = 1  BY <1>1, <2>1
    <2>2. CASE k # 1
      <3>1. k - 1 \in 1 .. Len(q) - 1 /\ (k - 1) + 1 = k
        BY <1>1, <2>2
      <3>2. r[k - 1] = q[k] /\ k - 1 \in DOMAIN r
        BY <1>1, <3>1
      <3> QED  BY <3>2
    <2> QED  BY <2>1, <2>2
  <1>3. ASSUME NEW k \in DOMAIN r PROVE r[k] \in {q[i] : i \in DOMAIN q}
    <2>1. k + 1 \in DOMAIN q /\ r[k] = q[k + 1]
      BY <1>1
    <2> QED  BY <2>1
  <1>4. h \in {q[i] : i \in DOMAIN q}
    <2>1. 1 \in DOMAIN q
      BY <1>1
    <2> QED  BY <1>1, <2>1
  <1>5. {q[i] : i \in DOMAIN q} = {r[i] : i \in DOMAIN r} \cup {h}
    BY <1>2, <1>3, <1>4
  <1> QED  BY <1>5 DEF r, h

LEMMA WrittenIs == \A x : x \in Written <=> x \in OnDiskC \/ \E c \in Client : x \in Queued(c)
  BY DEF Written

LEMMA WrittenNext == \A x : x \in Written' <=> x \in OnDiskC' \/ \E c \in Client : x \in Queued(c)'
  BY DEF Written

(* What each kind of step does to the written containers. *)
LEMMA SameQueues ==
    ASSUME Shape, NEW c \in Client, \A d \in Client \ {c} : Frame(d),
           srv'[c].inputMQ = srv[c].inputMQ, disk' = disk
    PROVE  Written' = Written
  <1>1. \A d \in Client : srv'[d].inputMQ = srv[d].inputMQ
    BY DEF Frame
  <1> QED  BY <1>1 DEF Written, Queued, OnDiskC

LEMMA MoreQueued ==
    ASSUME Shape, NEW c \in Client, \A d \in Client \ {c} : Frame(d), ServerOK(c),
           srv'[c].inputMQ = Append(srv[c].inputMQ, srv[c].cur), disk' = disk
    PROVE  Written' = Written \cup {srv[c].cur}
  <1>1. PICK q, x : q = srv[c].inputMQ /\ x = srv[c].cur
    OBVIOUS
  <1>2. q \in Seq(Container) /\ x \in Container
    BY <1>1, ServerParts DEF SessionOK
  <1>3. {Append(q, x)[k] : k \in DOMAIN Append(q, x)} = {q[k] : k \in DOMAIN q} \cup {x}
    BY ONLY <1>2, QueueAppend
  <1>4. Queued(c)' = Queued(c) \cup {x}
    <2>1. PICK r : r = srv'[c].inputMQ
      OBVIOUS
    <2>2. r = Append(q, x)
      BY <1>1, <2>1
    <2>3. {r[k] : k \in DOMAIN r} = {q[k] : k \in DOMAIN q} \cup {x}
      BY ONLY <1>3, <2>2, ZenonT(20)
    <2> QED  BY <1>1, <2>1, <2>3 DEF Queued
  <1>5. \A d \in Client \ {c} : Queued(d)' = Queued(d)
    BY DEF Queued, Frame
  <1>6. OnDiskC' = OnDiskC
    BY DEF OnDiskC
  <1>7. \A y : y \in Written' <=> y \in Written \cup {x}
    BY ONLY <1>4, <1>5, <1>6, WrittenIs, WrittenNext
  <1> QED  BY <1>1, <1>7

LEMMA MoreWritten ==
    ASSUME Shape, NEW c \in Client, \A d \in Client \ {c} : Frame(d), ServerOK(c), StoreInv, Writes(c)
    PROVE  Written' = Written
  <1>1. PICK q, h : q = srv[c].inputMQ /\ h = Head(q)
    OBVIOUS
  <1>2. q \in Seq(Container) /\ q # <<>>
    BY <1>1, ServerParts DEF SessionOK, Writes
  <1>3. {q[k] : k \in DOMAIN q} = {Tail(q)[k] : k \in DOMAIN Tail(q)} \cup {Head(q)}
    BY ONLY <1>2, QueueTail
  <1>4. Queued(c) = Queued(c)' \cup {h}
    <2>1. PICK r : r = srv'[c].inputMQ
      OBVIOUS
    <2>2. r = Tail(q)
      BY <1>1, <2>1 DEF Writes
    <2>3. {q[k] : k \in DOMAIN q} = {r[k] : k \in DOMAIN r} \cup {h}
      BY ONLY <1>1, <1>3, <2>2
    <2> QED  BY <1>1, <2>1, <2>3 DEF Queued
  <1>5. \A d \in Client \ {c} : Queued(d)' = Queued(d)
    BY DEF Queued, Frame
  <1>6. h \in Written /\ h \in Container
    BY <1>1, <1>2, <1>4 DEF Written
  <1>7. h = [id |-> h.id, body |-> h.body]
    BY <1>6 DEF Container
  <1>8. disk' = [n \in DOMAIN disk \cup {h.id} |-> IF n = h.id THEN h.body ELSE disk[n]]
    BY <1>1 DEF Writes
  <1>9. \A n \in DOMAIN disk : n = h.id => disk[n] = h.body
    <2> SUFFICES ASSUME NEW n \in DOMAIN disk, n = h.id PROVE disk[n] = h.body
      OBVIOUS
    <2>1. PICK x : x = [id |-> n, body |-> disk[n]]
      OBVIOUS
    <2>2. x \in Written /\ x.id = h.id
      BY <2>1 DEF Written, OnDiskC
    <2>3. x = h
      BY <1>6, <2>2 DEF StoreInv
    <2> QED  BY <2>1, <2>3
  <1>10. OnDiskC' = OnDiskC \cup {h}
    <2>1. DOMAIN disk' = DOMAIN disk \cup {h.id} /\ disk'[h.id] = h.body
      BY <1>8
    <2>2. \A n \in DOMAIN disk : disk'[n] = disk[n]
      BY <1>8, <1>9
    <2>3. ASSUME NEW n \in DOMAIN disk' PROVE [id |-> n, body |-> disk'[n]] \in OnDiskC \cup {h}
      <3>1. CASE n = h.id  BY <1>7, <2>1, <3>1
      <3>2. CASE n # h.id  BY <2>1, <2>2, <3>2 DEF OnDiskC
      <3> QED  BY <3>1, <3>2
    <2>4. ASSUME NEW n \in DOMAIN disk PROVE [id |-> n, body |-> disk[n]] \in OnDiskC'
      BY <2>1, <2>2 DEF OnDiskC
    <2>5. h \in OnDiskC'
      <3>1. h = [id |-> h.id, body |-> disk'[h.id]] /\ h.id \in DOMAIN disk'
        BY <1>7, <2>1
      <3> QED  BY <3>1 DEF OnDiskC
    <2>6. OnDiskC' \subseteq OnDiskC \cup {h}
      BY <2>3 DEF OnDiskC
    <2>7. OnDiskC \subseteq OnDiskC'
      BY <2>4 DEF OnDiskC
    <2> QED  BY <2>5, <2>6, <2>7
  <1>11. \A y : y \in Written' <=> y \in Written
    BY ONLY <1>4, <1>5, <1>10, WrittenIs, WrittenNext
  <1> QED  BY <1>11

LEMMA HeldIs ==
    ASSUME NEW addr, NEW ct
    PROVE  Holds(addr, ct) <=>
             \E k : /\ k \in Written \/ (\E c \in Client : k = srv[c].cur)
                    /\ k.id = addr.id /\ addr.offset \in DOMAIN k.body /\ k.body[addr.offset] = ct
  <1>1. \A k : k \in Held <=> k \in Written \/ (\E c \in Client : k = srv[c].cur)
    BY DEF Held, Written, OnDiskC, Queued
  <1> QED  BY <1>1 DEF Holds

LEMMA HeldNext ==
    ASSUME NEW addr, NEW ct
    PROVE  Holds(addr, ct)' <=>
             \E k : /\ k \in Written' \/ (\E c \in Client : k = srv'[c].cur)
                    /\ k.id = addr.id /\ addr.offset \in DOMAIN k.body /\ k.body[addr.offset] = ct
  <1>1. \A k : k \in Held' <=> k \in Written' \/ (\E c \in Client : k = srv'[c].cur)
    BY DEF Held, Written, OnDiskC, Queued
  <1> QED  BY <1>1 DEF Holds

(* Whatever is held stays held, at its address. *)
LEMMA HoldsStep ==
    ASSUME Shape, NEW c \in Client, \A d \in Client \ {c} : Frame(d), ServerOK(c), StoreInv,
           \/ Untouched(c) \/ Closes(c) \/ Opens(c) \/ Queues(c) \/ Writes(c)
           \/ \E x, a : Stores(c, x, a),
           NEW addr, NEW ct, Holds(addr, ct)
    PROVE  Holds(addr, ct)'
  <1>1. PICK k : /\ k \in Written \/ (\E d \in Client : k = srv[d].cur)
                 /\ k.id = addr.id /\ addr.offset \in DOMAIN k.body /\ k.body[addr.offset] = ct
    BY HeldIs
  <1>2. ASSUME NEW m, m \in Written' \/ (\E d \in Client : m = srv'[d].cur), m.id = k.id,
               addr.offset \in DOMAIN m.body, m.body[addr.offset] = k.body[addr.offset]
        PROVE  Holds(addr, ct)'
    BY <1>1, <1>2, HeldNext
  <1>3. CASE \E d \in Client \ {c} : k = srv[d].cur
    <2>1. PICK d \in Client \ {c} : k = srv[d].cur
      BY <1>3
    <2>2. k = srv'[d].cur
      BY <2>1 DEF Frame
    <2> QED  BY <1>1, <1>2, <2>2
  <1>4. Written \subseteq Written'
    <2>1. CASE Untouched(c)  BY <2>1, SameQueues DEF Untouched
    <2>2. CASE Closes(c)  BY <2>2, SameQueues DEF Closes
    <2>3. CASE Opens(c)  BY <2>3, SameQueues DEF Opens
    <2>4. CASE Queues(c)  BY <2>4, MoreQueued DEF Queues
    <2>5. CASE Writes(c)  BY <2>5, MoreWritten
    <2>6. ASSUME NEW x, NEW a, Stores(c, x, a) PROVE Written \subseteq Written'
      BY <2>6, SameQueues, MoreQueued, Zenon DEF Stores
    <2> QED  BY <2>1, <2>2, <2>3, <2>4, <2>5, <2>6
  <1>5. CASE k \in Written
    BY <1>1, <1>2, <1>4, <1>5
  <1>6. CASE k = srv[c].cur
    <2>1. CASE Untouched(c) \/ Writes(c)
      BY <1>1, <1>2, <1>6, <2>1 DEF Untouched, Writes
    <2>2. CASE Closes(c) \/ Opens(c)
      BY <1>1, <1>6, <2>2 DEF Closes, Opens
    <2>3. CASE Queues(c)
      <3>1. k \in Written'
        BY <1>6, <2>3, MoreQueued DEF Queues
      <3> QED  BY <1>1, <1>2, <3>1
    <2>4. ASSUME NEW x, NEW a, Stores(c, x, a) PROVE Holds(addr, ct)'
      <3>1. CASE srv'[c].inputMQ = Append(srv[c].inputMQ, srv[c].cur)
        <4>1. k \in Written'
          BY <1>6, <2>4, <3>1, MoreQueued, Zenon DEF Stores
        <4> QED  BY <1>1, <1>2, <4>1
      <3>2. CASE srv'[c].cur.id = srv[c].cur.id /\ srv'[c].cur.body = Append(srv[c].cur.body, x)
        <4>1. PICK m, b, o : m = srv'[c].cur /\ b = k.body /\ o = addr.offset
          OBVIOUS
        <4>2. b \in Seq(Ciphertext)
          BY <1>6, <4>1, ServerParts DEF SessionOK, Container
        <4>3. m.id = k.id /\ m.body = Append(b, x) /\ o \in DOMAIN b
          BY <1>1, <1>6, <3>2, <4>1
        <4>4. o \in DOMAIN Append(b, x) /\ Append(b, x)[o] = b[o]
          BY <4>2, <4>3
        <4> QED  BY <1>2, <4>1, <4>3, <4>4
      <3> QED  BY <2>4, <3>1, <3>2, Zenon DEF Stores
    <2> QED  BY <2>1, <2>2, <2>3, <2>4
  <1> QED  BY <1>1, <1>3, <1>5, <1>6

LEMMA StoreInvStep ==
    ASSUME Shape, NEW c \in Client, \A d \in Client \ {c} : Frame(d), ServerOK(c), StoreOK, StoreInv,
           \/ Untouched(c) \/ Closes(c) \/ Opens(c) \/ Queues(c) \/ Writes(c)
           \/ \E x, a : Stores(c, x, a)
    PROVE  StoreInv'
  <1>1. PICK s, u, W, V, n, m : /\ s = srv[c] /\ u = srv'[c] /\ W = Written /\ V = Written'
                                /\ n = uuids /\ m = uuids'
    OBVIOUS
  <1>2. /\ n \in Nat /\ s.cur \in Container
        /\ \A x, y \in W : x.id = y.id => x = y
        /\ \A x \in W : x \in Container /\ x.id \in 1 .. n
        /\ s.pc \in OpenPcs => s.cur.id \in 1 .. n /\ \A x \in W : x.id # s.cur.id
    BY <1>1, ServerParts DEF StoreInv, Open, StoreOK, SessionOK
  <1>3. \A d \in Client \ {c} : /\ srv'[d] = srv[d]
                                /\ Open(d) => /\ srv[d].cur.id \in 1 .. n /\ \A x \in W : x.id # srv[d].cur.id
                                              /\ s.pc \in OpenPcs => srv[d].cur.id # s.cur.id
    BY <1>1 DEF StoreInv, Open, Frame
  <1>4. \A d, e \in Client \ {c} : Open(d) /\ Open(e) /\ srv[d].cur.id = srv[e].cur.id => d = e
    BY DEF StoreInv
  (* Which of the five shapes: the written containers, and the open one of c. *)
  <1>5. \/ V = W /\ m = n /\ u.cur.id = s.cur.id /\ (u.pc \in OpenPcs => s.pc \in OpenPcs)
        \/ V = W /\ m = n /\ u.pc \notin OpenPcs
        \/ V = W /\ m = n + 1 /\ u.cur.id = n + 1
        \/ V = W \cup {s.cur} /\ m = n + 1 /\ u.cur.id = n + 1 /\ s.pc \in OpenPcs
    <2>1. CASE Untouched(c)  BY <1>1, <2>1, SameQueues DEF Untouched
    <2>2. CASE Closes(c)  BY <1>1, <2>2, SameQueues DEF Closes
    <2>3. CASE Opens(c)  BY <1>1, <2>3, SameQueues DEF Opens
    <2>4. CASE Queues(c)  BY <1>1, <2>4, MoreQueued DEF Queues
    <2>5. CASE Writes(c)  BY <1>1, <2>5, MoreWritten DEF Writes
    <2>6. ASSUME NEW x, NEW a, Stores(c, x, a)
          PROVE  \/ V = W /\ m = n /\ u.cur.id = s.cur.id /\ s.pc \in OpenPcs
                 \/ V = W \cup {s.cur} /\ m = n + 1 /\ u.cur.id = n + 1 /\ s.pc \in OpenPcs
      BY <1>1, <2>6, SameQueues, MoreQueued, Zenon DEF Stores
    <2> QED  BY <2>1, <2>2, <2>3, <2>4, <2>5, <2>6
  <1>6. \A k : k \in 1 .. n => k \in 1 .. m /\ k # n + 1
    BY <1>2, <1>5
  <1>7. n + 1 \in 1 .. n + 1
    BY <1>2
  <1>8. \A x, y \in V : x.id = y.id => x = y
    BY <1>2, <1>5
  <1>9. \A x \in V : x \in Container /\ x.id \in 1 .. m
    BY <1>2, <1>5, <1>6
  <1>10. u.pc \in OpenPcs => u.cur.id \in 1 .. m /\ \A x \in V : x.id # u.cur.id
    BY <1>2, <1>5, <1>6, <1>7
  <1>11. \A d \in Client \ {c} : Open(d) => /\ srv[d].cur.id \in 1 .. m /\ \A x \in V : x.id # srv[d].cur.id
                                            /\ u.pc \in OpenPcs => srv[d].cur.id # u.cur.id
    BY <1>3, <1>5, <1>6
  <1> QED
    <2>1. \A d \in Client \ {c} : (Open(d)' <=> Open(d)) /\ srv'[d].cur.id = srv[d].cur.id
      BY <1>3 DEF Open
    <2>2. Open(c)' <=> u.pc \in OpenPcs
      BY <1>1 DEF Open
    <2>3. \A d \in Client : Open(d)' =>
             srv'[d].cur.id \in 1 .. uuids' /\ \A x \in Written' : x.id # srv'[d].cur.id
      BY <1>1, <1>10, <1>11, <2>1, <2>2
    <2>4. \A d, e \in Client : Open(d)' /\ Open(e)' /\ srv'[d].cur.id = srv'[e].cur.id => d = e
      BY <1>1, <1>4, <1>11, <2>1, <2>2
    <2> QED  BY <1>1, <1>8, <1>9, <2>3, <2>4 DEF StoreInv

LEMMA StoreOKStep ==
    ASSUME Shape, NEW c \in Client, ServerOK(c), StoreOK,
           \/ Untouched(c) \/ Closes(c) \/ Opens(c) \/ Queues(c) \/ Writes(c)
           \/ \E x, a : Stores(c, x, a)
    PROVE  StoreOK'
  <1>1. CASE Untouched(c) \/ Closes(c) \/ Opens(c) \/ Queues(c)
    BY <1>1 DEF Untouched, Closes, Opens, Queues, StoreOK
  <1>2. CASE Writes(c)
    <2>1. PICK q, h : q = srv[c].inputMQ /\ h = Head(q)
      OBVIOUS
    <2>2. q \in Seq(Container) /\ q # <<>>
      BY <1>2, <2>1, ServerParts DEF SessionOK, Writes
    <2>3. h \in Container
      BY <2>1, <2>2
    <2>4. h.id \in Nat /\ h.body \in Seq(Ciphertext)
      BY <2>3 DEF Container
    <2>5. disk' = [n \in DOMAIN disk \cup {h.id} |-> IF n = h.id THEN h.body ELSE disk[n]]
          /\ UNCHANGED <<index, uuids>>
      BY <1>2, <2>1 DEF Writes
    <2> QED  BY <2>4, <2>5 DEF StoreOK
  <1>3. ASSUME NEW x, NEW a, Stores(c, x, a) PROVE StoreOK'
    <2>1. /\ disk' = disk /\ a \in Addr /\ (uuids' = uuids \/ uuids' = uuids + 1)
          /\ index' = [y \in DOMAIN index \cup {x} |-> IF y = x THEN a ELSE index[y]]
      BY <1>3 DEF Stores
    <2>2. uuids' \in Nat
      BY <2>1 DEF StoreOK
    <2>3. \A y \in DOMAIN index' : index'[y] \in Addr
      BY <2>1 DEF StoreOK
    <2> QED  BY <2>1, <2>2, <2>3 DEF StoreOK
  <1> QED  BY <1>1, <1>2, <1>3

LEMMA ResolveStep ==
    ASSUME Shape, NEW c \in Client, \A d \in Client \ {c} : Frame(d), ServerOK(c), StoreOK, StoreInv,
           \/ Untouched(c) \/ Closes(c) \/ Opens(c) \/ Queues(c) \/ Writes(c)
           \/ \E x, a : Stores(c, x, a),
           AddressesResolve
    PROVE  AddressesResolve'
  <1> SUFFICES ASSUME NEW ct, ct \in DOMAIN index' PROVE Holds(index[ct], ct)'
    BY DEF AddressesResolve
  <1>1. PICK addr : addr = index'[ct]
    OBVIOUS
  <1>2. CASE ct \in DOMAIN index /\ addr = index[ct]
    <2>1. Holds(addr, ct)
      BY <1>2 DEF AddressesResolve
    <2>2. Holds(addr, ct)'
      BY <2>1, HoldsStep
    <2> QED  BY <1>1, <2>2 DEF Holds
  <1>3. CASE ~(ct \in DOMAIN index /\ addr = index[ct])
    <2>1. index' # index
      BY <1>1, <1>3
    <2>2. PICK x, a : Stores(c, x, a)
      BY <2>1 DEF Untouched, Closes, Opens, Queues, Writes
    <2>3. ct = x /\ addr = a
      BY <1>1, <1>3, <2>2, Zenon DEF Stores
    <2>4. PICK k : k = srv'[c].cur
      OBVIOUS
    <2>5. k.id = addr.id /\ addr.offset \in DOMAIN k.body /\ k.body[addr.offset] = ct
      BY <2>2, <2>3, <2>4, Zenon DEF Stores
    <2>6. Holds(addr, ct)'
      BY <2>4, <2>5, HeldNext
    <2> QED  BY <1>1, <2>6 DEF Holds
  <1> QED  BY <1>2, <1>3
-----------------------------------------------------------------------------
(* The state of every client, session and container is well formed. *)
AtRest(c) == ClientOK(c) /\ Proto(c) /\ ServerOK(c) /\ Decoding(c)
BaseInv   == Shape /\ StoreOK /\ StoreInv /\ \A c \in Client : AtRest(c)

(* What a step never does: it does not restart the server. *)
LEMMA StaysUp == ASSUME NEW c \in Client, Step(c) PROVE method' = method /\ (serverUp' => serverUp)
  <1> USE DEF serverVars
  <1>1. CASE Abort(c) \/ RestoreUnknown(c)
    BY <1>1 DEF Abort, RestoreUnknown
  <1>2. CASE StartUpload(c) \/ StartRestore(c) \/ FillBatch(c) \/ RequestKeys(c) \/ EncryptBatch(c)
    <2>1. serverUp' = serverUp /\ method' = method
      BY <1>2, Zenon DEF StartUpload, StartRestore, FillBatch, RequestKeys, EncryptBatch
    <2> QED  BY <2>1
  <1>3. CASE EndUpload(c) \/ ReceiveChunks(c) \/ ExitRestore(c)
    <2>1. serverUp' = serverUp /\ method' = method
      BY <1>3, Zenon DEF EndUpload, ReceiveChunks, ExitRestore
    <2> QED  BY <2>1
  <1>4. CASE GenerateKeySeed(c) \/ ReplyKeys(c) \/ CloseKeyThread(c)
    BY <1>4 DEF GenerateKeySeed, ReplyKeys, CloseKeyThread
  <1>5. CASE \/ AdmitUpload(c) \/ ProcessRecipes(c) \/ ReceiveBatch(c) \/ QueryIndex(c)
             \/ StoreChunk(c) \/ ProcessRecipeEnd(c) \/ ConnectionClosed(c)
             \/ LastContainer(c) \/ EndSession(c) \/ SaveToFile(c)
    BY <1>5 DEF AdmitUpload, ProcessRecipes, ReceiveBatch, QueryIndex, StoreChunk, ProcessRecipeEnd,
         ConnectionClosed, LastContainer, EndSession, SaveToFile, Login, Receives
  <1>6. CASE RejectRestore(c) \/ AdmitRestore(c)
    BY <1>6 DEF RejectRestore, AdmitRestore, Login
  <1>7. CASE DecodeEntry(c) \/ DecodeTail(c)
    BY <1>7 DEF DecodeEntry, DecodeTail
  <1>8. CASE DecoderFails(c) \/ CloseRestore(c) \/ ClientFails(c) \/ Again(c)
    BY <1>8 DEF DecoderFails, CloseRestore, ClientFails, Again
  <1> QED  BY <1>1, <1>2, <1>3, <1>4, <1>5, <1>6, <1>7, <1>8 DEF Step

LEMMA FrameRest ==
    ASSUME Shape, NEW c \in Client, NEW d \in Client \ {c}, Step(c), Frame(d), AtRest(d)
    PROVE  AtRest(d)'
  <1>1. method' = method /\ (serverUp' => serverUp)
    BY StaysUp
  <1>2. ClientOK(d)'
    BY <1>1, ClientParts, SameClient DEF AtRest, Frame
  <1>3. ServerOK(d)' /\ Decoding(d)'
    BY SameServer DEF AtRest, Frame
  <1>4. Proto(d)'
    BY <1>1 DEF AtRest, Frame, Proto
  <1> QED  BY <1>2, <1>3, <1>4 DEF AtRest

LEMMA BaseStep ==
    ASSUME BaseInv, NEW c \in Client, Step(c)
    PROVE  /\ BaseInv' /\ \A d \in Client \ {c} : Frame(d)
           /\ \/ Untouched(c) \/ Closes(c) \/ Opens(c) \/ Queues(c) \/ Writes(c)
              \/ \E ct, addr : Stores(c, ct, addr)
           /\ \A addr, ct : Holds(addr, ct) => Holds(addr, ct)'
           /\ AddressesResolve => AddressesResolve'
  <1>1. Shape /\ StoreOK /\ StoreInv /\ ClientOK(c) /\ Proto(c) /\ ServerOK(c) /\ Decoding(c)
    BY DEF BaseInv, AtRest
  <1>2. Shape' /\ \A d \in Client \ {c} : Frame(d)
    BY <1>1, StepFrame
  <1>3. \/ Untouched(c) \/ Closes(c) \/ Opens(c) \/ Queues(c) \/ Writes(c)
        \/ \E ct, addr : Stores(c, ct, addr)
    BY <1>1, StoreStep
  <1>4. StoreOK'
    BY <1>1, <1>3, StoreOKStep
  <1>5. StoreInv'
    BY <1>1, <1>2, <1>3, StoreInvStep
  <1>6. AddressesResolve => AddressesResolve'
    BY <1>1, <1>2, <1>3, ResolveStep
  <1>7. ASSUME NEW addr, NEW ct, Holds(addr, ct) PROVE Holds(addr, ct)'
    BY <1>1, <1>2, <1>3, <1>7, HoldsStep
  <1>8. AtRest(c)'
    <2>1. ClientOK(c)'
      BY <1>1, ClientStep
    <2>2. ServerOK(c)' /\ Decoding(c)'
      BY <1>1, ServerStep
    <2>3. DOMAIN srv[c] = DOMAIN Session
      BY <1>1 DEF ServerOK, SessionOK, Session
    <2>4. Proto(c)'
      BY <1>1, <2>3, ProtoStep
    <2> QED  BY <2>1, <2>2, <2>4 DEF AtRest
  <1>9. \A d \in Client \ {c} : AtRest(d)'
    BY <1>1, <1>2, FrameRest DEF BaseInv
  <1> QED  BY <1>2, <1>3, <1>4, <1>5, <1>6, <1>7, <1>8, <1>9 DEF BaseInv

(* A restart keeps what is on disk and forgets the rest. *)
LEMMA BaseRestart ==
    ASSUME BaseInv, RestartServer
    PROVE  BaseInv' /\ AddressesResolve'
  <1>1. /\ method' = method /\ plan' = plan /\ client' = client /\ localKeys' = localKeys /\ toClient' = toClient
        /\ km' = km /\ disk' = disk /\ uuids' = uuids /\ index' = <<>> /\ serverUp'
        /\ srv' = [c \in Client |-> Session] /\ toServer' = [c \in Client |-> <<>>]
        /\ DOMAIN recipe' = Client /\ DOMAIN keyRecipe' = Client /\ DOMAIN committed' = Client
        /\ \A c \in Client : /\ client[c].op \notin Uploading \cup Restoring
                             /\ recipe'[c] \in {BlankRecipe, recipe[c]}
    BY DEF RestartServer, kmVars
  <1>2. DOMAIN index' = {}
    BY <1>1
  <1>3. Shape'
    BY <1>1 DEF BaseInv, Shape
  <1>4. StoreOK'
    BY <1>1, <1>2 DEF BaseInv, StoreOK
  <1>5. AddressesResolve'
    BY <1>2 DEF AddressesResolve
  <1>6. \A c \in Client : srv'[c] = Session /\ toServer'[c] = <<>>
    BY <1>1
  <1>7. StoreInv'
    <2>1. \A c \in Client : Queued(c)' = {}
      BY <1>6 DEF Queued, Session
    <2>2. OnDiskC' = OnDiskC
      BY <1>1 DEF OnDiskC
    <2>3. \A x : x \in Written' => x \in Written
      BY <2>1, <2>2, WrittenIs, WrittenNext
    <2>4. \A c \in Client : ~Open(c)'
      BY <1>6 DEF Open, Session, OpenPcs
    <2> QED  BY <1>1, <2>3, <2>4 DEF BaseInv, StoreInv
  <1>8. ASSUME NEW c \in Client PROVE AtRest(c)'
    <2>1. ClientOK(c) /\ ServerOK(c)
      BY DEF BaseInv, AtRest
    <2>2. ClientOK(c)'
      <3>1. <<>> \in Seq(Msg)
        OBVIOUS
      <3> QED  BY <1>1, <1>6, <2>1, <3>1, ClientParts, SameClient
    <2>3. Proto(c)'
      <3>1. client'[c].op \notin Uploading \cup Restoring /\ srv'[c].pc = "none" /\ toServer'[c] = <<>>
        BY <1>1, <1>6 DEF Session
      <3> QED  BY <3>1 DEF Proto, ProtoAt, Uploading, Restoring, Sending, Quiet
    <2>4. recipe'[c] \in Recipe \cup {NoFile}
      <3>1. BlankRecipe \in Recipe
        BY DEF BlankRecipe, Recipe
      <3> QED  BY <1>1, <2>1, <3>1, ServerParts
    <2>5. ServerOK(c)' /\ Decoding(c)'
      BY <1>6, <2>4, SessionIs DEF ServerOK, Decoding, OpenPcs
    <2> QED  BY <2>2, <2>3, <2>5 DEF AtRest
  <1> QED  BY <1>3, <1>4, <1>5, <1>7, <1>8 DEF BaseInv

LEMMA BaseInit == Init => BaseInv /\ AddressesResolve
  <1> SUFFICES ASSUME Init PROVE BaseInv /\ AddressesResolve
    OBVIOUS
  <1>1. /\ client = [c \in Client |-> Process] /\ localKeys = [c \in Client |-> NoFile]
        /\ toServer = [c \in Client |-> <<>>] /\ toClient = [c \in Client |-> <<>>]
        /\ km = [c \in Client |-> KMThread] /\ srv = [c \in Client |-> Session]
        /\ recipe = [c \in Client |-> NoFile] /\ keyRecipe = [c \in Client |-> NoFile]
        /\ index = <<>> /\ disk = <<>> /\ uuids = 0 /\ serverUp
        /\ committed = [c \in Client |-> NoFile]
    BY DEF Init
  <1>2. method \in Methods /\ plan \in [Client -> Seq(Seq(Seq(Chunk)))]
    BY DaEAssumption DEF Init, Methods
  <1>3. Shape
    BY <1>1, <1>2 DEF Shape
  <1>4. DOMAIN index = {} /\ DOMAIN disk = {}
    BY <1>1
  <1>5. StoreOK /\ AddressesResolve
    BY <1>1, <1>4 DEF StoreOK, AddressesResolve
  <1>6. StoreInv
    <2>1. \A c \in Client : Queued(c) = {}
      BY <1>1 DEF Queued, Session
    <2>2. OnDiskC = {}
      BY <1>4 DEF OnDiskC
    <2>3. \A x : x \notin Written
      BY <2>1, <2>2, WrittenIs
    <2>4. \A c \in Client : ~Open(c)
      BY <1>1 DEF Open, Session, OpenPcs
    <2> QED  BY <2>3, <2>4 DEF StoreInv
  <1>7. ASSUME NEW c \in Client PROVE AtRest(c)
    <2>1. /\ client[c] = Process /\ toServer[c] = <<>> /\ km[c] = KMThread /\ srv[c] = Session
          /\ recipe[c] = NoFile
      BY <1>1
    <2>2. <<>> \in Seq(Msg) /\ <<>> \in Seq(Chunk) /\ <<>> \in Seq(Seed)
      OBVIOUS
    <2>3. ThreadOK(Process, KMThread)
      BY <2>2 DEF ThreadOK, Process, KMThread, Batching, Uploading
    <2>4. ClientOK(c)
      BY <1>2, <2>1, <2>2, <2>3, IdleOK DEF ClientOK
    <2>5. Proto(c)
      BY <2>1 DEF Proto, ProtoAt, Process, Session, Quiet, Sending
    <2>6. ServerOK(c) /\ Decoding(c)
      BY <2>1, SessionIs DEF ServerOK, Decoding, OpenPcs
    <2> QED  BY <2>4, <2>5, <2>6 DEF AtRest
  <1> QED  BY <1>3, <1>5, <1>6, <1>7 DEF BaseInv

LEMMA BaseAside ==
    ASSUME BaseInv, AddressesResolve, Aside
    PROVE  BaseInv' /\ AddressesResolve'
  <1>1. UNCHANGED <<method, plan, client, localKeys, toServer, toClient, km, srv, recipe, keyRecipe,
                    index, disk, uuids, serverUp, committed>>
    BY DEF Aside
  <1>2. Shape' /\ StoreOK' /\ AddressesResolve'
    BY <1>1 DEF BaseInv, Shape, StoreOK, AddressesResolve, Holds, Held
  <1>3. StoreInv'
    BY <1>1 DEF BaseInv, StoreInv, Written, OnDiskC, Queued, Open
  <1>4. ASSUME NEW c \in Client PROVE AtRest(c)'
    <2>1. ClientOK(c)'
      BY <1>1, ClientParts, SameClient DEF BaseInv, AtRest
    <2>2. ServerOK(c)' /\ Decoding(c)'
      BY <1>1, SameServer DEF BaseInv, AtRest
    <2>3. Proto(c)'
      BY <1>1 DEF BaseInv, AtRest, Proto
    <2> QED  BY <2>1, <2>2, <2>3 DEF AtRest
  <1> QED  BY <1>2, <1>3, <1>4 DEF BaseInv

(* Whatever the server's index refers to is held, on disk or by a session     *)
(* that still has to write it, and is the ciphertext with that hash: for every *)
(* interleaving of the clients, every loss of one, and every restart.         *)
THEOREM IndexResolves == Spec => []AddressesResolve
  <1>1. Init => BaseInv /\ AddressesResolve
    BY BaseInit
  <1>2. BaseInv /\ AddressesResolve /\ [Next]_vars => (BaseInv /\ AddressesResolve)'
    BY StepsAre, BaseStep, BaseRestart, BaseAside
  <1> QED  BY <1>1, <1>2, PTL DEF Spec
-----------------------------------------------------------------------------
(* Streams: the items of the messages of some types, put together, are the    *)
(* part of F between two places.                                             *)
ItemsOf(msg, T) == IF msg.type \in T THEN msg.items ELSE <<>>
Laid(at, msgs, T, i, F, j) ==
    /\ j \in Nat /\ at \in [0 .. Len(msgs) -> 0 .. j] /\ at[0] = i /\ at[Len(msgs)] = j
    /\ \A n \in 1 .. Len(msgs) : Piece(ItemsOf(msgs[n], T), F, at[n - 1], at[n])
Stream(F, i, msgs, T, j) == \E at : Laid(at, msgs, T, i, F, j)

LEMMA StreamRange ==
    ASSUME NEW F, NEW i, NEW msgs, NEW T, NEW j, Stream(F, i, msgs, T, j), Len(msgs) \in Nat
    PROVE  i \in Nat /\ j \in Nat /\ i <= j
  <1>1. PICK at : Laid(at, msgs, T, i, F, j)
    BY DEF Stream
  <1>2. j \in Nat /\ at \in [0 .. Len(msgs) -> 0 .. j] /\ at[0] = i /\ 0 \in 0 .. Len(msgs)
    BY <1>1 DEF Laid
  <1>3. i \in 0 .. j
    BY <1>2
  <1> QED  BY <1>2, <1>3

LEMMA StreamNone == ASSUME NEW F, NEW i \in Nat, NEW T PROVE Stream(F, i, <<>>, T, i)
  <1> DEFINE at == [n \in 0 .. 0 |-> i]
  <1>1. Len(<<>>) = 0 /\ at \in [0 .. 0 -> 0 .. i] /\ at[0] = i /\ 1 .. 0 = {}
    OBVIOUS
  <1> HIDE DEF at
  <1>2. Laid(at, <<>>, T, i, F, i)
    BY <1>1 DEF Laid
  <1> QED  BY <1>2 DEF Stream

LEMMA StreamOfNone ==
    ASSUME NEW F, NEW i, NEW T, NEW j, Stream(F, i, <<>>, T, j) PROVE i = j
  BY DEF Stream, Laid

LEMMA StreamOne ==
    ASSUME NEW F, NEW i, NEW msg, NEW T, NEW j, Piece(ItemsOf(msg, T), F, i, j)
    PROVE  Stream(F, i, <<msg>>, T, j)
  <1> DEFINE at == [n \in 0 .. 1 |-> IF n = 0 THEN i ELSE j]
  <1>1. i \in Nat /\ j \in Nat /\ i <= j
    BY DEF Piece
  <1>2. Len(<<msg>>) = 1 /\ <<msg>>[1] = msg /\ 1 - 1 = 0
    OBVIOUS
  <1>3. at \in [0 .. 1 -> 0 .. j] /\ at[0] = i /\ at[1] = j
    BY <1>1
  <1> HIDE DEF at
  <1>4. \A n \in 1 .. 1 : n = 1
    OBVIOUS
  <1>5. Laid(at, <<msg>>, T, i, F, j)
    BY <1>1, <1>2, <1>3, <1>4 DEF Laid
  <1> QED  BY <1>5 DEF Stream

LEMMA StreamConcat ==
    ASSUME NEW S, NEW msgs \in Seq(S), NEW more \in Seq(S), NEW F, NEW T, NEW i, NEW j, NEW k,
           Stream(F, i, msgs, T, j), Stream(F, j, more, T, k)
    PROVE  Stream(F, i, msgs \o more, T, k)
  <1>1. PICK at, to, N, M, new : /\ Laid(at, msgs, T, i, F, j) /\ Laid(to, more, T, j, F, k)
                                 /\ N = Len(msgs) /\ M = Len(more) /\ new = msgs \o more
    BY DEF Stream
  <1>2. /\ N \in Nat /\ M \in Nat /\ Len(new) = N + M /\ j \in Nat /\ k \in Nat
        /\ at \in [0 .. N -> 0 .. j] /\ at[0] = i /\ at[N] = j
        /\ to \in [0 .. M -> 0 .. k] /\ to[0] = j /\ to[M] = k
    BY <1>1, ConcatIs DEF Laid
  <1>3. /\ \A n \in 1 .. N : new[n] = msgs[n]
        /\ \A n \in 1 .. M : new[N + n] = more[n]
    BY <1>1, ConcatIs
  <1>4. /\ \A n \in 1 .. N : Piece(ItemsOf(msgs[n], T), F, at[n - 1], at[n])
        /\ \A n \in 1 .. M : Piece(ItemsOf(more[n], T), F, to[n - 1], to[n])
    BY <1>1 DEF Laid
  <1> DEFINE a == [n \in 0 .. N + M |-> IF n <= N THEN at[n] ELSE to[n - N]]
  <1>5. j <= k
    <2>1. 0 \in 0 .. M /\ to[0] \in 0 .. k
      BY <1>2
    <2> QED  BY <1>2, <2>1
  <1>6. ASSUME NEW n \in 0 .. N + M PROVE a[n] \in 0 .. k
    <2>1. CASE n <= N
      <3>1. n \in 0 .. N /\ a[n] = at[n]
        BY <1>2, <2>1
      <3>2. at[n] \in 0 .. j
        BY <1>2, <3>1
      <3> QED  BY <1>2, <1>5, <3>1, <3>2
    <2>2. CASE ~(n <= N)
      <3>1. n - N \in 0 .. M /\ a[n] = to[n - N]
        BY <1>2, <2>2
      <3> QED  BY <1>2, <3>1
    <2> QED  BY <2>1, <2>2
  <1>7. \A n \in 0 .. N : a[n] = at[n]
    BY <1>2
  <1>8. ASSUME NEW n \in 0 .. M PROVE a[N + n] = to[n]
    <2>1. CASE n = 0
      <3>1. N + n = N /\ N \in 0 .. N
        BY <1>2, <2>1
      <3>2. a[N] = at[N]
        BY <1>7, <3>1
      <3> QED  BY <1>2, <2>1, <3>1, <3>2
    <2>2. CASE n # 0
      <3>1. N + n \in 0 .. N + M /\ ~(N + n <= N) /\ (N + n) - N = n
        BY <1>2, <2>2
      <3> QED  BY <3>1
    <2> QED  BY <2>1, <2>2
  <1>9. a \in [0 .. N + M -> 0 .. k]
    BY <1>6
  <1> HIDE DEF a
  <1>10. a[0] = i /\ a[N + M] = k
    <2>1. 0 \in 0 .. N /\ M \in 0 .. M
      BY <1>2
    <2> QED  BY <1>2, <1>7, <1>8, <2>1
  <1>11. ASSUME NEW n \in 1 .. N + M PROVE Piece(ItemsOf(new[n], T), F, a[n - 1], a[n])
    <2>1. CASE n <= N
      <3>1. n \in 1 .. N /\ n \in 0 .. N /\ n - 1 \in 0 .. N
        BY <1>2, <2>1
      <3>2. new[n] = msgs[n] /\ a[n] = at[n] /\ a[n - 1] = at[n - 1]
        BY <1>3, <1>7, <3>1
      <3> QED  BY <1>4, <3>1, <3>2
    <2>2. CASE ~(n <= N)
      <3>1. PICK m : m = n - N
        OBVIOUS
      <3>2. m \in 1 .. M /\ m \in 0 .. M /\ m - 1 \in 0 .. M /\ N + m = n /\ N + (m - 1) = n - 1
        BY <1>2, <2>2, <3>1
      <3>3. new[n] = more[m]
        BY <1>3, <3>2
      <3>4. a[n] = to[m] /\ a[n - 1] = to[m - 1]
        <4>1. a[N + m] = to[m] /\ a[N + (m - 1)] = to[m - 1]
          BY <1>8, <3>2
        <4> QED  BY <3>2, <4>1
      <3> QED  BY <1>4, <3>2, <3>3, <3>4
    <2> QED  BY <2>1, <2>2
  <1>12. Laid(a, new, T, i, F, k)
    BY <1>2, <1>9, <1>10, <1>11 DEF Laid
  <1> QED  BY <1>1, <1>12 DEF Stream

LEMMA StreamHeadTail ==
    ASSUME NEW S, NEW msgs \in Seq(S), msgs # <<>>, NEW F, NEW T, NEW i, NEW j, Stream(F, i, msgs, T, j)
    PROVE  \E m : Piece(ItemsOf(Head(msgs), T), F, i, m) /\ Stream(F, m, Tail(msgs), T, j)
  <1>1. PICK at, N, m, rest : Laid(at, msgs, T, i, F, j) /\ N = Len(msgs) /\ m = at[1] /\ rest = Tail(msgs)
    BY DEF Stream
  <1>2. N \in Nat /\ N > 0 /\ Head(msgs) = msgs[1] /\ 1 \in 1 .. N
        /\ j \in Nat /\ at \in [0 .. N -> 0 .. j] /\ at[0] = i /\ at[N] = j
    BY <1>1 DEF Laid
  <1>3. Len(rest) = N - 1 /\ \A n \in 1 .. N - 1 : rest[n] = msgs[n + 1]
    BY <1>1, MsgTail
  <1>4. \A n \in 1 .. N : Piece(ItemsOf(msgs[n], T), F, at[n - 1], at[n])
    BY <1>1 DEF Laid
  <1> DEFINE a == [n \in 0 .. N - 1 |-> at[n + 1]]
  <1>5. /\ a \in [0 .. N - 1 -> 0 .. j] /\ a[0] = m /\ a[N - 1] = j
        /\ \A n \in 0 .. N - 1 : a[n] = at[n + 1]
    BY <1>1, <1>2
  <1>6. Piece(ItemsOf(Head(msgs), T), F, i, m)
    <2>1. Piece(ItemsOf(msgs[1], T), F, at[1 - 1], at[1]) /\ 1 - 1 = 0
      BY <1>2, <1>4
    <2> QED  BY <1>1, <1>2, <2>1
  <1> HIDE DEF a
  <1>7. ASSUME NEW n \in 1 .. N - 1 PROVE Piece(ItemsOf(rest[n], T), F, a[n - 1], a[n])
    <2>1. n + 1 \in 1 .. N /\ n - 1 \in 0 .. N - 1 /\ n \in 0 .. N - 1
          /\ (n - 1) + 1 = n /\ (n + 1) - 1 = n
      BY <1>2
    <2>2. Piece(ItemsOf(msgs[n + 1], T), F, at[(n + 1) - 1], at[n + 1])
      BY <1>4, <2>1
    <2>3. a[n - 1] = at[n] /\ a[n] = at[n + 1] /\ rest[n] = msgs[n + 1]
      BY <1>3, <1>5, <2>1
    <2> QED  BY <2>1, <2>2, <2>3
  <1>8. Laid(a, rest, T, m, F, j)
    BY <1>2, <1>3, <1>5, <1>7 DEF Laid
  <1> QED  BY <1>1, <1>6, <1>8 DEF Stream

(* A stream of F is one of every G that agrees with it so far. *)
LEMMA PieceGrows ==
    ASSUME NEW s, NEW F, NEW G, NEW i, NEW j, Piece(s, F, i, j), \A n \in 1 .. j : F[n] = G[n]
    PROVE  Piece(s, G, i, j)
  <1>1. i \in Nat /\ j \in Nat /\ i <= j /\ Len(s) = j - i /\ \A n \in 1 .. Len(s) : s[n] = F[i + n]
    BY DEF Piece
  <1>2. ASSUME NEW n \in 1 .. Len(s) PROVE s[n] = G[i + n]
    <2>1. i + n \in 1 .. j
      BY <1>1
    <2> QED  BY <1>1, <2>1
  <1> QED  BY <1>1, <1>2 DEF Piece

LEMMA StreamGrows ==
    ASSUME NEW S, NEW msgs \in Seq(S), NEW F, NEW G, NEW T, NEW i, NEW j, Stream(F, i, msgs, T, j),
           \A n \in 1 .. j : F[n] = G[n]
    PROVE  Stream(G, i, msgs, T, j)
  <1>1. PICK at, N : Laid(at, msgs, T, i, F, j) /\ N = Len(msgs)
    BY DEF Stream
  <1>2. N \in Nat /\ j \in Nat /\ at \in [0 .. N -> 0 .. j] /\ at[0] = i /\ at[N] = j
        /\ \A n \in 1 .. N : Piece(ItemsOf(msgs[n], T), F, at[n - 1], at[n])
    BY <1>1 DEF Laid
  <1>3. ASSUME NEW n \in 1 .. N PROVE Piece(ItemsOf(msgs[n], T), G, at[n - 1], at[n])
    <2>1. PICK x, a, b : x = ItemsOf(msgs[n], T) /\ a = at[n - 1] /\ b = at[n]
      OBVIOUS
    <2>2. n \in 0 .. N
      BY <1>2
    <2>3. b \in 0 .. j
      BY <1>2, <2>1, <2>2
    <2>4. \A m \in 1 .. b : F[m] = G[m]
      BY <1>2, <2>3
    <2>5. Piece(x, F, a, b)
      BY <1>2, <2>1
    <2>6. Piece(x, G, a, b)
      BY ONLY <2>4, <2>5, PieceGrows
    <2> QED  BY <2>1, <2>6
  <1>4. Laid(at, msgs, T, i, G, j)
    BY <1>1, <1>2, <1>3 DEF Laid
  <1> QED  BY <1>4 DEF Stream

LEMMA PieceConcat ==
    ASSUME NEW S, NEW s \in Seq(S), NEW u \in Seq(S), NEW F, NEW i, NEW j, NEW k,
           Piece(s, F, i, j), Piece(u, F, j, k)
    PROVE  Piece(s \o u, F, i, k)
  <1>1. PICK v, a, b : v = s \o u /\ a = Len(s) /\ b = Len(u)
    OBVIOUS
  <1>2. /\ i \in Nat /\ j \in Nat /\ k \in Nat /\ i <= j /\ j <= k /\ a = j - i /\ b = k - j
        /\ a \in Nat /\ b \in Nat
        /\ \A n \in 1 .. a : s[n] = F[i + n]
        /\ \A n \in 1 .. b : u[n] = F[j + n]
    BY <1>1 DEF Piece
  <1>3. /\ Len(v) = a + b /\ \A n \in 1 .. a : v[n] = s[n]
        /\ \A n \in 1 .. b : v[a + n] = u[n]
    BY <1>1, ConcatIs
  <1>4. ASSUME NEW n \in 1 .. a + b PROVE v[n] = F[i + n]
    <2>1. CASE n <= a
      <3>1. n \in 1 .. a
        BY <1>2, <2>1
      <3> QED  BY <1>2, <1>3, <3>1
    <2>2. CASE ~(n <= a)
      <3>1. PICK m : m = n - a
        OBVIOUS
      <3>2. m \in 1 .. b /\ a + m = n /\ j + m = i + n
        BY <1>2, <2>2, <3>1
      <3>3. v[a + m] = F[j + m]
        BY <1>2, <1>3, <3>2
      <3> QED  BY <3>2, <3>3
    <2> QED  BY <2>1, <2>2
  <1>5. a + b = k - i /\ i <= k
    BY <1>2
  <1> QED  BY <1>1, <1>2, <1>3, <1>4, <1>5 DEF Piece

LEMMA PieceNone == ASSUME NEW F, NEW i \in Nat PROVE Piece(<<>>, F, i, i)
  BY DEF Piece

LEMMA PieceOfNone == ASSUME NEW F, NEW i, NEW j, Piece(<<>>, F, i, j) PROVE i = j
  <1>1. i \in Nat /\ j \in Nat /\ Len(<<>>) = j - i /\ Len(<<>>) = 0
    BY DEF Piece
  <1> QED  BY <1>1

LEMMA StreamSilent ==
    ASSUME NEW F, NEW i \in Nat, NEW msg, NEW T, msg.type \notin T, NEW u, u = <<>> \/ u = <<msg>>
    PROVE  Stream(F, i, u, T, i)
  <1>1. ItemsOf(msg, T) = <<>>
    BY DEF ItemsOf
  <1>2. Piece(ItemsOf(msg, T), F, i, i)
    BY <1>1, PieceNone
  <1> QED  BY <1>2, StreamOne, StreamNone

LEMMA StreamSkip ==
    ASSUME NEW S, NEW msgs \in Seq(S), msgs # <<>>, NEW F, NEW T, NEW i, NEW j, Stream(F, i, msgs, T, j),
           Head(msgs).type \notin T
    PROVE  Stream(F, i, Tail(msgs), T, j)
  <1>1. PICK m : Piece(ItemsOf(Head(msgs), T), F, i, m) /\ Stream(F, m, Tail(msgs), T, j)
    BY StreamHeadTail
  <1>2. ItemsOf(Head(msgs), T) = <<>>
    BY DEF ItemsOf
  <1>3. i = m
    BY <1>1, <1>2, PieceOfNone
  <1> QED  BY <1>1, <1>3

LEMMA StreamTake ==
    ASSUME NEW S, NEW msgs \in Seq(S), msgs # <<>>, NEW F, NEW T, NEW i, NEW j, Stream(F, i, msgs, T, j),
           Head(msgs).type \in T
    PROVE  \E m : Piece(Head(msgs).items, F, i, m) /\ Stream(F, m, Tail(msgs), T, j)
  <1>1. PICK m : Piece(ItemsOf(Head(msgs), T), F, i, m) /\ Stream(F, m, Tail(msgs), T, j)
    BY StreamHeadTail
  <1>2. ItemsOf(Head(msgs), T) = Head(msgs).items
    BY DEF ItemsOf
  <1> QED  BY <1>1, <1>2

(* Three more messages at the end of a stream. *)
LEMMA StreamThree ==
    ASSUME NEW S, NEW msgs \in Seq(S), NEW r \in Seq(S), NEW k \in Seq(S), NEW e \in Seq(S), NEW F, NEW T,
           NEW i, NEW j, NEW x, NEW y, NEW z, Stream(F, i, msgs, T, j), Stream(F, j, r, T, x),
           Stream(F, x, k, T, y), Stream(F, y, e, T, z)
    PROVE  Stream(F, i, msgs \o (r \o k \o e), T, z)
  <1>1. r \o k \in Seq(S) /\ (r \o k) \o e \in Seq(S)
    OBVIOUS
  <1>2. Stream(F, j, r \o k, T, y)
    BY StreamConcat
  <1>3. Stream(F, j, (r \o k) \o e, T, z)
    BY <1>1, <1>2, StreamConcat
  <1> QED  BY <1>1, <1>3, StreamConcat

(* The ciphertexts and the key recipe of a file that is encrypted with keys. *)
Cts(f, keys)  == [n \in 1 .. Len(keys) |-> Encrypt(f[n], keys[n])]
Ents(f, keys) == [n \in 1 .. Len(keys) |-> [hash |-> Encrypt(f[n], keys[n]), key |-> keys[n]]]

(* More keys: cts and ents are the new part of both. *)
Grown(f, keys, all, cts, ents, j) ==
    /\ Len(all) = j /\ Len(keys) \in Nat /\ Len(keys) <= j
    /\ Piece(cts, Cts(f, all), Len(keys), j)
    /\ Piece(ents, Ents(f, all), Len(keys), j)
    /\ \A n \in 1 .. Len(keys) : /\ Cts(f, keys)[n] = Cts(f, all)[n]
                                 /\ Ents(f, keys)[n] = Ents(f, all)[n]

LEMMA SealedMore ==
    ASSUME NEW f, NEW keys \in Seq(Key), NEW plain \in Seq(Chunk), NEW ks, NEW cts, NEW ents, NEW j,
           Sealed(plain, ks, cts, ents), Piece(plain, f, Len(keys), j), NEW all, all = keys \o ks
    PROVE  Grown(f, keys, all, cts, ents, j)
  <1>1. PICK a, b : a = Len(keys) /\ b = Len(plain)
    OBVIOUS
  <1>2. /\ ks \in Seq(Key) /\ Len(ks) = b /\ Len(cts) = b /\ Len(ents) = b /\ a \in Nat /\ b \in Nat
        /\ \A n \in 1 .. b : /\ cts[n] = Encrypt(plain[n], ks[n])
                             /\ ents[n] = [hash |-> cts[n], key |-> ks[n]]
    BY <1>1 DEF Sealed
  <1>3. /\ Len(all) = a + b /\ \A n \in 1 .. a : all[n] = keys[n]
        /\ \A n \in 1 .. b : all[a + n] = ks[n]
    <2>0. ks \in Seq(Key) /\ keys \in Seq(Key)
      BY <1>2
    <2>1. /\ Len(keys \o ks) = Len(keys) + Len(ks)
          /\ \A n \in 1 .. Len(keys) : (keys \o ks)[n] = keys[n]
          /\ \A n \in 1 .. Len(ks) : (keys \o ks)[Len(keys) + n] = ks[n]
      BY ONLY <2>0, ConcatIs
    <2> QED  BY <1>1, <1>2, <2>1
  <1>4. j \in Nat /\ a <= j /\ b = j - a /\ \A n \in 1 .. b : plain[n] = f[a + n]
    BY <1>1 DEF Piece
  <1>5. a + b = j
    BY <1>2, <1>4
  <1> DEFINE G == Cts(f, all)
             F == Ents(f, all)
  <1>6. \A n \in 1 .. j : /\ G[n] = Encrypt(f[n], all[n])
                          /\ F[n] = [hash |-> Encrypt(f[n], all[n]), key |-> all[n]]
    BY <1>3, <1>5 DEF Cts, Ents
  <1>7. ASSUME NEW n \in 1 .. b PROVE cts[n] = G[a + n] /\ ents[n] = F[a + n]
    <2>1. a + n \in 1 .. j
      BY <1>2, <1>5
    <2>2. all[a + n] = ks[n] /\ plain[n] = f[a + n]
      BY <1>3, <1>4
    <2> HIDE DEF G, F
    <2>3. PICK i : i = a + n
      OBVIOUS
    <2>4. /\ G[i] = Encrypt(plain[n], ks[n])
          /\ F[i] = [hash |-> Encrypt(plain[n], ks[n]), key |-> ks[n]]
      BY <1>6, <2>1, <2>2, <2>3
    <2> QED  BY <1>2, <2>3, <2>4
  <1>8. ASSUME NEW n \in 1 .. a PROVE Cts(f, keys)[n] = G[n] /\ Ents(f, keys)[n] = F[n]
    <2>1. n \in 1 .. j
      BY <1>2, <1>4
    <2>2. all[n] = keys[n]
      BY <1>3
    <2>3. Cts(f, keys)[n] = Encrypt(f[n], keys[n])
          /\ Ents(f, keys)[n] = [hash |-> Encrypt(f[n], keys[n]), key |-> keys[n]]
      BY <1>1 DEF Cts, Ents
    <2> HIDE DEF G, F
    <2> QED  BY <1>6, <2>1, <2>2, <2>3
  <1> HIDE DEF G, F
  <1>9. Piece(cts, G, a, j) /\ Piece(ents, F, a, j)
    BY <1>2, <1>4, <1>7 DEF Piece
  <1> QED  BY <1>1, <1>2, <1>3, <1>4, <1>5, <1>8, <1>9 DEF G, F, Grown

RecipeFlow(F, n, list, msgs, kr) ==
    /\ Piece(kr, F, 0, Len(kr))
    /\ \E to : Stream(F, Len(kr), msgs, {"CLIENT_UPLOAD_RECIPE"}, to) /\ Piece(list, F, to, n)
ChunkFlow(G, n, addrs, rest, msgs) ==
    /\ Piece(rest, G, Len(addrs), Len(addrs) + Len(rest))
    /\ Stream(G, Len(addrs) + Len(rest), msgs, {"CLIENT_UPLOAD_CHUNK"}, n)

(* What EncryptBatch and EndUpload send continues both streams. *)
LEMMA RecipeFlowSent ==
    ASSUME NEW F, NEW G, NEW n, NEW m, NEW list \in Seq(KeyEntry), NEW ents \in Seq(KeyEntry),
           NEW msgs \in Seq(Msg), NEW kr, NEW r \in Seq(Msg), NEW k \in Seq(Msg), NEW e \in Seq(Msg),
           RecipeFlow(F, n, list, msgs, kr), \A i \in 1 .. n : F[i] = G[i], Piece(ents, G, n, m),
           NEW out, Len(kr) \in Nat,
           \/ r = <<>> /\ out = list \o ents
           \/ r = <<Message("CLIENT_UPLOAD_RECIPE", list \o ents)>> /\ out = <<>>,
           NEW cts, k = <<>> \/ k = <<Message("CLIENT_UPLOAD_CHUNK", cts)>>,
           NEW pos, e = <<>> \/ e = <<Message("CLIENT_UPLOAD_RECIPE_END", pos)>>
    PROVE  RecipeFlow(G, m, out, msgs \o (r \o k \o e), kr)
  <1> DEFINE T == {"CLIENT_UPLOAD_RECIPE"}
  <1>1. PICK to : Stream(F, Len(kr), msgs, T, to) /\ Piece(list, F, to, n) /\ Piece(kr, F, 0, Len(kr))
    BY DEF RecipeFlow
  <1>2. Len(msgs) \in Nat
    OBVIOUS
  <1>3. to \in Nat /\ Len(kr) <= to /\ n \in Nat /\ to <= n /\ m \in Nat
    BY <1>1, <1>2, StreamRange DEF Piece
  <1>4. /\ \A i \in 1 .. to : F[i] = G[i]
        /\ \A i \in 1 .. Len(kr) : F[i] = G[i]
    BY <1>3
  <1> HIDE DEF T
  <1>5. Stream(G, Len(kr), msgs, T, to)
    BY <1>1, <1>4, StreamGrows
  <1>6. Piece(kr, G, 0, Len(kr)) /\ Piece(list, G, to, n)
    BY <1>1, <1>4, PieceGrows
  <1>7. Piece(list \o ents, G, to, m)
    BY <1>6, PieceConcat
  <1>8. PICK x : Stream(G, to, r, T, x) /\ x \in Nat /\ Piece(out, G, x, m)
    <2>1. CASE r = <<>> /\ out = list \o ents
      <3>1. Stream(G, to, r, T, to)
        BY <1>3, <2>1, StreamNone
      <3> QED  BY <1>3, <1>7, <2>1, <3>1
    <2>2. CASE r = <<Message("CLIENT_UPLOAD_RECIPE", list \o ents)>> /\ out = <<>>
      <3>1. PICK msg : msg = Message("CLIENT_UPLOAD_RECIPE", list \o ents)
        OBVIOUS
      <3>2. ItemsOf(msg, T) = list \o ents
        BY <3>1 DEF Message, ItemsOf, T
      <3>3. Stream(G, to, <<msg>>, T, m)
        BY <1>7, <3>2, StreamOne
      <3>4. Piece(<<>>, G, m, m)
        BY <1>3, PieceNone
      <3> QED  BY <1>3, <2>2, <3>1, <3>3, <3>4
    <2> QED  BY <2>1, <2>2
  <1>9. Stream(G, x, k, T, x)
    <2>1. PICK msg : msg = Message("CLIENT_UPLOAD_CHUNK", cts)
      OBVIOUS
    <2>2. msg.type \notin T /\ (k = <<>> \/ k = <<msg>>)
      BY <2>1 DEF Message, T
    <2> QED  BY <1>8, <2>2, StreamSilent
  <1>10. Stream(G, x, e, T, x)
    <2>1. PICK msg : msg = Message("CLIENT_UPLOAD_RECIPE_END", pos)
      OBVIOUS
    <2>2. msg.type \notin T /\ (e = <<>> \/ e = <<msg>>)
      BY <2>1 DEF Message, T
    <2> QED  BY <1>8, <2>2, StreamSilent
  <1>11. Stream(G, Len(kr), msgs \o (r \o k \o e), T, x)
    BY ONLY <1>5, <1>8, <1>9, <1>10, StreamThree, msgs \in Seq(Msg), r \in Seq(Msg), k \in Seq(Msg), e \in Seq(Msg)
  <1> QED  BY <1>6, <1>8, <1>11 DEF RecipeFlow, T

LEMMA ChunkFlowSent ==
    ASSUME NEW F, NEW G, NEW n \in Nat, NEW m \in Nat, NEW cts \in Seq(Ciphertext), NEW addrs, NEW rest,
           NEW msgs \in Seq(Msg), NEW r \in Seq(Msg), NEW k \in Seq(Msg), NEW e \in Seq(Msg),
           ChunkFlow(F, n, addrs, rest, msgs), \A i \in 1 .. n : F[i] = G[i], Piece(cts, G, n, m),
           NEW list, r = <<>> \/ r = <<Message("CLIENT_UPLOAD_RECIPE", list)>>,
           (k = <<>> /\ cts = <<>>) \/ k = <<Message("CLIENT_UPLOAD_CHUNK", cts)>>,
           NEW pos, e = <<>> \/ e = <<Message("CLIENT_UPLOAD_RECIPE_END", pos)>>
    PROVE  ChunkFlow(G, m, addrs, rest, msgs \o (r \o k \o e))
  <1> DEFINE T == {"CLIENT_UPLOAD_CHUNK"}
  <1>1. PICK a, b : a = Len(addrs) /\ b = Len(addrs) + Len(rest)
    OBVIOUS
  <1>2. Piece(rest, F, a, b) /\ Stream(F, b, msgs, T, n)
    BY <1>1 DEF ChunkFlow
  <1> HIDE DEF T
  <1>3. Len(msgs) \in Nat
    OBVIOUS
  <1>4. b \in Nat /\ b <= n
    BY <1>2, <1>3, StreamRange
  <1>5. \A i \in 1 .. b : F[i] = G[i]
    BY <1>4
  <1>6. Piece(rest, G, a, b) /\ Stream(G, b, msgs, T, n)
    BY <1>2, <1>5, PieceGrows, StreamGrows
  <1>7. Stream(G, n, r, T, n)
    <2>1. PICK msg : msg = Message("CLIENT_UPLOAD_RECIPE", list)
      OBVIOUS
    <2>2. msg.type \notin T /\ (r = <<>> \/ r = <<msg>>)
      BY <2>1 DEF Message, T
    <2> QED  BY <2>2, StreamSilent
  <1>8. Stream(G, n, k, T, m)
    <2>1. CASE k = <<>> /\ cts = <<>>
      <3>1. n = m
        BY <2>1, PieceOfNone
      <3> QED  BY <2>1, <3>1, StreamNone
    <2>2. CASE k = <<Message("CLIENT_UPLOAD_CHUNK", cts)>>
      <3>1. PICK msg : msg = Message("CLIENT_UPLOAD_CHUNK", cts)
        OBVIOUS
      <3>2. ItemsOf(msg, T) = cts
        BY <3>1 DEF Message, ItemsOf, T
      <3> QED  BY <2>2, <3>1, <3>2, StreamOne
    <2> QED  BY <2>1, <2>2
  <1>9. Stream(G, m, e, T, m)
    <2>1. PICK msg : msg = Message("CLIENT_UPLOAD_RECIPE_END", pos)
      OBVIOUS
    <2>2. msg.type \notin T /\ (e = <<>> \/ e = <<msg>>)
      BY <2>1 DEF Message, T
    <2> QED  BY <2>2, StreamSilent
  <1>10. Stream(G, b, msgs \o (r \o k \o e), T, m)
    BY ONLY <1>6, <1>7, <1>8, <1>9, StreamThree, msgs \in Seq(Msg), r \in Seq(Msg), k \in Seq(Msg), e \in Seq(Msg)
  <1> QED  BY <1>1, <1>6, <1>10 DEF ChunkFlow, T
LEMMA RecipeFlowTake ==
    ASSUME NEW F, NEW n, NEW list, NEW msgs \in Seq(Msg), NEW kr \in Seq(KeyEntry), NEW items \in Seq(KeyEntry),
           RecipeFlow(F, n, list, msgs, kr), msgs # <<>>, Head(msgs).type = "CLIENT_UPLOAD_RECIPE",
           items = Head(msgs).items
    PROVE  RecipeFlow(F, n, list, Tail(msgs), kr \o items)
  <1> DEFINE T == {"CLIENT_UPLOAD_RECIPE"}
  <1>1. PICK to : Stream(F, Len(kr), msgs, T, to) /\ Piece(list, F, to, n) /\ Piece(kr, F, 0, Len(kr))
    BY DEF RecipeFlow
  <1>2. Head(msgs).type \in T
    OBVIOUS
  <1> HIDE DEF T
  <1>3. PICK m : Piece(Head(msgs).items, F, Len(kr), m) /\ Stream(F, m, Tail(msgs), T, to)
    BY <1>1, <1>2, StreamTake
  <1>4. Piece(kr \o items, F, 0, m)
    BY <1>1, <1>3, PieceConcat
  <1>5. Len(kr \o items) = m
    BY <1>4 DEF Piece
  <1> QED  BY <1>1, <1>3, <1>4, <1>5 DEF RecipeFlow, T

LEMMA RecipeFlowSkip ==
    ASSUME NEW F, NEW n, NEW list, NEW msgs \in Seq(Msg), NEW kr,
           RecipeFlow(F, n, list, msgs, kr), msgs # <<>>, Head(msgs).type # "CLIENT_UPLOAD_RECIPE"
    PROVE  RecipeFlow(F, n, list, Tail(msgs), kr)
  <1> DEFINE T == {"CLIENT_UPLOAD_RECIPE"}
  <1>1. PICK to : Stream(F, Len(kr), msgs, T, to) /\ Piece(list, F, to, n) /\ Piece(kr, F, 0, Len(kr))
    BY DEF RecipeFlow
  <1>2. Head(msgs).type \notin T
    OBVIOUS
  <1> HIDE DEF T
  <1>3. Stream(F, Len(kr), Tail(msgs), T, to)
    BY <1>1, <1>2, StreamSkip
  <1> QED  BY <1>1, <1>3 DEF RecipeFlow, T

LEMMA ChunkFlowSkip ==
    ASSUME NEW G, NEW n, NEW addrs, NEW rest, NEW msgs \in Seq(Msg),
           ChunkFlow(G, n, addrs, rest, msgs), msgs # <<>>, Head(msgs).type # "CLIENT_UPLOAD_CHUNK"
    PROVE  ChunkFlow(G, n, addrs, rest, Tail(msgs))
  <1> DEFINE T == {"CLIENT_UPLOAD_CHUNK"}
  <1>1. Stream(G, Len(addrs) + Len(rest), msgs, T, n)
    BY DEF ChunkFlow
  <1>2. Head(msgs).type \notin T
    OBVIOUS
  <1> HIDE DEF T
  <1>3. Stream(G, Len(addrs) + Len(rest), Tail(msgs), T, n)
    BY <1>1, <1>2, StreamSkip
  <1> QED  BY <1>3 DEF ChunkFlow, T

LEMMA ChunkFlowTake ==
    ASSUME NEW G, NEW n, NEW addrs \in Seq(Addr), NEW msgs \in Seq(Msg), NEW items \in Seq(Ciphertext),
           ChunkFlow(G, n, addrs, <<>>, msgs), msgs # <<>>, Head(msgs).type = "CLIENT_UPLOAD_CHUNK",
           items = Head(msgs).items
    PROVE  ChunkFlow(G, n, addrs, items, Tail(msgs))
  <1> DEFINE T == {"CLIENT_UPLOAD_CHUNK"}
  <1>1. PICK a : a = Len(addrs)
    OBVIOUS
  <1>2. a \in Nat /\ a + Len(<<>>) = a
    BY <1>1
  <1>3. Stream(G, a, msgs, T, n)
    BY <1>1, <1>2 DEF ChunkFlow
  <1>4. Head(msgs).type \in T
    OBVIOUS
  <1> HIDE DEF T
  <1>5. PICK m : Piece(Head(msgs).items, G, a, m) /\ Stream(G, m, Tail(msgs), T, n)
    BY <1>3, <1>4, StreamTake
  <1>6. m \in Nat /\ Len(items) = m - a
    BY <1>5 DEF Piece
  <1>7. m = a + Len(items)
    BY <1>2, <1>6
  <1> QED  BY <1>1, <1>5, <1>7 DEF ChunkFlow, T

(* One ciphertext of the batch got its address. *)
LEMMA ChunkFlowNext ==
    ASSUME NEW G, NEW n, NEW addrs \in Seq(Addr), NEW rest \in Seq(Ciphertext), NEW msgs, NEW addr \in Addr,
           ChunkFlow(G, n, addrs, rest, msgs), rest # <<>>
    PROVE  ChunkFlow(G, n, Append(addrs, addr), Tail(rest), msgs) /\ Head(rest) = G[Len(addrs) + 1]
  <1>1. PICK a, b, m, u : a = Len(addrs) /\ b = Len(rest) /\ m = a + b /\ u = Tail(rest)
    OBVIOUS
  <1>2. a \in Nat /\ b \in Nat /\ b # 0 /\ Len(u) = b - 1 /\ Len(Append(addrs, addr)) = a + 1
    BY <1>1, EmptyIff
  <1>3. (a + 1) + (b - 1) = m /\ m = a + b /\ m \in Nat /\ m - (a + 1) = b - 1 /\ a + 1 <= m
    BY <1>1, <1>2
  <1>4. Piece(rest, G, a, m) /\ Stream(G, m, msgs, {"CLIENT_UPLOAD_CHUNK"}, n)
    BY <1>1 DEF ChunkFlow
  <1>5. \A i \in 1 .. b : rest[i] = G[a + i]
    BY <1>1, <1>4 DEF Piece
  <1>6. Head(rest) = rest[1] /\ 1 \in 1 .. b
    BY <1>2
  <1>7. ASSUME NEW i \in 1 .. b - 1 PROVE u[i] = G[(a + 1) + i]
    <2>1. u[i] = rest[i + 1]
      BY <1>1, <1>2, MsgTail
    <2>2. i + 1 \in 1 .. b /\ a + (i + 1) = (a + 1) + i
      BY <1>2
    <2> QED  BY <1>5, <2>1, <2>2
  <1>8. Piece(u, G, a + 1, m)
    BY <1>2, <1>3, <1>7 DEF Piece
  <1>9. ChunkFlow(G, n, Append(addrs, addr), u, msgs)
    BY <1>2, <1>3, <1>4, <1>8 DEF ChunkFlow
  <1> QED  BY <1>1, <1>5, <1>6, <1>9

(* The message that ends the recipe is the last one; when it was processed,   *)
(* the recipe is complete.                                                   *)
EndType == "CLIENT_UPLOAD_RECIPE_END"
EndFlow(p, msgs, head, in, rest) ==
    /\ p.op # "finish" => ~Has(msgs, EndType)
    /\ p.op = "finish" =>
         /\ p.keyList = <<>>
         /\ \/ msgs = <<>> /\ head = Len(p.file) /\ in = <<>> /\ rest = <<>>
            \/ \E u \in Seq(Msg) : msgs = u \o <<Message(EndType, <<Len(p.file)>>)>> /\ ~Has(u, EndType)

LEMMA HasHead == ASSUME NEW S, NEW s \in Seq(S), s # <<>> PROVE Has(s, Head(s).type)
  <1>1. 1 \in DOMAIN s /\ Head(s) = s[1]
    OBVIOUS
  <1> QED  BY <1>1 DEF Has

LEMMA HasTail == ASSUME NEW S, NEW s \in Seq(S), s # <<>>, NEW ty, ~Has(s, ty) PROVE ~Has(Tail(s), ty)
  <1> SUFFICES ASSUME NEW n \in DOMAIN Tail(s), Tail(s)[n].type = ty PROVE FALSE
    BY DEF Has
  <1>1. PICK u : u = Tail(s)
    OBVIOUS
  <1>2. u \in Seq(S) /\ Len(u) = Len(s) - 1 /\ Len(s) \in Nat /\ \A i \in 1 .. Len(s) - 1 : u[i] = s[i + 1]
    BY ONLY <1>1, MsgTail, s \in Seq(S), s # <<>>
  <1>3. n \in 1 .. Len(s) - 1
    BY <1>1, <1>2
  <1>4. n + 1 \in DOMAIN s /\ s[n + 1].type = ty
    BY <1>1, <1>2, <1>3
  <1> QED  BY <1>4 DEF Has

LEMMA EndFlowTail ==
    ASSUME NEW p, NEW msgs \in Seq(Msg), NEW head, NEW in, NEW rest, EndFlow(p, msgs, head, in, rest), msgs # <<>>,
           Head(msgs).type # EndType, NEW head2, NEW in2, NEW rest2
    PROVE  EndFlow(p, Tail(msgs), head2, in2, rest2)
  <1>1. CASE p.op # "finish"
    <2>1. ~Has(msgs, EndType)
      BY <1>1 DEF EndFlow
    <2> QED  BY <1>1, <2>1, HasTail DEF EndFlow
  <1>2. CASE p.op = "finish"
    <2>1. PICK u \in Seq(Msg) : msgs = u \o <<Message(EndType, <<Len(p.file)>>)>> /\ ~Has(u, EndType)
      BY <1>2 DEF EndFlow
    <2>2. PICK x : x = Message(EndType, <<Len(p.file)>>)
      OBVIOUS
    <2>3. x.type = EndType
      BY <2>2 DEF Message
    <2>4. u # <<>>
      <3> SUFFICES ASSUME u = <<>> PROVE FALSE
        OBVIOUS
      <3>1. msgs = <<x>>
        BY <2>1, <2>2
      <3>2. Head(msgs) = x
        BY <3>1
      <3> QED  BY <2>3, <3>2
    <2>5. Tail(msgs) = Tail(u) \o <<x>> /\ Tail(u) \in Seq(Msg)
      <3>1. \A y : Tail(u \o <<y>>) = Tail(u) \o <<y>>
        <4> TAKE y
        <4>1. PICK S : S = Msg \cup {y}
          OBVIOUS
        <4>2. u \in Seq(S) /\ <<y>> \in Seq(S)
          BY <4>1
        <4>3. PICK v, a, b, N : v = u \o <<y>> /\ a = Tail(v) /\ b = Tail(u) \o <<y>> /\ N = Len(u)
          OBVIOUS
        <4>4. N \in Nat /\ N # 0
          BY <2>4, <4>2, <4>3, EmptyIff
        <4>5. v \in Seq(S) /\ Len(v) = N + 1 /\ v[N + 1] = y /\ \A i \in 1 .. N : v[i] = u[i]
          BY <4>2, <4>3
        <4>6. v # <<>>
          BY <4>4, <4>5
        <4>7. a \in Seq(S) /\ Len(a) = N /\ \A i \in 1 .. N : a[i] = v[i + 1]
          BY <4>3, <4>4, <4>5, <4>6, MsgTail
        <4>8. Tail(u) \in Seq(S) /\ Len(Tail(u)) = N - 1 /\ \A i \in 1 .. N - 1 : Tail(u)[i] = u[i + 1]
          BY <2>4, <4>2, <4>3, MsgTail
        <4>9. b \in Seq(S) /\ Len(b) = N /\ b[N] = y /\ \A i \in 1 .. N - 1 : b[i] = u[i + 1]
          BY <4>2, <4>3, <4>4, <4>8
        <4>10. ASSUME NEW i \in 1 .. N PROVE a[i] = b[i]
          <5>1. CASE i = N  BY <4>4, <4>5, <4>7, <4>9, <5>1
          <5>2. CASE i # N
            <6>1. i \in 1 .. N - 1 /\ i + 1 \in 1 .. N
              BY <4>4, <5>2
            <6> QED  BY <4>5, <4>7, <4>9, <6>1
          <5> QED  BY <5>1, <5>2
        <4>11. a = b
          BY ONLY <4>4, <4>7, <4>9, <4>10
        <4> QED  BY <4>3, <4>11
      <3>2. Tail(u) \in Seq(Msg)
        BY <2>4
      <3> QED  BY <2>1, <2>2, <3>1, <3>2
    <2>6. ~Has(Tail(u), EndType)
      BY <2>1, <2>4, HasTail
    <2>7. p.keyList = <<>>
      BY <1>2 DEF EndFlow
    <2> QED  BY <1>2, <2>2, <2>5, <2>6, <2>7 DEF EndFlow
  <1> QED  BY <1>1, <1>2

LEMMA EndFlowEnd ==
    ASSUME NEW p, NEW msgs \in Seq(Msg), NEW head, NEW in, NEW rest, EndFlow(p, msgs, head, in, rest), msgs # <<>>,
           Head(msgs).type = EndType
    PROVE  p.op = "finish" /\ Tail(msgs) = <<>> /\ Head(Head(msgs).items) = Len(p.file) /\ p.keyList = <<>>
  <1>1. p.op = "finish"
    BY HasHead DEF EndFlow
  <1>2. PICK u \in Seq(Msg) : msgs = u \o <<Message(EndType, <<Len(p.file)>>)>> /\ ~Has(u, EndType)
    BY <1>1 DEF EndFlow
  <1>3. PICK x : x = Message(EndType, <<Len(p.file)>>)
    OBVIOUS
  <1>4. u = <<>>
    <2> SUFFICES ASSUME u # <<>> PROVE FALSE
      OBVIOUS
    <2>1. 1 \in DOMAIN u /\ (u \o <<x>>)[1] = u[1] /\ Head(msgs) = msgs[1]
      OBVIOUS
    <2>2. u[1].type = EndType
      BY <1>2, <1>3, <2>1
    <2> QED  BY <1>2, <2>1, <2>2 DEF Has
  <1>5. msgs = <<x>>
    BY <1>2, <1>3, <1>4
  <1>6. Head(msgs) = x /\ Tail(msgs) = <<>>
    BY <1>5
  <1>7. x.items = <<Len(p.file)>>
    BY <1>3 DEF Message
  <1> QED  BY <1>1, <1>6, <1>7 DEF EndFlow
-----------------------------------------------------------------------------
(* An upload in progress.  What the server has, what is on the way to it and  *)
(* what the client has not sent are together the file's key recipe, and its   *)
(* ciphertexts; and every address in the file recipe holds its ciphertext.    *)
HeldAt(addr, ct, H) == \E k \in H : k.id = addr.id /\ addr.offset \in DOMAIN k.body
                                    /\ k.body[addr.offset] = ct
AddrFlow(addrs, G, H) == \A n \in 1 .. Len(addrs) : HeldAt(addrs[n], G[n], H)
Keeps(H, K) == \A addr, ct : HeldAt(addr, ct, H) => HeldAt(addr, ct, K)

FlowOf(p, keys, msgs, kr, addrs, rest, head, in) ==
    /\ RecipeFlow(Ents(p.file, keys), Len(keys), p.keyList, msgs, kr)
    /\ ChunkFlow(Cts(p.file, keys), Len(keys), addrs, rest, msgs)
    /\ EndFlow(p, msgs, head, in, rest)
AddrsOf(c) == recipe[c].entries \o srv[c].inRecipe
Flow(c) ==
    /\ FlowOf(client[c], localKeys[c], toServer[c], keyRecipe[c], AddrsOf(c), srv[c].rest,
              recipe[c].head, srv[c].inRecipe)
    /\ AddrFlow(AddrsOf(c), Cts(client[c].file, localKeys[c]), Held)
Flows(c) == serverUp /\ client[c].op \in Sending => Flow(c)

LEMMA HoldsAt == \A addr, ct : Holds(addr, ct) <=> HeldAt(addr, ct, Held)
  BY DEF Holds, HeldAt

LEMMA HoldsAtNext == \A addr, ct : Holds(addr, ct)' <=> HeldAt(addr, ct, Held')
  BY DEF Holds, HeldAt

LEMMA AddrKeeps ==
    ASSUME NEW addrs, NEW G, NEW H, NEW K, AddrFlow(addrs, G, H), Keeps(H, K) PROVE AddrFlow(addrs, G, K)
  BY DEF AddrFlow, Keeps

LEMMA FlowNow ==
    ASSUME BaseInv, NEW c \in Client, serverUp, client[c].op \in Sending, Flows(c)
    PROVE  /\ toServer[c] \in Seq(Msg) /\ keyRecipe[c] \in Seq(KeyEntry) /\ recipe[c] \in Recipe
           /\ recipe[c].entries \in Seq(Addr) /\ srv[c].inRecipe \in Seq(Addr) /\ AddrsOf(c) \in Seq(Addr)
           /\ srv[c].rest \in Seq(Ciphertext) /\ srv[c].pc \in Busy /\ SessionOK(srv[c])
           /\ localKeys[c] \in Seq(Key) /\ client[c].keyList \in Seq(KeyEntry)
           /\ client[c].file \in Seq(Chunk) /\ client[c].plain \in Seq(Chunk)
           /\ ProcessOK(client[c]) /\ BatchOK(client[c], localKeys[c])
           /\ Flow(c)
  <1>1. ClientOK(c) /\ Proto(c) /\ ServerOK(c)
    BY DEF BaseInv, AtRest
  <1>2. srv[c].pc \in Busy
    BY <1>1 DEF Proto, ProtoAt
  <1>3. srv[c].pc \in OpenPcs /\ srv[c].pc # "none"
    BY <1>2 DEF Busy, OpenPcs
  <1>4. /\ keyRecipe[c] \in Seq(KeyEntry) /\ recipe[c] \in Recipe /\ SessionOK(srv[c])
    BY <1>1, <1>3, ServerParts
  <1>5. srv[c].rest \in Seq(Ciphertext) /\ srv[c].inRecipe \in Seq(Addr)
    BY <1>4 DEF SessionOK
  <1>6. recipe[c].entries \in Seq(Addr)
    BY <1>4 DEF Recipe
  <1>7. AddrsOf(c) \in Seq(Addr)
    <2>1. PICK a, b : a = recipe[c].entries /\ b = srv[c].inRecipe
      OBVIOUS
    <2>2. a \o b \in Seq(Addr)
      BY ONLY <1>5, <1>6, <2>1, ConcatIs
    <2> QED  BY <2>1, <2>2 DEF AddrsOf
  <1>8. ProcessOK(client[c]) /\ BatchOK(client[c], localKeys[c]) /\ toServer[c] \in Seq(Msg)
    BY <1>1, ClientParts
  <1>9. localKeys[c] \in Seq(Key)
    BY <1>8 DEF BatchOK, Uploading, Sending
  <1> QED  BY <1>2, <1>4, <1>5, <1>6, <1>7, <1>8, <1>9 DEF Flows, ProcessOK

LEMMA FlowAdmit ==
    ASSUME BaseInv, BaseInv', NEW c \in Client, AdmitUpload(c)
    PROVE  Flows(c)'
  <1> SUFFICES ASSUME serverUp', client'[c].op \in Sending PROVE Flow(c)'
    BY DEF Flows
  <1>1. ClientOK(c) /\ Proto(c) /\ Shape /\ StoreOK
    BY DEF BaseInv, AtRest
  <1>2. /\ Login(c, "CLIENT_LOGIN_UPLOAD") /\ localKeys' = localKeys
        /\ client'[c] = client[c] \/ (client[c].op # "dead" /\ client'[c] = [client[c] EXCEPT !.op = "pop"])
    BY <1>1 DEF AdmitUpload, Responds, Shape
  <1>3. client[c].op \in {"login", "dead"} /\ (client[c].op # "dead" => Tail(toServer[c]) = <<>>)
    BY <1>1, <1>2, LoginIs DEF Logins
  <1>4. client[c].op = "login" /\ client'[c] = [client[c] EXCEPT !.op = "pop"]
    BY <1>2, <1>3 DEF Sending
  <1>5. toServer'[c] = <<>>
    BY <1>1, <1>2, <1>3, <1>4 DEF Login, Shape
  <1>6. PICK p, q, keys : p = client[c] /\ q = client'[c] /\ keys = localKeys[c]
    OBVIOUS
  <1>7. ProcessOK(p) /\ BatchOK(p, keys) /\ p.op = "login"
    BY <1>1, <1>4, <1>6, ClientParts
  <1>8. q.op = "pop" /\ q.keyList = <<>> /\ q.file = p.file
    BY <1>4, <1>6, <1>7 DEF ProcessOK, BatchOK, Uploading
  <1>9. keys \in Seq(Key) /\ Len(keys) + Len(p.plain) = p.pos /\ p.pos = 0 /\ p.plain = <<>>
    BY <1>7 DEF BatchOK, Uploading, Batching
  <1>10. Len(keys) = 0
    BY <1>9
  <1>11. /\ srv'[c].rest = <<>> /\ srv'[c].inRecipe = <<>> /\ keyRecipe'[c] = <<>>
         /\ recipe'[c].entries = <<>>
    BY <1>1, AdmitUploadServer DEF BlankRecipe
  <1>12. AddrsOf(c)' = <<>>
    BY <1>11 DEF AddrsOf
  <1>13. /\ RecipeFlow(Ents(q.file, keys), 0, <<>>, <<>>, <<>>)
         /\ ChunkFlow(Cts(q.file, keys), 0, <<>>, <<>>, <<>>)
    <2>1. PICK F, G : F = Ents(q.file, keys) /\ G = Cts(q.file, keys)
      OBVIOUS
    <2>2. Len(<<>>) = 0 /\ 0 + 0 = 0 /\ 0 \in Nat
      OBVIOUS
    <2>3. Piece(<<>>, F, 0, 0) /\ Piece(<<>>, G, 0, 0) /\ \A T : Stream(F, 0, <<>>, T, 0) /\ Stream(G, 0, <<>>, T, 0)
      BY <2>2, PieceNone, StreamNone
    <2> QED  BY <2>1, <2>2, <2>3 DEF RecipeFlow, ChunkFlow
  <1>14. EndFlow(q, <<>>, recipe'[c].head, <<>>, <<>>)
    BY <1>8, NoMsg DEF EndFlow
  <1>15. FlowOf(q, keys, <<>>, <<>>, <<>>, <<>>, recipe'[c].head, <<>>)
    BY <1>8, <1>10, <1>13, <1>14 DEF FlowOf
  <1>16. AddrFlow(<<>>, Cts(q.file, keys), Held')
    BY DEF AddrFlow
  <1> QED  BY <1>2, <1>5, <1>6, <1>11, <1>12, <1>15, <1>16 DEF Flow

LEMMA FlowReceive ==
    ASSUME BaseInv, NEW c \in Client, Flows(c), Keeps(Held, Held'),
           ProcessRecipes(c) \/ ReceiveBatch(c) \/ ProcessRecipeEnd(c)
    PROVE  Flows(c)'
  <1> SUFFICES ASSUME serverUp', client'[c].op \in Sending PROVE Flow(c)'
    BY DEF Flows
  <1>0. Shape
    BY DEF BaseInv
  <1>1. serverUp /\ client' = client /\ localKeys' = localKeys /\ srv[c].pc = "recv"
        /\ toServer[c] # <<>> /\ toServer'[c] = Tail(toServer[c])
    BY <1>0 DEF ProcessRecipes, ReceiveBatch, ProcessRecipeEnd, Receives, Shape
  <1>2. PICK p, keys, msgs, kr, addrs, rest, head, in, es, H, K :
           /\ p = client[c] /\ keys = localKeys[c] /\ msgs = toServer[c] /\ kr = keyRecipe[c]
           /\ addrs = AddrsOf(c) /\ rest = srv[c].rest /\ head = recipe[c].head /\ in = srv[c].inRecipe
           /\ es = recipe[c].entries /\ H = Held /\ K = Held'
    OBVIOUS
  <1>3. /\ msgs \in Seq(Msg) /\ kr \in Seq(KeyEntry) /\ addrs \in Seq(Addr) /\ rest \in Seq(Ciphertext)
        /\ es \in Seq(Addr) /\ in \in Seq(Addr) /\ SessionOK(srv[c]) /\ recipe[c] \in Recipe
        /\ FlowOf(p, keys, msgs, kr, addrs, rest, head, in) /\ AddrFlow(addrs, Cts(p.file, keys), H)
        /\ msgs # <<>> /\ Head(msgs) \in Msg
    <2>1. p.op \in Sending
      BY <1>1, <1>2
    <2>2. Flow(c) /\ toServer[c] \in Seq(Msg) /\ keyRecipe[c] \in Seq(KeyEntry) /\ recipe[c] \in Recipe
           /\ recipe[c].entries \in Seq(Addr) /\ srv[c].inRecipe \in Seq(Addr) /\ AddrsOf(c) \in Seq(Addr)
           /\ srv[c].rest \in Seq(Ciphertext) /\ SessionOK(srv[c])
      BY <1>1, <1>2, <2>1, FlowNow
    <2>3. msgs \in Seq(Msg) /\ msgs # <<>>
      BY <1>1, <1>2, <2>2
    <2>4. Head(msgs) \in Msg
      BY ONLY <2>3
    <2> QED  BY <1>2, <2>2, <2>3, <2>4 DEF Flow
  <1>4. rest = <<>>
    BY <1>1, <1>2, <1>3 DEF SessionOK
  <1>5. PICK F, G, n, u : F = Ents(p.file, keys) /\ G = Cts(p.file, keys) /\ n = Len(keys) /\ u = Tail(msgs)
    OBVIOUS
  <1>6. /\ RecipeFlow(F, n, p.keyList, msgs, kr) /\ ChunkFlow(G, n, addrs, rest, msgs)
        /\ EndFlow(p, msgs, head, in, rest) /\ AddrFlow(addrs, G, K)
    BY <1>2, <1>3, <1>5, AddrKeeps DEF FlowOf
  <1>7. client'[c] = p /\ localKeys'[c] = keys /\ toServer'[c] = u
    BY <1>1, <1>2, <1>5
  <1>8. CASE ProcessRecipes(c)
    <2>1. /\ srv' = srv /\ recipe' = recipe /\ Head(msgs).type = "CLIENT_UPLOAD_RECIPE"
          /\ keyRecipe'[c] = kr \o Head(msgs).items
      BY <1>0, <1>2, <1>8 DEF ProcessRecipes, Receives, Shape
    <2>2. PICK items : items = Head(msgs).items
      OBVIOUS
    <2>3. items \in Seq(KeyEntry)
      BY <1>3, <2>1, <2>2 DEF Msg, Logins
    <2>4. RecipeFlow(F, n, p.keyList, u, kr \o items)
      BY <1>3, <1>5, <1>6, <2>1, <2>2, <2>3, RecipeFlowTake
    <2>5. ChunkFlow(G, n, addrs, rest, u)
      BY <1>3, <1>5, <1>6, <2>1, ChunkFlowSkip
    <2>6. EndFlow(p, u, head, in, rest)
      BY <1>3, <1>5, <1>6, <2>1, EndFlowTail DEF EndType
    <2>7. FlowOf(p, keys, u, kr \o items, addrs, rest, head, in)
      BY <1>5, <2>4, <2>5, <2>6 DEF FlowOf
    <2>8. keyRecipe'[c] = kr \o items /\ AddrsOf(c)' = addrs /\ srv'[c].rest = rest
          /\ recipe'[c].head = head /\ srv'[c].inRecipe = in
      BY <1>2, <2>1, <2>2 DEF AddrsOf
    <2> QED  BY <1>2, <1>5, <1>6, <1>7, <2>7, <2>8 DEF Flow
  <1>9. CASE ReceiveBatch(c)
    <2>1. /\ srv'[c] = [srv[c] EXCEPT !.rest = Head(msgs).items, !.pc = "query"]
          /\ recipe' = recipe /\ keyRecipe' = keyRecipe /\ Head(msgs).type = "CLIENT_UPLOAD_CHUNK"
      BY <1>0, <1>2, <1>9 DEF ReceiveBatch, Receives, Shape
    <2>2. PICK items : items = Head(msgs).items
      OBVIOUS
    <2>3. items \in Seq(Ciphertext)
      BY <1>3, <2>1, <2>2 DEF Msg, Logins
    <2>4. RecipeFlow(F, n, p.keyList, u, kr)
      BY <1>3, <1>5, <1>6, <2>1, RecipeFlowSkip
    <2>5. ChunkFlow(G, n, addrs, items, u)
      BY <1>3, <1>4, <1>5, <1>6, <2>1, <2>2, <2>3, ChunkFlowTake
    <2>6. EndFlow(p, u, head, in, items)
      BY <1>3, <1>5, <1>6, <2>1, EndFlowTail DEF EndType
    <2>7. FlowOf(p, keys, u, kr, addrs, items, head, in)
      BY <1>5, <2>4, <2>5, <2>6 DEF FlowOf
    <2>8. srv'[c].rest = items /\ srv'[c].inRecipe = in
      BY <1>2, <1>3, <2>1, <2>2 DEF SessionOK
    <2>9. keyRecipe'[c] = kr /\ AddrsOf(c)' = addrs /\ recipe'[c].head = head
      BY <1>2, <2>1, <2>8 DEF AddrsOf
    <2> QED  BY <1>2, <1>5, <1>6, <1>7, <2>7, <2>8, <2>9 DEF Flow
  <1>10. CASE ProcessRecipeEnd(c)
    <2>1. /\ srv'[c] = [srv[c] EXCEPT !.inRecipe = <<>>] /\ keyRecipe' = keyRecipe
          /\ Head(msgs).type = EndType
          /\ recipe'[c] = [recipe[c] EXCEPT !.entries = @ \o in, !.head = Head(Head(msgs).items)]
      BY <1>0, <1>2, <1>10 DEF ProcessRecipeEnd, Receives, Shape, EndType
    <2>2. /\ p.op = "finish" /\ u = <<>> /\ Head(Head(msgs).items) = Len(p.file) /\ p.keyList = <<>>
      BY <1>3, <1>5, <1>6, <2>1, EndFlowEnd
    <2>3. RecipeFlow(F, n, p.keyList, u, kr)
      BY <1>3, <1>5, <1>6, <2>1, RecipeFlowSkip DEF EndType
    <2>4. ChunkFlow(G, n, addrs, rest, u)
      BY <1>3, <1>5, <1>6, <2>1, ChunkFlowSkip DEF EndType
    <2>5. EndFlow(p, u, Len(p.file), <<>>, rest)
      BY <1>4, <2>2 DEF EndFlow
    <2>6. FlowOf(p, keys, u, kr, addrs, rest, Len(p.file), <<>>)
      BY <1>5, <2>3, <2>4, <2>5 DEF FlowOf
    <2>7. srv'[c].rest = rest /\ srv'[c].inRecipe = <<>>
      BY <1>2, <1>3, <2>1 DEF SessionOK
    <2>8. recipe'[c].head = Len(p.file) /\ recipe'[c].entries = es \o in
      BY <1>2, <1>3, <2>1, <2>2 DEF Recipe
    <2>9. (es \o in) \o <<>> = es \o in
      BY <1>3
    <2>10. AddrsOf(c)' = addrs
      BY <1>2, <2>7, <2>8, <2>9 DEF AddrsOf
    <2> QED  BY <1>2, <1>5, <1>6, <1>7, <2>1, <2>6, <2>7, <2>8, <2>10 DEF Flow
  <1> QED  BY <1>8, <1>9, <1>10

(* A ciphertext of the batch got the address addr. *)
LEMMA FlowAddress ==
    ASSUME BaseInv, NEW c \in Client, Flows(c), Keeps(Held, Held'), serverUp, client[c].op \in Sending,
           UNCHANGED <<client, localKeys, toServer, keyRecipe>>, NEW s, NEW addr \in Addr,
           s.rest = srv[c].rest, s.inRecipe = srv[c].inRecipe, srv[c].rest # <<>>,
           Updated(c, s, addr, srv'[c], recipe[c], recipe'[c]),
           HeldAt(addr, Head(srv[c].rest), Held')
    PROVE  Flow(c)'
  <1>1. PICK p, keys, msgs, kr, addrs, rest, K, u, old, new :
           /\ p = client[c] /\ keys = localKeys[c] /\ msgs = toServer[c] /\ kr = keyRecipe[c]
           /\ addrs = AddrsOf(c) /\ rest = srv[c].rest
           /\ K = Held' /\ u = srv'[c] /\ old = recipe[c] /\ new = recipe'[c]
    OBVIOUS
  <1>2. /\ msgs \in Seq(Msg) /\ addrs \in Seq(Addr) /\ rest \in Seq(Ciphertext) /\ rest # <<>>
        /\ FlowOf(p, keys, msgs, kr, addrs, rest, old.head, s.inRecipe)
        /\ AddrFlow(addrs, Cts(p.file, keys), Held)
    BY <1>1, FlowNow DEF Flow
  <1>3. /\ u.rest = Tail(rest) /\ new.head = old.head
        /\ new.entries \o u.inRecipe = Append(addrs, addr)
    BY <1>1 DEF Updated, AddrsOf
  <1>4. PICK F, G, n : F = Ents(p.file, keys) /\ G = Cts(p.file, keys) /\ n = Len(keys)
    OBVIOUS
  <1>5. /\ RecipeFlow(F, n, p.keyList, msgs, kr) /\ ChunkFlow(G, n, addrs, rest, msgs)
        /\ EndFlow(p, msgs, old.head, s.inRecipe, rest) /\ AddrFlow(addrs, G, K)
    BY <1>1, <1>2, <1>4, AddrKeeps DEF FlowOf
  <1>6. ChunkFlow(G, n, Append(addrs, addr), Tail(rest), msgs) /\ Head(rest) = G[Len(addrs) + 1]
    BY <1>2, <1>5, ChunkFlowNext
  (* A batch is left, so the message that ends the recipe was not processed. *)
  <1>7. EndFlow(p, msgs, old.head, u.inRecipe, Tail(rest))
    BY <1>2, <1>5 DEF EndFlow
  <1>8. FlowOf(p, keys, msgs, kr, Append(addrs, addr), Tail(rest), old.head, u.inRecipe)
    BY <1>4, <1>5, <1>6, <1>7 DEF FlowOf
  <1>9. AddrFlow(Append(addrs, addr), G, K)
    <2>1. PICK v, a : v = Append(addrs, addr) /\ a = Len(addrs)
      OBVIOUS
    <2>2. Len(v) = a + 1 /\ a \in Nat /\ v[a + 1] = addr /\ \A i \in 1 .. a : v[i] = addrs[i]
      BY <1>2, <2>1
    <2>3. HeldAt(addr, G[a + 1], K)
      BY <1>1, <1>6, <2>1
    <2>4. ASSUME NEW i \in 1 .. a + 1 PROVE HeldAt(v[i], G[i], K)
      <3>1. CASE i = a + 1  BY <2>2, <2>3, <3>1
      <3>2. CASE i # a + 1
        <4>1. i \in 1 .. a
          BY <2>2, <3>2
        <4>2. HeldAt(addrs[i], G[i], K)
          BY <1>5, <2>1, <4>1 DEF AddrFlow
        <4> QED  BY <2>2, <4>1, <4>2
      <3> QED  BY <3>1, <3>2
    <2>5. AddrFlow(v, G, K)
      BY <2>2, <2>4 DEF AddrFlow
    <2> QED  BY <2>1, <2>5
  <1>10. AddrsOf(c)' = Append(addrs, addr)
    BY <1>1, <1>3 DEF AddrsOf
  <1>11. client'[c] = p /\ localKeys'[c] = keys /\ toServer'[c] = msgs /\ keyRecipe'[c] = kr
    BY <1>1
  <1> QED  BY <1>1, <1>3, <1>4, <1>8, <1>9, <1>10, <1>11 DEF Flow

LEMMA FlowStore ==
    ASSUME BaseInv, NEW c \in Client, Flows(c), Keeps(Held, Held'), AddressesResolve, AddressesResolve',
           QueryIndex(c) \/ StoreChunk(c)
    PROVE  Flows(c)'
  <1> SUFFICES ASSUME serverUp', client'[c].op \in Sending PROVE Flow(c)'
    BY DEF Flows
  <1>0. Shape /\ ServerOK(c) /\ StoreOK
    BY DEF BaseInv, AtRest
  <1>1. serverUp /\ UNCHANGED <<client, localKeys, toServer, keyRecipe>> /\ srv[c].pc \in {"query", "store"}
    BY DEF QueryIndex, StoreChunk
  <1>2. client[c].op \in Sending
    BY <1>1
  <1>3. SessionOK(srv[c]) /\ srv[c].rest \in Seq(Ciphertext) /\ Flow(c)
    BY <1>1, <1>2, FlowNow
  <1>4. srv[c].rest # <<>>
    BY <1>1, <1>3 DEF SessionOK
  <1>5. CASE QueryIndex(c)
    <2>1. CASE /\ Head(srv[c].rest) \in DOMAIN index
               /\ Updated(c, srv[c], index[Head(srv[c].rest)], srv'[c], recipe[c], recipe'[c])
      <3>1. PICK addr, ct, s : addr = index[Head(srv[c].rest)] /\ ct = Head(srv[c].rest) /\ s = srv[c]
        OBVIOUS
      <3>2. addr \in Addr /\ Holds(addr, ct)
        BY <1>0, <2>1, <3>1 DEF StoreOK, AddressesResolve
      <3>3. HeldAt(addr, ct, Held')
        BY <3>2, HoldsAt DEF Keeps
      <3>4. Updated(c, s, addr, srv'[c], recipe[c], recipe'[c]) /\ s.rest = srv[c].rest
            /\ s.inRecipe = srv[c].inRecipe /\ HeldAt(addr, Head(srv[c].rest), Held')
        BY <2>1, <3>1, <3>3
      <3> QED  BY <1>1, <1>2, <1>4, <3>2, <3>4, FlowAddress
    <2>2. CASE srv'[c] = [srv[c] EXCEPT !.pc = "store"] /\ recipe'[c] = recipe[c]
      <3>1. srv'[c].rest = srv[c].rest /\ srv'[c].inRecipe = srv[c].inRecipe
        BY <1>3, <2>2 DEF SessionOK
      <3>2. AddrsOf(c)' = AddrsOf(c)
        BY <2>2, <3>1 DEF AddrsOf
      <3>3. AddrFlow(AddrsOf(c), Cts(client[c].file, localKeys[c]), Held')
        BY <1>3, AddrKeeps DEF Flow
      <3> QED  BY <1>1, <1>3, <2>2, <3>1, <3>2, <3>3 DEF Flow
    <2> QED  BY <1>0, <1>5, <2>1, <2>2, QueryIs
  <1>6. CASE StoreChunk(c)
    <2>1. PICK w, addr, ct, new :
              /\ ct = Head(srv[c].rest) /\ ct \in Ciphertext
              /\ Saved(srv[c], ct, w, addr, new) /\ SessionOK(w)
              /\ Updated(c, w, addr, srv'[c], recipe[c], recipe'[c])
              /\ index' = [x \in DOMAIN index \cup {ct} |-> IF x = ct THEN addr ELSE index[x]]
              /\ uuids' = (IF new THEN uuids + 1 ELSE uuids)
      BY <1>0, <1>6, StoreIs
    <2>2. addr \in Addr /\ w.rest = srv[c].rest /\ w.inRecipe = srv[c].inRecipe
      BY <2>1 DEF Saved
    <2>3. ct \in DOMAIN index' /\ index'[ct] = addr
      BY <2>1
    <2>4. HeldAt(addr, ct, Held')
      BY <2>3 DEF AddressesResolve, Holds, HeldAt
    <2> QED  BY <1>1, <1>2, <1>4, <2>1, <2>2, <2>4, FlowAddress
  <1> QED  BY <1>5, <1>6

(* The client sends: a batch that it encrypted, or what is left at the end. *)
LEMMA FlowSends ==
    ASSUME NEW p, NEW q, NEW keys \in Seq(Key), NEW all \in Seq(Key), NEW cts \in Seq(Ciphertext),
           NEW ents \in Seq(KeyEntry), NEW msgs \in Seq(Msg), NEW r \in Seq(Msg), NEW k \in Seq(Msg),
           NEW e \in Seq(Msg), NEW kr \in Seq(KeyEntry), NEW addrs, NEW rest, NEW head, NEW in,
           FlowOf(p, keys, msgs, kr, addrs, rest, head, in), p.op # "finish", q.file = p.file,
           p.keyList \in Seq(KeyEntry),
           \A n \in 1 .. Len(keys) : /\ Cts(p.file, keys)[n] = Cts(p.file, all)[n]
                                     /\ Ents(p.file, keys)[n] = Ents(p.file, all)[n],
           Piece(cts, Cts(p.file, all), Len(keys), Len(all)),
           Piece(ents, Ents(p.file, all), Len(keys), Len(all)),
           \/ r = <<>> /\ q.keyList = p.keyList \o ents
           \/ r = <<Message("CLIENT_UPLOAD_RECIPE", p.keyList \o ents)>> /\ q.keyList = <<>>,
           (k = <<>> /\ cts = <<>>) \/ k = <<Message("CLIENT_UPLOAD_CHUNK", cts)>>,
           \/ e = <<>> /\ q.op # "finish"
           \/ e = <<Message(EndType, <<Len(p.file)>>)>> /\ q.op = "finish" /\ q.keyList = <<>>
    PROVE  FlowOf(q, all, msgs \o (r \o k \o e), kr, addrs, rest, head, in)
  <1>1. PICK F, G, FF, GG, n, m, list, out, f :
           /\ f = p.file /\ F = Ents(f, keys) /\ G = Cts(f, keys) /\ FF = Ents(f, all) /\ GG = Cts(f, all)
           /\ n = Len(keys) /\ m = Len(all) /\ list = p.keyList /\ out = q.keyList
    OBVIOUS
  <1>2. /\ RecipeFlow(F, n, list, msgs, kr) /\ ChunkFlow(G, n, addrs, rest, msgs)
        /\ EndFlow(p, msgs, head, in, rest)
    BY <1>1 DEF FlowOf
  <1>3. /\ \A i \in 1 .. n : F[i] = FF[i]
        /\ \A i \in 1 .. n : G[i] = GG[i]
        /\ Piece(cts, GG, n, m) /\ Piece(ents, FF, n, m) /\ n \in Nat /\ m \in Nat
    BY <1>1
  <1>4. /\ list \in Seq(KeyEntry) /\ Len(kr) \in Nat
        /\ \/ r = <<>> /\ out = list \o ents
           \/ r = <<Message("CLIENT_UPLOAD_RECIPE", list \o ents)>> /\ out = <<>>
        /\ k = <<>> \/ k = <<Message("CLIENT_UPLOAD_CHUNK", cts)>>
        /\ r = <<>> \/ r = <<Message("CLIENT_UPLOAD_RECIPE", list \o ents)>>
    BY <1>1
  <1>5. PICK pos : pos = <<Len(f)>>
    OBVIOUS
  <1>6. /\ e = <<>> \/ e = <<Message("CLIENT_UPLOAD_RECIPE_END", pos)>>
        /\ \/ e = <<>> /\ q.op # "finish"
           \/ e = <<Message("CLIENT_UPLOAD_RECIPE_END", pos)>> /\ q.op = "finish" /\ out = <<>>
    BY <1>1, <1>5 DEF EndType
  <1>7. RecipeFlow(FF, m, out, msgs \o (r \o k \o e), kr)
    BY ONLY <1>2, <1>3, <1>4, <1>6, RecipeFlowSent, msgs \in Seq(Msg), r \in Seq(Msg), k \in Seq(Msg),
       e \in Seq(Msg), ents \in Seq(KeyEntry)
  <1>8. ChunkFlow(GG, m, addrs, rest, msgs \o (r \o k \o e))
    <2>1. PICK l : l = list \o ents
      OBVIOUS
    <2>2. r = <<>> \/ r = <<Message("CLIENT_UPLOAD_RECIPE", l)>>
      BY <1>4, <2>1
    <2>3. (k = <<>> /\ cts = <<>>) \/ k = <<Message("CLIENT_UPLOAD_CHUNK", cts)>>
      OBVIOUS
    <2> QED
      BY ONLY <1>2, <1>3, <2>2, <2>3, <1>6, ChunkFlowSent, msgs \in Seq(Msg), r \in Seq(Msg),
         k \in Seq(Msg), e \in Seq(Msg), cts \in Seq(Ciphertext)
  <1>9. EndFlow(q, msgs \o (r \o k \o e), head, in, rest)
    <2>1. ~Has(msgs, EndType)
      BY <1>2 DEF EndFlow
    <2>2. r \o k \in Seq(Msg) /\ ~Has(r \o k, EndType)
      <3>1. ~Has(r, EndType)
        BY <1>4 DEF Has, Message, EndType
      <3>2. ~Has(k, EndType)
        BY <1>4, SMTT(20) DEF Has, Message, EndType
      <3>3. Has(r \o k, EndType) <=> Has(r, EndType) \/ Has(k, EndType)
        BY HasConcat
      <3>4. r \o k \in Seq(Msg)
        BY ONLY ConcatIs, r \in Seq(Msg), k \in Seq(Msg)
      <3> QED  BY <3>1, <3>2, <3>3, <3>4
    <2>3. PICK u, v : u = msgs \o (r \o k) /\ v = r \o k
      OBVIOUS
    <2>4. u \in Seq(Msg) /\ ~Has(u, EndType)
      <3>1. v \in Seq(Msg) /\ ~Has(v, EndType) /\ u = msgs \o v
        BY <2>2, <2>3
      <3>2. Has(msgs \o v, EndType) <=> Has(msgs, EndType) \/ Has(v, EndType)
        BY ONLY <3>1, HasConcat, msgs \in Seq(Msg)
      <3>3. msgs \o v \in Seq(Msg)
        BY ONLY <3>1, ConcatIs, msgs \in Seq(Msg)
      <3> QED  BY <2>1, <3>1, <3>2, <3>3
    <2>5. msgs \o (r \o k \o e) = u \o e
      <3>1. v \in Seq(Msg) /\ u = msgs \o v
        BY <2>2, <2>3
      <3>2. msgs \o (v \o e) = (msgs \o v) \o e
        BY ONLY <3>1, msgs \in Seq(Msg), e \in Seq(Msg), SMTT(20)
      <3> QED  BY <2>3, <3>1, <3>2
    <2>6. CASE e = <<>> /\ q.op # "finish"
      <3>1. u \o e = u
        BY <2>4, <2>6
      <3> QED  BY <2>4, <2>5, <2>6, <3>1 DEF EndFlow
    <2>7. CASE e = <<Message("CLIENT_UPLOAD_RECIPE_END", pos)>> /\ q.op = "finish" /\ out = <<>>
      <3>1. e = <<Message(EndType, <<Len(q.file)>>)>> /\ q.keyList = <<>>
        BY <1>1, <1>5, <2>7 DEF EndType
      <3> QED  BY <2>4, <2>5, <2>7, <3>1 DEF EndFlow
    <2> QED  BY <1>6, <2>6, <2>7
  <1> QED  BY <1>1, <1>7, <1>8, <1>9 DEF FlowOf

LEMMA AddrGrows ==
    ASSUME NEW addrs, NEW F, NEW G, NEW H, NEW n \in Nat, Len(addrs) \in Nat, Len(addrs) <= n,
           \A i \in 1 .. n : F[i] = G[i], AddrFlow(addrs, F, H)
    PROVE  AddrFlow(addrs, G, H)
  <1>1. ASSUME NEW i \in 1 .. Len(addrs) PROVE HeldAt(addrs[i], G[i], H)
    <2>1. i \in 1 .. n
      OBVIOUS
    <2>2. F[i] = G[i] /\ HeldAt(addrs[i], F[i], H)
      BY <2>1 DEF AddrFlow
    <2> QED  BY <2>2
  <1> QED  BY <1>1 DEF AddrFlow

LEMMA FlowEncrypt ==
    ASSUME BaseInv, NEW c \in Client, Flows(c), Keeps(Held, Held'), EncryptBatch(c)
    PROVE  Flows(c)'
  <1> SUFFICES ASSUME serverUp', client'[c].op \in Sending PROVE Flow(c)'
    BY DEF Flows
  <1>0. Shape /\ ClientOK(c)
    BY DEF BaseInv, AtRest
  <1>1. /\ client[c].op \in Batching /\ serverUp' = serverUp /\ srv' = srv /\ recipe' = recipe
        /\ keyRecipe' = keyRecipe
    BY Zenon DEF EncryptBatch, Batching, serverVars
  <1>2. serverUp /\ client[c].op \in Sending /\ client[c].op # "finish"
    BY <1>1 DEF Sending, Batching
  <1>3. PICK p, q, old, msgs, kr, addrs, rest, head, in, K :
           /\ p = client[c] /\ q = client'[c] /\ old = localKeys[c] /\ msgs = toServer[c]
           /\ kr = keyRecipe[c] /\ addrs = AddrsOf(c) /\ rest = srv[c].rest /\ head = recipe[c].head
           /\ in = srv[c].inRecipe /\ K = Held'
    OBVIOUS
  <1>4. /\ msgs \in Seq(Msg) /\ kr \in Seq(KeyEntry) /\ addrs \in Seq(Addr) /\ old \in Seq(Key)
        /\ p.keyList \in Seq(KeyEntry) /\ p.plain \in Seq(Chunk) /\ rest \in Seq(Ciphertext)
        /\ FlowOf(p, old, msgs, kr, addrs, rest, head, in) /\ AddrFlow(addrs, Cts(p.file, old), K)
        /\ BatchOK(p, old)
    BY <1>2, <1>3, FlowNow, AddrKeeps DEF Flow
  <1>5. /\ Piece(p.plain, p.file, Len(old), p.pos) /\ (p.op = "lastBatch" => p.pos = Len(p.file))
    BY <1>1, <1>3, <1>4 DEF BatchOK, Batching, Uploading
  <1>6. PICK keys, cts, ents, new : \E d1, last \in BOOLEAN :
              /\ Sealed(client[c].plain, keys, cts, ents)
              /\ last = (client[c].op = "lastBatch") /\ (last => d1)
              /\ localKeys'[c] = localKeys[c] \o keys
              /\ toServer'[c] = toServer[c] \o new
              /\ SendsTo(client[c], client'[c], new, client[c].keyList \o ents, d1, cts, TRUE, last)
    BY <1>0, EncryptIs
  <1>7. PICK r, k, e :
           /\ new = r \o k \o e /\ q.file = p.file
           /\ \/ r = <<>> /\ q.keyList = p.keyList \o ents
              \/ r = <<Message("CLIENT_UPLOAD_RECIPE", p.keyList \o ents)>> /\ q.keyList = <<>>
           /\ k = <<Message("CLIENT_UPLOAD_CHUNK", cts)>>
           /\ \/ e = <<>> /\ q.op = "pop"
              \/ /\ e = <<Message("CLIENT_UPLOAD_RECIPE_END", <<p.pos>>)>> /\ q.op = "finish"
                 /\ q.keyList = <<>> /\ p.op = "lastBatch"
    <2>1. PICK d1, last \in BOOLEAN :
              /\ last = (p.op = "lastBatch") /\ (last => d1)
              /\ SendsTo(p, q, new, p.keyList \o ents, d1, cts, TRUE, last)
      BY <1>3, <1>6
    <2>2. /\ new = RecipeMsg(p.keyList \o ents, d1) \o ChunkMsg(cts, TRUE) \o EndMsg(p.pos, last)
          /\ q.file = p.file /\ q.keyList = (IF d1 THEN <<>> ELSE p.keyList \o ents)
          /\ q.op = (IF last THEN "finish" ELSE "pop")
      BY <2>1 DEF SendsTo
    <2>3. \/ RecipeMsg(p.keyList \o ents, d1) = <<>> /\ q.keyList = p.keyList \o ents
          \/ /\ RecipeMsg(p.keyList \o ents, d1) = <<Message("CLIENT_UPLOAD_RECIPE", p.keyList \o ents)>>
             /\ q.keyList = <<>>
      BY <2>2 DEF RecipeMsg
    <2>4. ChunkMsg(cts, TRUE) = <<Message("CLIENT_UPLOAD_CHUNK", cts)>>
      BY DEF ChunkMsg
    <2>5. \/ EndMsg(p.pos, last) = <<>> /\ q.op = "pop"
          \/ /\ EndMsg(p.pos, last) = <<Message("CLIENT_UPLOAD_RECIPE_END", <<p.pos>>)>> /\ q.op = "finish"
             /\ q.keyList = <<>> /\ p.op = "lastBatch"
      BY <2>1, <2>2 DEF EndMsg
    <2> QED  BY <2>2, <2>3, <2>4, <2>5
  <1>8. /\ Sealed(p.plain, keys, cts, ents) /\ localKeys'[c] = old \o keys /\ toServer'[c] = msgs \o new
    BY <1>3, <1>6
  <1>9. keys \in Seq(Key) /\ cts \in Seq(Ciphertext) /\ ents \in Seq(KeyEntry) /\ Len(cts) = Len(p.plain)
    BY <1>8 DEF Sealed
  <1>10. PICK all, f, plain, list : all = old \o keys /\ f = p.file /\ plain = p.plain /\ list = p.keyList
    OBVIOUS
  <1>11. /\ Len(all) = p.pos /\ Len(old) \in Nat /\ Len(old) <= p.pos
         /\ Piece(cts, Cts(f, all), Len(old), p.pos)
         /\ Piece(ents, Ents(f, all), Len(old), p.pos)
         /\ \A n \in 1 .. Len(old) : /\ Cts(f, old)[n] = Cts(f, all)[n]
                                     /\ Ents(f, old)[n] = Ents(f, all)[n]
    <2>2. PICK j : j = p.pos
      OBVIOUS
    <2>1. plain \in Seq(Chunk) /\ Sealed(plain, keys, cts, ents) /\ Piece(plain, f, Len(old), j) /\ old \in Seq(Key)
      BY <1>4, <1>5, <1>8, <1>10, <2>2
    <2>3. all = old \o keys
      BY <1>10
    <2>4. Grown(f, old, all, cts, ents, j)
      BY ONLY <2>1, <2>3, SealedMore
    <2> QED  BY <2>2, <2>4 DEF Grown
  <1>12. all \in Seq(Key)
    BY ONLY <1>4, <1>9, <1>10, ConcatIs
  <1>13. list \o ents \in Seq(KeyEntry) /\ p.pos \in Nat
    <2>1. list \in Seq(KeyEntry)
      BY <1>4, <1>10
    <2>2. Len(all) \in Nat
      BY <1>12
    <2> QED  BY ONLY <1>9, <1>11, <2>1, <2>2, ConcatIs
  <1>14. r \in Seq(Msg) /\ e \in Seq(Msg)
    <2>1. Message("CLIENT_UPLOAD_RECIPE", list \o ents) \in Msg /\ Message("CLIENT_UPLOAD_RECIPE_END", <<p.pos>>) \in Msg
      BY <1>13 DEF Message, Msg
    <2>2. PICK x, y : x = Message("CLIENT_UPLOAD_RECIPE", list \o ents) /\ y = Message("CLIENT_UPLOAD_RECIPE_END", <<p.pos>>)
      OBVIOUS
    <2>3. <<x>> \in Seq(Msg) /\ <<y>> \in Seq(Msg) /\ <<>> \in Seq(Msg)
      BY <2>1, <2>2
    <2>4. (r = <<>> \/ r = <<x>>) /\ (e = <<>> \/ e = <<y>>)
      BY <1>7, <1>10, <2>2
    <2> QED  BY ONLY <2>3, <2>4
  <1>15. k \in Seq(Msg)
    <2>1. cts # <<>>
      <3>1. p.plain # <<>> /\ p.plain \in Seq(Chunk)
        BY <1>1, <1>3, <1>4 DEF BatchOK, Batching, Uploading
      <3> QED  BY ONLY <1>9, <1>10, <3>1, EmptyIff
    <2>2. Message("CLIENT_UPLOAD_CHUNK", cts) \in Msg
      BY <1>9, <2>1 DEF Message, Msg
    <2> QED  BY <1>7, <2>2
  <1>16. FlowOf(q, all, msgs \o (r \o k \o e), kr, addrs, rest, head, in)
    <2>1. \/ e = <<>> /\ q.op # "finish"
          \/ e = <<Message(EndType, <<Len(p.file)>>)>> /\ q.op = "finish" /\ q.keyList = <<>>
      BY <1>5, <1>7 DEF EndType
    <2>2. /\ \A n \in 1 .. Len(old) : /\ Cts(p.file, old)[n] = Cts(p.file, all)[n]
                                      /\ Ents(p.file, old)[n] = Ents(p.file, all)[n]
          /\ Piece(cts, Cts(p.file, all), Len(old), Len(all))
          /\ Piece(ents, Ents(p.file, all), Len(old), Len(all))
      BY <1>10, <1>11
    <2>3. p.op # "finish"
      BY <1>2, <1>3
    <2> QED
      BY ONLY <1>4, <1>7, <1>9, <1>12, <1>14, <1>15, <2>1, <2>2, <2>3, FlowSends
  <1>17. AddrFlow(addrs, Cts(q.file, all), K)
    <2>1. PICK F, G, n : F = Cts(p.file, old) /\ G = Cts(p.file, all) /\ n = Len(old)
      OBVIOUS
    <2>2. ChunkFlow(F, n, addrs, rest, msgs)
      BY <1>4, <2>1 DEF FlowOf
    <2>3. Stream(F, Len(addrs) + Len(rest), msgs, {"CLIENT_UPLOAD_CHUNK"}, n)
      BY <2>2 DEF ChunkFlow
    <2>4. Len(addrs) + Len(rest) <= n /\ n \in Nat
      BY <1>4, <2>3, StreamRange
    <2>5. Len(addrs) \in Nat /\ Len(rest) \in Nat
      BY <1>4
    <2>6. Len(addrs) <= n
      BY ONLY <2>4, <2>5
    <2>7. \A i \in 1 .. n : F[i] = G[i]
      BY <1>10, <1>11, <2>1
    <2>8. AddrFlow(addrs, G, K)
      BY ONLY <1>4, <2>1, <2>4, <2>5, <2>6, <2>7, AddrGrows
    <2> QED  BY <1>7, <2>1, <2>8
  <1>18. AddrsOf(c)' = addrs
    BY <1>1, <1>3 DEF AddrsOf
  <1> QED  BY <1>1, <1>3, <1>7, <1>8, <1>10, <1>16, <1>17, <1>18 DEF Flow

LEMMA FlowEnd ==
    ASSUME BaseInv, NEW c \in Client, Flows(c), Keeps(Held, Held'), EndUpload(c)
    PROVE  Flows(c)'
  <1> SUFFICES ASSUME serverUp', client'[c].op \in Sending PROVE Flow(c)'
    BY DEF Flows
  <1>0. Shape /\ ClientOK(c)
    BY DEF BaseInv, AtRest
  <1>1. /\ client[c].op = "end" /\ serverUp' = serverUp /\ srv' = srv /\ recipe' = recipe
        /\ keyRecipe' = keyRecipe
    BY DEF EndUpload, serverVars
  <1>2. serverUp /\ client[c].op \in Sending /\ client[c].op # "finish"
    BY <1>1 DEF Sending
  <1>3. PICK p, q, keys, msgs, kr, addrs, rest, head, in, K :
           /\ p = client[c] /\ q = client'[c] /\ keys = localKeys[c] /\ msgs = toServer[c]
           /\ kr = keyRecipe[c] /\ addrs = AddrsOf(c) /\ rest = srv[c].rest /\ head = recipe[c].head
           /\ in = srv[c].inRecipe /\ K = Held'
    OBVIOUS
  <1>4. /\ msgs \in Seq(Msg) /\ kr \in Seq(KeyEntry) /\ addrs \in Seq(Addr) /\ keys \in Seq(Key)
        /\ p.keyList \in Seq(KeyEntry) /\ rest \in Seq(Ciphertext)
        /\ FlowOf(p, keys, msgs, kr, addrs, rest, head, in) /\ AddrFlow(addrs, Cts(p.file, keys), K)
        /\ BatchOK(p, keys) /\ ProcessOK(p)
    BY <1>2, <1>3, FlowNow, AddrKeeps DEF Flow
  <1>5. p.pos = Len(p.file) /\ p.pos \in Nat
    BY <1>1, <1>3, <1>4 DEF BatchOK, ProcessOK, Uploading
  <1>6. PICK new : /\ toServer'[c] = toServer[c] \o new /\ localKeys' = localKeys
                   /\ SendsTo(client[c], client'[c], new, client[c].keyList,
                              client[c].keyList # <<>>, <<>>, FALSE, TRUE)
                   /\ client'[c].keyList = <<>>
    BY <1>0, EndIs
  <1>7. PICK r, e, list :
           /\ list = p.keyList /\ new = r \o <<>> \o e /\ q.file = p.file /\ q.keyList = <<>>
           /\ q.op = "finish"
           /\ \/ r = <<>> /\ list = <<>>
              \/ r = <<Message("CLIENT_UPLOAD_RECIPE", list)>>
           /\ e = <<Message("CLIENT_UPLOAD_RECIPE_END", <<p.pos>>)>>
    <2>1. SendsTo(p, q, new, p.keyList, p.keyList # <<>>, <<>>, FALSE, TRUE) /\ q.keyList = <<>>
      BY <1>3, <1>6
    <2>2. /\ new = RecipeMsg(p.keyList, p.keyList # <<>>) \o ChunkMsg(<<>>, FALSE) \o EndMsg(p.pos, TRUE)
          /\ q.file = p.file /\ q.op = "finish"
      BY <2>1 DEF SendsTo
    <2>3. ChunkMsg(<<>>, FALSE) = <<>> /\ EndMsg(p.pos, TRUE) = <<Message("CLIENT_UPLOAD_RECIPE_END", <<p.pos>>)>>
      BY DEF ChunkMsg, EndMsg
    <2>4. \/ RecipeMsg(p.keyList, p.keyList # <<>>) = <<>> /\ p.keyList = <<>>
          \/ RecipeMsg(p.keyList, p.keyList # <<>>) = <<Message("CLIENT_UPLOAD_RECIPE", p.keyList)>>
      BY DEF RecipeMsg
    <2> QED  BY <2>1, <2>2, <2>3, <2>4
  <1>8. list \in Seq(KeyEntry) /\ list \o <<>> = list /\ <<>> \in Seq(KeyEntry) /\ <<>> \in Seq(Ciphertext)
    BY <1>4, <1>7
  <1>9. r \in Seq(Msg) /\ e \in Seq(Msg) /\ <<>> \in Seq(Msg)
    <2>1. Message("CLIENT_UPLOAD_RECIPE", list) \in Msg /\ Message("CLIENT_UPLOAD_RECIPE_END", <<p.pos>>) \in Msg
      BY <1>5, <1>8 DEF Message, Msg
    <2>2. PICK x, y : x = Message("CLIENT_UPLOAD_RECIPE", list) /\ y = Message("CLIENT_UPLOAD_RECIPE_END", <<p.pos>>)
      OBVIOUS
    <2>3. <<x>> \in Seq(Msg) /\ <<y>> \in Seq(Msg) /\ <<>> \in Seq(Msg)
      BY <2>1, <2>2
    <2>4. (r = <<>> \/ r = <<x>>) /\ e = <<y>>
      BY <1>7, <2>2
    <2> QED  BY ONLY <2>3, <2>4
  <1>10. FlowOf(q, keys, msgs \o (r \o <<>> \o e), kr, addrs, rest, head, in)
    <2>1. PICK k, cts, ents : k = <<>> /\ cts = <<>> /\ ents = <<>>
      OBVIOUS
    <2>2. Piece(cts, Cts(p.file, keys), Len(keys), Len(keys)) /\ Piece(ents, Ents(p.file, keys), Len(keys), Len(keys))
      <3>1. Len(keys) \in Nat
        BY <1>4
      <3> QED  BY <2>1, <3>1, PieceNone
    <2>3. \/ r = <<>> /\ q.keyList = p.keyList \o ents
          \/ r = <<Message("CLIENT_UPLOAD_RECIPE", p.keyList \o ents)>> /\ q.keyList = <<>>
      BY <1>7, <1>8, <2>1
    <2>4. e = <<Message(EndType, <<Len(p.file)>>)>>
      BY <1>5, <1>7 DEF EndType
    <2>5. /\ \A n \in 1 .. Len(keys) : /\ Cts(p.file, keys)[n] = Cts(p.file, keys)[n]
                                       /\ Ents(p.file, keys)[n] = Ents(p.file, keys)[n]
          /\ k \in Seq(Msg) /\ cts \in Seq(Ciphertext) /\ ents \in Seq(KeyEntry)
          /\ p.op # "finish"
      BY <1>2, <1>3, <1>8, <1>9, <2>1
    <2>6. FlowOf(q, keys, msgs \o (r \o k \o e), kr, addrs, rest, head, in)
      BY ONLY <1>4, <1>7, <1>9, <2>1, <2>2, <2>3, <2>4, <2>5, FlowSends
    <2> QED  BY <2>1, <2>6
  <1>11. AddrsOf(c)' = addrs
    BY <1>1, <1>3 DEF AddrsOf
  <1> QED  BY <1>1, <1>3, <1>4, <1>6, <1>7, <1>10, <1>11 DEF Flow

(* The steps that concern neither the recipes nor the session's batch. *)
LEMMA FlowSame ==
    ASSUME NEW c \in Client, Flows(c), Keeps(Held, Held'), serverUp' => serverUp,
           localKeys'[c] = localKeys[c], toServer'[c] = toServer[c],
           keyRecipe'[c] = keyRecipe[c], recipe'[c] = recipe[c], srv'[c].rest = srv[c].rest,
           srv'[c].inRecipe = srv[c].inRecipe, client'[c].file = client[c].file,
           client'[c].keyList = client[c].keyList,
           client'[c].op \in Sending => client[c].op \in Sending,
           client'[c].op = "finish" <=> client[c].op = "finish"
    PROVE  Flows(c)'
  <1> SUFFICES ASSUME serverUp', client'[c].op \in Sending PROVE Flow(c)'
    BY DEF Flows
  <1>1. Flow(c)
    BY DEF Flows
  <1>2. PICK p, q, keys, msgs, kr, addrs, rest, head, in, K :
           /\ p = client[c] /\ q = client'[c] /\ keys = localKeys[c] /\ msgs = toServer[c]
           /\ kr = keyRecipe[c] /\ addrs = AddrsOf(c) /\ rest = srv[c].rest /\ head = recipe[c].head
           /\ in = srv[c].inRecipe /\ K = Held'
    OBVIOUS
  <1>3. FlowOf(p, keys, msgs, kr, addrs, rest, head, in) /\ AddrFlow(addrs, Cts(p.file, keys), K)
    BY <1>1, <1>2, AddrKeeps DEF Flow
  <1>4. q.file = p.file /\ q.keyList = p.keyList /\ (q.op = "finish" <=> p.op = "finish")
    BY <1>2
  <1>5. FlowOf(q, keys, msgs, kr, addrs, rest, head, in) /\ AddrFlow(addrs, Cts(q.file, keys), K)
    BY <1>3, <1>4 DEF FlowOf, EndFlow
  <1>6. AddrsOf(c)' = addrs
    BY <1>2 DEF AddrsOf
  <1> QED  BY <1>2, <1>5, <1>6 DEF Flow

(* A step after which the client sends nothing. *)
LEMMA FlowAway == ASSUME NEW c \in Client, client'[c].op \notin Sending PROVE Flows(c)'
  BY DEF Flows

LEMMA FlowStep ==
    ASSUME BaseInv, NEW c \in Client, Step(c), Flows(c), Keeps(Held, Held'), BaseInv',
           AddressesResolve, AddressesResolve'
    PROVE  Flows(c)'
  <1>0. Shape /\ ClientOK(c) /\ Proto(c) /\ ServerOK(c) /\ DOMAIN client[c] = DOMAIN Process
        /\ SessionOK(srv[c])
    BY DEF BaseInv, AtRest, ClientOK, ProcessOK, Process, ServerOK
  <1>1. PICK p, q : p = client[c] /\ q = client'[c]
    OBVIOUS
  <1>2. CASE \/ StartUpload(c) \/ StartRestore(c) \/ Abort(c) \/ ExitRestore(c) \/ ClientFails(c) \/ Again(c)
    <2>1. q.op \in {"login", "loginRestore", "dead", "idle"}
      <3>1. CASE StartUpload(c)  BY <1>0, <1>1, <3>1 DEF StartUpload, Process, Shape
      <3>2. CASE StartRestore(c)  BY <1>0, <1>1, <3>2 DEF StartRestore, Process, Shape
      <3>3. CASE Abort(c) \/ ClientFails(c)  BY <1>0, <1>1, <3>3 DEF Abort, ClientFails, Process, Shape
      <3>4. CASE ExitRestore(c) \/ Again(c)  BY <1>0, <1>1, <3>4 DEF ExitRestore, Again, Process, Shape
      <3> QED  BY <1>2, <3>1, <3>2, <3>3, <3>4
    <2> QED  BY <1>1, <2>1, FlowAway DEF Sending
  <1>3. CASE ConnectionClosed(c) \/ CloseKeyThread(c)
    <2>1. p.op \in {"finish", "closeKM", "dead"} /\ (p.op = "dead" => q = p)
          /\ (q = p \/ q = Process \/ q = [p EXCEPT !.op = "closeKM"])
          /\ (p.op = "finish" => q = Process \/ q = [p EXCEPT !.op = "closeKM"])
          /\ (p.op = "closeKM" => q = Process)
      BY <1>0, <1>1, <1>3 DEF ConnectionClosed, CloseKeyThread, PeerGone, Shape
    <2>2. q.op \notin Sending
      BY <1>0, <1>1, <2>1 DEF Process, Sending
    <2> QED  BY <1>1, <2>2, FlowAway
  <1>4. CASE \/ RestoreUnknown(c) \/ RequestKeys(c) \/ GenerateKeySeed(c) \/ ReplyKeys(c) \/ DecoderFails(c)
    <2>1. /\ client' = client /\ localKeys' = localKeys /\ toServer' = toServer /\ srv' = srv
          /\ recipe' = recipe /\ keyRecipe' = keyRecipe
      BY <1>4 DEF RestoreUnknown, RequestKeys, GenerateKeySeed, ReplyKeys, DecoderFails, serverVars
    <2>2. serverUp' => serverUp
      BY StaysUp
    <2> QED  BY <2>1, <2>2, FlowSame
  <1>5. CASE FillBatch(c)
    <2>1. /\ localKeys' = localKeys /\ toServer' = toServer /\ srv' = srv
          /\ recipe' = recipe /\ keyRecipe' = keyRecipe
      BY <1>5 DEF FillBatch, serverVars
    <2>2. q.file = p.file /\ q.keyList = p.keyList /\ p.op = "pop" /\ q.op \in {"batch", "lastBatch", "end"}
      BY <1>0, <1>1, <1>5 DEF FillBatch, Shape, Process
    <2>3. serverUp' => serverUp
      BY StaysUp
    <2>4. /\ client'[c].file = client[c].file /\ client'[c].keyList = client[c].keyList
          /\ client'[c].op \in Sending => client[c].op \in Sending
          /\ client'[c].op = "finish" <=> client[c].op = "finish"
      BY <1>1, <2>2 DEF Sending
    <2> QED  BY <2>1, <2>3, <2>4, FlowSame
  <1>6. CASE LastContainer(c) \/ EndSession(c) \/ DecodeEntry(c) \/ DecodeTail(c)
    <2>1. serverUp /\ client' = client /\ srv[c].pc \notin Busy
      BY <1>6 DEF LastContainer, EndSession, DecodeEntry, DecodeTail, Busy
    <2>2. client[c].op \notin Sending
      BY <1>0, <2>1 DEF Proto, ProtoAt
    <2> QED  BY <2>1, <2>2, FlowAway
  <1>7. CASE RejectRestore(c) \/ AdmitRestore(c) \/ CloseRestore(c)
    <2>1. serverUp /\ srv[c].pc \notin Busy
          /\ (q = p \/ q.op \in {"idle", "receive", "restored", "dead"})
      BY <1>0, <1>1, <1>7 DEF RejectRestore, AdmitRestore, CloseRestore, Login, Responds, Busy, Shape, Process
    <2>2. client[c].op \notin Sending
      BY <1>0, <2>1 DEF Proto, ProtoAt
    <2>3. client'[c].op \notin Sending
      BY <1>1, <2>1, <2>2 DEF Sending
    <2> QED  BY <2>3, FlowAway
  <1>8. CASE SaveToFile(c)
    <2>1. /\ client' = client /\ localKeys' = localKeys /\ toServer' = toServer
          /\ recipe' = recipe /\ keyRecipe' = keyRecipe
          /\ srv'[c] = [srv[c] EXCEPT !.inputMQ = Tail(@)]
      BY <1>0, <1>8 DEF SaveToFile, Shape
    <2>2. srv'[c].rest = srv[c].rest /\ srv'[c].inRecipe = srv[c].inRecipe
      BY <1>0, <2>1 DEF SessionOK
    <2>3. serverUp' => serverUp
      BY StaysUp
    <2> QED  BY <2>1, <2>2, <2>3, FlowSame
  <1>9. CASE ReceiveChunks(c)
    <2>1. p.op = "receive" /\ q.op \in {"receive", "closing"}
      BY <1>0, <1>1, <1>9, Zenon DEF ReceiveChunks, Shape, Process
    <2> QED  BY <1>1, <2>1, FlowAway DEF Sending
  <1> QED
    BY <1>2, <1>3, <1>4, <1>5, <1>6, <1>7, <1>8, <1>9, FlowAdmit, FlowReceive, FlowStore, FlowEncrypt,
       FlowEnd DEF Step

LEMMA FlowFrame ==
    ASSUME NEW c \in Client, NEW d \in Client, Step(c), Frame(d), Flows(d), Keeps(Held, Held')
    PROVE  Flows(d)'
  <1>1. serverUp' => serverUp
    BY StaysUp
  <1> QED  BY <1>1, FlowSame DEF Frame
-----------------------------------------------------------------------------
(* What the history says of the state: a file counts as committed only while  *)
(* nothing of an upload is left, and as settled only while no upload is open. *)
Sent(msgs) == \E n \in DOMAIN msgs : msgs[n].type # "CLIENT_LOGIN_DOWNLOAD"
Hist(c) ==
    /\ client[c].op \in Uploading \/ srv[c].pc \in Busy \/ Sent(toServer[c]) => committed[c] = NoFile
    /\ c \in settled => srv[c].pc \notin OpenPcs /\ client[c].op \notin Sending \cup {"closeKM"}

LEMMA PrefixIs ==
    ASSUME NEW S, NEW s \in Seq(S), NEW n \in 0 .. Len(s)
    PROVE  DOMAIN SubSeq(s, 1, n) \subseteq DOMAIN s /\ \A k \in DOMAIN SubSeq(s, 1, n) : SubSeq(s, 1, n)[k] = s[k]
  <1>1. n \in Nat /\ n <= Len(s) /\ Len(s) \in Nat
    OBVIOUS
  <1>2. PICK u : u = SubSeq(s, 1, n)
    OBVIOUS
  <1>3. u \in Seq(S) /\ Len(u) = n
    BY <1>1, <1>2
  <1>4. DOMAIN u = 1 .. n
    BY <1>3
  <1>5. \A k \in 1 .. n : u[k] = s[k]
    BY <1>1, <1>2
  <1> QED  BY <1>1, <1>2, <1>4, <1>5

LEMMA SentTail == ASSUME NEW s \in Seq(Msg), s # <<>>, Sent(Tail(s)) PROVE Sent(s)
  <1>1. PICK u, n : u = Tail(s) /\ n \in DOMAIN u /\ u[n].type # "CLIENT_LOGIN_DOWNLOAD"
    BY DEF Sent
  <1>2. u \in Seq(Msg) /\ Len(u) = Len(s) - 1 /\ Len(s) \in Nat /\ \A i \in 1 .. Len(s) - 1 : u[i] = s[i + 1]
    BY ONLY <1>1, MsgTail, s \in Seq(Msg), s # <<>>
  <1>3. n \in 1 .. Len(s) - 1
    BY <1>1, <1>2
  <1>4. n + 1 \in DOMAIN s /\ s[n + 1].type # "CLIENT_LOGIN_DOWNLOAD"
    BY <1>1, <1>2, <1>3
  <1> QED  BY <1>4 DEF Sent

LEMMA SentHead == ASSUME NEW s \in Seq(Msg), s # <<>>, Head(s).type # "CLIENT_LOGIN_DOWNLOAD" PROVE Sent(s)
  <1>1. 1 \in DOMAIN s /\ Head(s) = s[1]
    OBVIOUS
  <1> QED  BY <1>1 DEF Sent

(* How a step moves the client and its session. *)
LEMMA PhaseStep ==
    ASSUME BaseInv, NEW c \in Client, Step(c), ~AdmitUpload(c)
    PROVE  /\ settled' = settled
           /\ client'[c].op \in Sending \cup {"closeKM"} => client[c].op \in Sending \cup {"closeKM"}
           /\ srv'[c].pc \in OpenPcs => srv[c].pc \in OpenPcs
           /\ srv'[c].pc \in Busy => srv[c].pc \in Busy
  <1>0. Shape /\ DOMAIN client[c] = DOMAIN Process /\ SessionOK(srv[c]) /\ ServerOK(c) /\ StoreOK /\ Decoding(c)
    BY DEF BaseInv, AtRest, ClientOK, ProcessOK, Process, ServerOK
  <1>1. PICK p, q, s, u : p = client[c] /\ q = client'[c] /\ s = srv[c] /\ u = srv'[c]
    OBVIOUS
  <1>2. settled' = settled
    <2>1. CASE \/ StartUpload(c) \/ StartRestore(c) \/ RestoreUnknown(c) \/ Abort(c) \/ FillBatch(c)
               \/ RequestKeys(c) \/ EncryptBatch(c) \/ EndUpload(c)
      BY <2>1, Zenon DEF StartUpload, StartRestore, RestoreUnknown, Abort, FillBatch, RequestKeys, EncryptBatch,
         EndUpload, history
    <2>2. CASE \/ ReceiveChunks(c) \/ ExitRestore(c) \/ GenerateKeySeed(c) \/ ReplyKeys(c) \/ CloseKeyThread(c)
               \/ ProcessRecipes(c) \/ ReceiveBatch(c) \/ QueryIndex(c) \/ StoreChunk(c)
      BY <2>2, Zenon DEF ReceiveChunks, ExitRestore, GenerateKeySeed, ReplyKeys, CloseKeyThread, ProcessRecipes,
         ReceiveBatch, QueryIndex, StoreChunk, history
    <2>3. CASE \/ ProcessRecipeEnd(c) \/ ConnectionClosed(c) \/ LastContainer(c) \/ EndSession(c) \/ SaveToFile(c)
               \/ RejectRestore(c) \/ AdmitRestore(c) \/ DecodeEntry(c) \/ DecodeTail(c)
               \/ DecoderFails(c) \/ CloseRestore(c) \/ ClientFails(c) \/ Again(c)
      BY <2>3 DEF ProcessRecipeEnd, ConnectionClosed, LastContainer, EndSession, SaveToFile, RejectRestore,
         AdmitRestore, DecodeEntry, DecodeTail, DecoderFails, CloseRestore, ClientFails, Again, history
    <2> QED  BY <2>1, <2>2, <2>3 DEF Step
  <1>3. q.op \in Sending \cup {"closeKM"} => p.op \in Sending \cup {"closeKM"}
    <2>1. CASE StartUpload(c) \/ StartRestore(c)
      <3>1. CASE StartUpload(c)  BY <1>0, <1>1, <3>1 DEF StartUpload, Shape, Process, Sending
      <3>2. CASE StartRestore(c)  BY <1>0, <1>1, <3>2 DEF StartRestore, Shape, Process, Sending
      <3> QED  BY <2>1, <3>1, <3>2
    <2>2. CASE Abort(c) \/ ClientFails(c) \/ ExitRestore(c) \/ Again(c)
      BY <1>0, <1>1, <2>2 DEF Abort, ClientFails, ExitRestore, Again, Shape, Process, Sending
    <2>3. CASE FillBatch(c) \/ EncryptBatch(c) \/ EndUpload(c) \/ ConnectionClosed(c)
      <3>1. p.op \in {"pop", "batch", "lastBatch", "end", "finish"} \/ q = p
        BY <1>0, <1>1, <2>3, Zenon DEF FillBatch, EncryptBatch, EndUpload, ConnectionClosed, PeerGone, Shape
      <3> QED  BY <3>1 DEF Sending
    <2>4. CASE CloseKeyThread(c)
      BY <1>0, <1>1, <2>4 DEF CloseKeyThread, Shape, Process
    <2>5. CASE ReceiveChunks(c)
      BY <1>0, <1>1, <2>5, Zenon DEF ReceiveChunks, Shape, Process, Sending
    <2>6. CASE RejectRestore(c) \/ AdmitRestore(c) \/ CloseRestore(c)
      <3>1. q = p \/ q.op \in {"idle", "receive", "restored", "dead"}
        BY <1>0, <1>1, <2>6 DEF RejectRestore, AdmitRestore, CloseRestore, Login, Responds, Shape, Process
      <3> QED  BY <3>1 DEF Sending
    <2>7. CASE \/ RestoreUnknown(c) \/ RequestKeys(c) \/ GenerateKeySeed(c) \/ ReplyKeys(c) \/ ProcessRecipes(c)
               \/ ReceiveBatch(c) \/ QueryIndex(c) \/ StoreChunk(c) \/ ProcessRecipeEnd(c) \/ LastContainer(c)
               \/ EndSession(c) \/ SaveToFile(c) \/ DecodeEntry(c) \/ DecodeTail(c) \/ DecoderFails(c)
      <3>1. client' = client
        BY <2>7, Zenon DEF RestoreUnknown, RequestKeys, GenerateKeySeed, ReplyKeys, ProcessRecipes, ReceiveBatch,
           QueryIndex, StoreChunk, ProcessRecipeEnd, LastContainer, EndSession, SaveToFile, DecodeEntry,
           DecodeTail, DecoderFails
      <3> QED  BY <1>1, <3>1
    <2> QED  BY <2>1, <2>2, <2>3, <2>4, <2>5, <2>6, <2>7 DEF Step
  <1>4. (u.pc \in OpenPcs => s.pc \in OpenPcs) /\ (u.pc \in Busy => s.pc \in Busy)
    <2>1. CASE \/ StartUpload(c) \/ StartRestore(c) \/ RestoreUnknown(c) \/ Abort(c) \/ FillBatch(c)
             \/ RequestKeys(c) \/ EncryptBatch(c) \/ EndUpload(c) \/ ReceiveChunks(c) \/ ExitRestore(c)
             \/ GenerateKeySeed(c) \/ ReplyKeys(c) \/ CloseKeyThread(c) \/ RejectRestore(c)
             \/ DecoderFails(c) \/ ClientFails(c) \/ Again(c) \/ ProcessRecipes(c)
      <3>1. srv' = srv
        BY <2>1, Zenon DEF StartUpload, StartRestore, RestoreUnknown, Abort, FillBatch, RequestKeys, EncryptBatch,
           EndUpload, ReceiveChunks, ExitRestore, GenerateKeySeed, ReplyKeys, CloseKeyThread, RejectRestore,
           DecoderFails, ClientFails, Again, ProcessRecipes, serverVars
      <3> QED  BY <1>1, <3>1
    <2>2. CASE ReceiveBatch(c) \/ QueryIndex(c) \/ StoreChunk(c)
      BY <1>1, <2>2 DEF ReceiveBatch, QueryIndex, StoreChunk, Receives, Busy, OpenPcs
    <2>3. CASE ProcessRecipeEnd(c) \/ SaveToFile(c)
      <3>1. u = [s EXCEPT !.inRecipe = <<>>] \/ u = [s EXCEPT !.inputMQ = Tail(@)]
        BY <1>0, <1>1, <2>3 DEF ProcessRecipeEnd, SaveToFile, Shape
      <3> QED  BY <1>0, <1>1, <3>1 DEF SessionOK
    <2>4. CASE ConnectionClosed(c)
      BY <1>0, <1>1, <2>4 DEF ConnectionClosed, Shape, SessionOK, Busy, OpenPcs
    <2>5. CASE LastContainer(c)
      <3>1. /\ s.pc = "last" /\ (u = [WriteContainer(s) EXCEPT !.pc = "join"] \/ u = [s EXCEPT !.pc = "join"])
        BY <1>0, <1>1, <2>5 DEF LastContainer, Shape
      <3>2. u.pc = "join"
        BY <1>0, <1>1, <3>1 DEF WriteContainer, SessionOK
      <3> QED  BY <3>1, <3>2 DEF Busy, OpenPcs
    <2>6. CASE EndSession(c) \/ CloseRestore(c)
      BY <1>0, <1>1, <2>6 DEF EndSession, CloseRestore, Shape, Session, Busy, OpenPcs
    <2>7. CASE AdmitRestore(c)
      BY <1>0, <1>1, <2>7, AdmitRestoreServer DEF Busy, OpenPcs
    <2>8. CASE DecodeEntry(c) \/ DecodeTail(c)
      <3>1. u.pc \notin OpenPcs
        BY <1>0, <1>1, <2>8, DecodeServer
      <3> QED  BY <3>1 DEF Busy, OpenPcs
    <2> QED  BY <2>1, <2>2, <2>3, <2>4, <2>5, <2>6, <2>7, <2>8 DEF Step
  <1> QED  BY <1>1, <1>2, <1>3, <1>4

LEMMA CommittedIs ==
    ASSUME Shape, NEW c \in Client, Step(c)
    PROVE  \/ committed'[c] = committed[c] /\ ~StartUpload(c)
           \/ committed'[c] = NoFile /\ StartUpload(c)
           \/ committed'[c] = client[c].file /\ client'[c] = Process /\ CloseKeyThread(c) /\ client[c].op = "closeKM"
           \/ committed'[c] = client[c].file /\ client'[c] = Process /\ ConnectionClosed(c) /\ client[c].op = "finish"
  <1>1. CASE StartUpload(c)
    BY <1>1 DEF StartUpload, Shape
  <1>2. CASE CloseKeyThread(c)
    <2>1. ~StartUpload(c)
      BY <1>2 DEF CloseKeyThread, StartUpload
    <2> QED  BY <1>2, <2>1 DEF CloseKeyThread, Committed, Shape
  <1>3. CASE ConnectionClosed(c)
    <2>1. ~StartUpload(c)
      BY <1>3 DEF ConnectionClosed, StartUpload, PeerGone
    <2> QED  BY <1>3, <2>1 DEF ConnectionClosed, Committed, PeerGone, Shape
  <1>4. CASE ~StartUpload(c) /\ ~CloseKeyThread(c) /\ ~ConnectionClosed(c)
    <2> USE DEF history
    <2>1. CASE \/ StartRestore(c) \/ RestoreUnknown(c) \/ Abort(c) \/ FillBatch(c)
               \/ RequestKeys(c) \/ EncryptBatch(c) \/ EndUpload(c) \/ AdmitUpload(c)
      BY <1>4, <2>1, Zenon DEF StartRestore, RestoreUnknown, Abort, FillBatch, RequestKeys, EncryptBatch,
         EndUpload, AdmitUpload
    <2>2. CASE \/ ReceiveChunks(c) \/ ExitRestore(c) \/ GenerateKeySeed(c) \/ ReplyKeys(c)
               \/ ProcessRecipes(c) \/ ReceiveBatch(c) \/ QueryIndex(c) \/ StoreChunk(c)
      BY <1>4, <2>2, Zenon DEF ReceiveChunks, ExitRestore, GenerateKeySeed, ReplyKeys, ProcessRecipes,
         ReceiveBatch, QueryIndex, StoreChunk
    <2>3. CASE \/ ProcessRecipeEnd(c) \/ LastContainer(c) \/ EndSession(c) \/ SaveToFile(c)
               \/ RejectRestore(c) \/ AdmitRestore(c) \/ DecodeEntry(c) \/ DecodeTail(c)
               \/ DecoderFails(c) \/ CloseRestore(c) \/ ClientFails(c) \/ Again(c)
      BY <1>4, <2>3 DEF ProcessRecipeEnd, LastContainer, EndSession, SaveToFile, RejectRestore,
         AdmitRestore, DecodeEntry, DecodeTail, DecoderFails, CloseRestore, ClientFails, Again
    <2> QED  BY <1>4, <2>1, <2>2, <2>3 DEF Step
  <1> QED  BY <1>1, <1>2, <1>3, <1>4

LEMMA HistStep ==
    ASSUME BaseInv, NEW c \in Client, Step(c), Hist(c)
    PROVE  Hist(c)'
  <1>0. Shape /\ ClientOK(c) /\ Proto(c) /\ ServerOK(c) /\ DOMAIN client[c] = DOMAIN Process /\ DOMAIN srv[c] = DOMAIN Session
    BY DEF BaseInv, AtRest, ClientOK, ProcessOK, Process, ServerOK, SessionOK, Session
  <1>1. PICK p, q, msgs, new : /\ p = client[c] /\ q = client'[c] /\ msgs = toServer[c] /\ new = toServer'[c]
    OBVIOUS
  <1>2. msgs \in Seq(Msg)
    BY <1>0, <1>1, ClientParts
  <1>3. c \in settled' => srv'[c].pc \notin OpenPcs /\ q.op \notin Sending \cup {"closeKM"}
    <2>1. CASE AdmitUpload(c)
      <3>1. c \notin settled'
        BY <2>1 DEF AdmitUpload
      <3> QED  BY <3>1
    <2>2. CASE ~AdmitUpload(c)
      BY <1>1, <2>2, PhaseStep DEF Hist
    <2> QED  BY <2>1, <2>2
  <1> DEFINE Goal == q.op \in Uploading \/ srv'[c].pc \in Busy \/ Sent(new) => committed'[c] = NoFile
             Was  == p.op \in Uploading \/ srv[c].pc \in Busy \/ Sent(msgs)
  <1> SUFFICES Goal
    BY <1>1, <1>3 DEF Hist
  <1>4. CASE committed'[c] = committed[c] /\ Was
    BY <1>1, <1>4 DEF Hist
  <1>5. CASE committed'[c] = NoFile
    BY <1>5
  <1>6. CASE committed'[c] = committed[c] /\ ~StartUpload(c) /\ ~Was
    <2> SUFFICES q.op \notin Uploading /\ srv'[c].pc \notin Busy /\ ~Sent(new)
      OBVIOUS
    <2>1. ~AdmitUpload(c)
      <3> SUFFICES ASSUME AdmitUpload(c) PROVE FALSE
        OBVIOUS
      <3>1. msgs # <<>> /\ Head(msgs).type = "CLIENT_LOGIN_UPLOAD"
        BY <1>1 DEF AdmitUpload, Login
      <3>2. Sent(msgs)
        BY <1>2, <3>1, SentHead
      <3> QED  BY <1>6, <3>2
    <2>2. srv'[c].pc \notin Busy
      BY <1>6, <2>1, PhaseStep
    <2>3. q.op \notin Uploading
      <3>1. q.op \notin Sending \cup {"closeKM"}
        <4>1. p.op \notin Sending \cup {"closeKM"}
          BY <1>6 DEF Uploading, Sending
        <4> QED  BY <1>1, <2>1, <4>1, PhaseStep
      <3>2. q.op # "login"
        <4>0. p.op # "login"
          BY <1>6 DEF Uploading
        <4>1. CASE StartRestore(c) \/ Abort(c) \/ ClientFails(c)
          BY <1>0, <1>1, <4>1 DEF StartRestore, Abort, ClientFails, Shape, Process
        <4>2. CASE ExitRestore(c) \/ Again(c)
          BY <1>0, <1>1, <4>2 DEF ExitRestore, Again, Shape, Process
        <4>3. CASE FillBatch(c) \/ EncryptBatch(c) \/ EndUpload(c)
          <5>1. p.op \in Uploading
            BY <1>1, <4>3, Zenon DEF FillBatch, EncryptBatch, EndUpload, Uploading
          <5> QED  BY <1>6, <5>1
        <4>4. CASE ConnectionClosed(c) \/ CloseKeyThread(c)
          <5>1. q = p \/ q = Process \/ q = [p EXCEPT !.op = "closeKM"]
            BY <1>0, <1>1, <4>4 DEF ConnectionClosed, CloseKeyThread, Shape
          <5> QED  BY <1>0, <1>1, <4>0, <5>1 DEF Process
        <4>5. CASE ReceiveChunks(c)
          BY <1>0, <1>1, <4>5, Zenon DEF ReceiveChunks, Shape, Process
        <4>6. CASE RejectRestore(c) \/ AdmitRestore(c) \/ CloseRestore(c)
          <5>1. q = p \/ q.op \in {"idle", "receive", "restored", "dead"}
            BY <1>0, <1>1, <4>6 DEF RejectRestore, AdmitRestore, CloseRestore, Login, Responds, Shape, Process
          <5> QED  BY <4>0, <5>1
        <4>7. CASE \/ RestoreUnknown(c) \/ RequestKeys(c) \/ GenerateKeySeed(c) \/ ReplyKeys(c) \/ ProcessRecipes(c)
                   \/ ReceiveBatch(c) \/ QueryIndex(c) \/ StoreChunk(c) \/ ProcessRecipeEnd(c) \/ LastContainer(c)
                   \/ EndSession(c) \/ SaveToFile(c) \/ DecodeEntry(c) \/ DecodeTail(c) \/ DecoderFails(c)
          <5>1. client' = client
            BY <4>7, Zenon DEF RestoreUnknown, RequestKeys, GenerateKeySeed, ReplyKeys, ProcessRecipes, ReceiveBatch,
               QueryIndex, StoreChunk, ProcessRecipeEnd, LastContainer, EndSession, SaveToFile, DecodeEntry,
               DecodeTail, DecoderFails
          <5> QED  BY <1>1, <4>0, <5>1
        <4> QED  BY <1>6, <2>1, <4>1, <4>2, <4>3, <4>4, <4>5, <4>6, <4>7 DEF Step
      <3> QED  BY <3>1, <3>2 DEF Uploading, Sending
    <2>4. ~Sent(new)
      <3>1. CASE StartRestore(c)
        <4>1. PICK x : x = Message("CLIENT_LOGIN_DOWNLOAD", <<>>)
          OBVIOUS
        <4>2. new = <<x>> /\ x.type = "CLIENT_LOGIN_DOWNLOAD"
          BY <1>0, <1>1, <3>1, <4>1 DEF StartRestore, Shape, Message
        <4>3. DOMAIN <<x>> = {1} /\ <<x>>[1] = x
          OBVIOUS
        <4> QED  BY <4>2, <4>3 DEF Sent
      <3>2. CASE Abort(c)
        <4>1. PICK n \in 0 .. Len(msgs) : new = SubSeq(msgs, 1, n)
          BY <1>0, <1>1, <3>2 DEF Abort, Shape
        <4>2. DOMAIN new \subseteq DOMAIN msgs /\ \A k \in DOMAIN new : new[k] = msgs[k]
          BY <1>2, <4>1, PrefixIs
        <4> QED  BY <1>6, <4>2 DEF Sent
      <3>3. CASE EncryptBatch(c) \/ EndUpload(c)
        <4>1. p.op \in Uploading
          BY <1>1, <3>3, Zenon DEF EncryptBatch, EndUpload, Uploading
        <4> QED  BY <1>6, <4>1
      <3>4. CASE RejectRestore(c) \/ AdmitRestore(c) \/ ProcessRecipes(c) \/ ReceiveBatch(c) \/ ProcessRecipeEnd(c)
        <4>1. new = Tail(msgs) /\ msgs # <<>>
          BY <1>0, <1>1, <3>4, Zenon DEF RejectRestore, AdmitRestore, ProcessRecipes, ReceiveBatch, ProcessRecipeEnd,
             Login, Receives, Shape
        <4> QED  BY <1>2, <1>6, <4>1, SentTail
      <3>5. CASE \/ RestoreUnknown(c) \/ FillBatch(c) \/ RequestKeys(c) \/ ReceiveChunks(c) \/ ExitRestore(c)
                 \/ GenerateKeySeed(c) \/ ReplyKeys(c) \/ CloseKeyThread(c) \/ QueryIndex(c) \/ StoreChunk(c)
                 \/ ConnectionClosed(c) \/ LastContainer(c) \/ EndSession(c) \/ SaveToFile(c) \/ DecodeEntry(c)
                 \/ DecodeTail(c) \/ DecoderFails(c) \/ CloseRestore(c) \/ ClientFails(c) \/ Again(c)
        <4>1. toServer' = toServer
          BY <3>5, Zenon DEF RestoreUnknown, FillBatch, RequestKeys, ReceiveChunks, ExitRestore, GenerateKeySeed,
             ReplyKeys, CloseKeyThread, QueryIndex, StoreChunk, ConnectionClosed, LastContainer, EndSession,
             SaveToFile, DecodeEntry, DecodeTail, DecoderFails, CloseRestore, ClientFails, Again
        <4> QED  BY <1>1, <1>6, <4>1
      <3> QED  BY <1>6, <2>1, <3>1, <3>2, <3>3, <3>4, <3>5 DEF Step
    <2> QED  BY <2>2, <2>3, <2>4
  <1>7. CASE q = Process /\ ((CloseKeyThread(c) /\ p.op = "closeKM") \/ (ConnectionClosed(c) /\ p.op = "finish"))
    <2>1. q.op \notin Uploading
      BY <1>7 DEF Process, Uploading
    <2>2. srv'[c].pc \notin Busy /\ new = <<>>
      <3>1. CASE CloseKeyThread(c) /\ p.op = "closeKM"
        BY <1>0, <1>1, <3>1 DEF CloseKeyThread, serverVars, Proto, Quiet, Busy
      <3>2. CASE ConnectionClosed(c) /\ p.op = "finish"
        <4>1. srv'[c].pc = "last" /\ new = <<>>
          BY <1>0, <1>1, <3>2 DEF ConnectionClosed, Shape, Session
        <4> QED  BY <4>1 DEF Busy
      <3> QED  BY <1>7, <3>1, <3>2
    <2>3. ~Sent(<<>>)
      BY DEF Sent
    <2> QED  BY <2>1, <2>2, <2>3
  <1>8. \/ committed'[c] = committed[c] /\ ~StartUpload(c)
        \/ committed'[c] = NoFile
        \/ q = Process /\ ((CloseKeyThread(c) /\ p.op = "closeKM") \/ (ConnectionClosed(c) /\ p.op = "finish"))
    BY <1>0, <1>1, CommittedIs
  <1> HIDE DEF Goal, Was
  <1> QED  BY <1>4, <1>5, <1>6, <1>7, <1>8

(* The history of another client. *)
LEMMA HistFrame ==
    ASSUME BaseInv, NEW c \in Client, NEW d \in Client \ {c}, Step(c), Frame(d), Hist(d)
    PROVE  Hist(d)'
  <1>1. ServerOK(d) /\ SessionOK(srv[d])
    BY DEF BaseInv, AtRest, ServerOK
  <1>2. ASSUME d \in settled' PROVE srv[d].pc \notin OpenPcs /\ client[d].op \notin Sending \cup {"closeKM"}
    <2>1. CASE d \in settled
      BY <2>1 DEF Hist
    <2>2. CASE d \notin settled
      <3>1. AdmitUpload(c)
        BY <1>2, <2>2, PhaseStep
      <3>2. OpenUploads = {} /\ committed[d] # NoFile
        BY <1>2, <2>2, <3>1 DEF AdmitUpload
      <3>3. srv[d].pc \in {"none", "decode", "waitClose"}
        BY <3>2 DEF OpenUploads
      <3>4. client[d].op \notin Uploading
        BY <3>2 DEF Hist
      <3> QED  BY <3>3, <3>4 DEF OpenPcs, Uploading, Sending
    <2> QED  BY <2>1, <2>2
  <1> QED  BY <1>2 DEF Hist, Frame
-----------------------------------------------------------------------------
(* A file that was uploaded whole: its keys are with the client, its entries  *)
(* and its key recipe with the server, and every address holds the ciphertext. *)
GoodAt(f, rec, kr, keys, H) ==
    /\ f \in Seq(Chunk) /\ keys \in Seq(Key) /\ Len(keys) = Len(f)
    /\ rec \in Recipe /\ rec.head = Len(f) /\ Len(rec.entries) = Len(f)
    /\ kr \in Seq(KeyEntry) /\ Len(kr) = Len(f) /\ \A n \in 1 .. Len(f) : kr[n] = Ents(f, keys)[n]
    /\ AddrFlow(rec.entries, Cts(f, keys), H)
Good(c, f) == GoodAt(f, recipe[c], keyRecipe[c], localKeys[c], Held)

GoodInv(c) ==
    /\ committed[c] # NoFile => Good(c, committed[c])
    /\ client[c].op = "closeKM" => Good(c, client[c].file)
    /\ c \in settled /\ committed[c] # NoFile
         => AddrFlow(recipe[c].entries, Cts(committed[c], localKeys[c]), OnDiskC)

LEMMA GoodKeeps ==
    ASSUME NEW f, NEW rec, NEW kr, NEW keys, NEW H, NEW K, GoodAt(f, rec, kr, keys, H), Keeps(H, K)
    PROVE  GoodAt(f, rec, kr, keys, K)
  BY AddrKeeps DEF GoodAt

(* The client closes the connection after the end of the recipe was received. *)
LEMMA GoodFlow ==
    ASSUME BaseInv, NEW c \in Client, Flows(c), serverUp, client[c].op = "finish", toServer[c] = <<>>
    PROVE  Good(c, client[c].file)
  <1>1. client[c].op \in Sending
    BY DEF Sending
  <1>2. PICK p, keys, kr, addrs, rest, rec, in, es, H, f :
           /\ p = client[c] /\ keys = localKeys[c] /\ kr = keyRecipe[c] /\ f = p.file
           /\ addrs = AddrsOf(c) /\ rest = srv[c].rest /\ rec = recipe[c] /\ in = srv[c].inRecipe
           /\ es = rec.entries /\ H = Held
    OBVIOUS
  <1>3. /\ kr \in Seq(KeyEntry) /\ es \in Seq(Addr) /\ keys \in Seq(Key) /\ f \in Seq(Chunk) /\ rec \in Recipe
        /\ FlowOf(p, keys, <<>>, kr, addrs, rest, rec.head, in) /\ AddrFlow(addrs, Cts(f, keys), H)
        /\ BatchOK(p, keys) /\ addrs = es \o in
    BY <1>1, <1>2, FlowNow DEF Flow, AddrsOf
  <1>4. Len(keys) = Len(f)
    <2>1. Len(keys) + Len(p.plain) = p.pos /\ p.plain = <<>> /\ p.pos = Len(f)
      BY <1>2, <1>3 DEF BatchOK, Uploading, Batching
    <2>2. Len(keys) \in Nat
      BY <1>3
    <2> QED  BY <2>1, <2>2
  <1>5. PICK F, G, n : F = Ents(f, keys) /\ G = Cts(f, keys) /\ n = Len(keys)
    OBVIOUS
  <1>6. /\ RecipeFlow(F, n, p.keyList, <<>>, kr) /\ ChunkFlow(G, n, addrs, rest, <<>>)
        /\ EndFlow(p, <<>>, rec.head, in, rest)
    BY <1>2, <1>3, <1>5 DEF FlowOf
  <1>7. p.keyList = <<>> /\ rec.head = Len(f) /\ in = <<>> /\ rest = <<>>
    <2>1. ASSUME NEW u \in Seq(Msg), NEW x, <<>> = u \o <<x>> PROVE FALSE
      <3>1. Len(u \o <<x>>) = Len(u) + 1 /\ Len(u) \in Nat
        OBVIOUS
      <3> QED  BY <2>1, <3>1
    <2> QED  BY <1>2, <1>6, <2>1 DEF EndFlow
  <1>8. Len(kr) = n /\ Piece(kr, F, 0, Len(kr))
    <2>1. PICK to : Stream(F, Len(kr), <<>>, {"CLIENT_UPLOAD_RECIPE"}, to) /\ Piece(p.keyList, F, to, n)
      BY <1>6 DEF RecipeFlow
    <2>2. Len(kr) = to
      BY <2>1, StreamOfNone
    <2>3. to = n
      BY <1>7, <2>1, PieceOfNone
    <2> QED  BY <1>6, <2>2, <2>3 DEF RecipeFlow
  <1>9. \A i \in 1 .. Len(f) : kr[i] = F[i]
    BY <1>3, <1>4, <1>5, <1>8 DEF Piece
  <1>10. addrs = es
    BY <1>3, <1>7
  <1>11. Len(es) = Len(f)
    <2>1. Stream(G, Len(addrs) + Len(rest), <<>>, {"CLIENT_UPLOAD_CHUNK"}, n)
      BY <1>6 DEF ChunkFlow
    <2>2. Len(addrs) + Len(rest) = n
      BY <2>1, StreamOfNone
    <2>3. Len(rest) = 0 /\ Len(es) \in Nat
      BY <1>3, <1>7
    <2> QED  BY <1>4, <1>5, <1>10, <2>2, <2>3
  <1>12. GoodAt(f, rec, kr, keys, H)
    BY <1>2, <1>3, <1>4, <1>5, <1>7, <1>8, <1>9, <1>10, <1>11, SMTT(20) DEF GoodAt
  <1> QED  BY <1>2, <1>12 DEF Good

(* Containers are never taken from the disk. *)
LEMMA DiskGrows ==
    ASSUME StoreInv, StoreOK, NEW c \in Client, ServerOK(c),
           \/ Untouched(c) \/ Closes(c) \/ Opens(c) \/ Queues(c) \/ Writes(c)
           \/ \E ct, addr : Stores(c, ct, addr)
    PROVE  OnDiskC \subseteq OnDiskC'
  <1>1. CASE disk' = disk
    BY <1>1 DEF OnDiskC
  <1>2. CASE Writes(c)
    <2>1. PICK q, k : q = srv[c].inputMQ /\ k = Head(q)
      OBVIOUS
    <2>2. q \in Seq(Container) /\ q # <<>>
      BY <1>2, <2>1, ServerParts DEF Writes, SessionOK
    <2>3. k \in Container /\ 1 \in DOMAIN q /\ k = q[1]
      BY <2>1, <2>2
    <2>4. k \in Queued(c)
      BY <2>1, <2>3 DEF Queued
    <2>5. k \in Written
      BY <2>4, WrittenIs
    <2>6. disk' = [n \in DOMAIN disk \cup {k.id} |-> IF n = k.id THEN k.body ELSE disk[n]]
      BY <1>2, <2>1 DEF Writes
    <2>7. ASSUME NEW n \in DOMAIN disk PROVE n \in DOMAIN disk' /\ disk'[n] = disk[n]
      <3>1. CASE n # k.id  BY <2>6, <3>1
      <3>2. CASE n = k.id
        <4>1. PICK x : x = [id |-> n, body |-> disk[n]]
          OBVIOUS
        <4>2. x \in OnDiskC
          BY <4>1 DEF OnDiskC
        <4>3. x \in Written
          BY <4>2, WrittenIs
        <4>4. x = k
          BY <2>5, <3>2, <4>1, <4>3 DEF StoreInv
        <4>5. k.body = disk[n]
          BY <4>1, <4>4
        <4> QED  BY <2>6, <3>2, <4>5
      <3> QED  BY <3>1, <3>2
    <2> QED  BY <2>7 DEF OnDiskC
  <1> QED  BY <1>1, <1>2 DEF Untouched, Closes, Opens, Queues, Stores

LEMMA KeepsMore == ASSUME NEW H, NEW K, H \subseteq K PROVE Keeps(H, K)
  BY DEF Keeps, HeldAt

(* While no upload is open, everything is on disk. *)
LEMMA AllOnDisk ==
    ASSUME BaseInv, OpenUploads = {}
    PROVE  Keeps(Held, OnDiskC)
  <1> SUFFICES ASSUME NEW addr, NEW ct, HeldAt(addr, ct, Held) PROVE HeldAt(addr, ct, OnDiskC)
    BY DEF Keeps
  <1>1. ASSUME NEW d \in Client PROVE srv[d].cur.body = <<>> /\ srv[d].inputMQ = <<>>
    <2>1. SessionOK(srv[d])
      BY DEF BaseInv, AtRest, ServerOK
    <2>2. srv[d].pc \notin OpenPcs
      BY <2>1 DEF OpenUploads, OpenPcs
    <2> QED  BY <2>1, <2>2 DEF SessionOK
  <1>2. PICK k \in Held : k.id = addr.id /\ addr.offset \in DOMAIN k.body /\ k.body[addr.offset] = ct
    BY DEF HeldAt
  <1>3. k \in Written \/ (\E d \in Client : k = srv[d].cur)
    BY DEF Held, Written, OnDiskC, Queued
  <1>4. \A d \in Client : k # srv[d].cur
    BY <1>1, <1>2
  <1>5. \A d \in Client : k \notin Queued(d)
    BY <1>1 DEF Queued
  <1>6. k \in OnDiskC
    BY <1>3, <1>4, <1>5, WrittenIs
  <1> QED  BY <1>2, <1>6 DEF HeldAt

(* A step of a client with nothing of an upload left keeps its file. *)
LEMMA FileKept ==
    ASSUME BaseInv, NEW c \in Client, Step(c), client[c].op \notin Uploading \ {"closeKM"},
           srv[c].pc \notin Busy, ~AdmitUpload(c), ~StartUpload(c), client[c].op = "closeKM" => ~ClientFails(c)
    PROVE  recipe'[c] = recipe[c] /\ keyRecipe'[c] = keyRecipe[c] /\ localKeys'[c] = localKeys[c]
  <1>1. CASE Abort(c) \/ ClientFails(c)
    <2>1. client[c].op \notin Uploading
      BY <1>1 DEF Abort
    <2>2. localKeys' = localKeys
      BY <1>1, <2>1 DEF Abort, ClientFails, KeysLeft
    <2> QED  BY <1>1, <2>2 DEF Abort, ClientFails, serverVars
  <1>2. CASE EncryptBatch(c)
    BY <1>2, Zenon DEF EncryptBatch, Uploading
  <1>3. CASE ProcessRecipes(c) \/ QueryIndex(c) \/ StoreChunk(c) \/ ProcessRecipeEnd(c)
    BY <1>3, Zenon DEF ProcessRecipes, QueryIndex, StoreChunk, ProcessRecipeEnd, Receives, Busy
  <1>4. CASE \/ StartRestore(c) \/ RestoreUnknown(c) \/ FillBatch(c) \/ RequestKeys(c) \/ EndUpload(c)
             \/ ReceiveChunks(c) \/ ExitRestore(c) \/ GenerateKeySeed(c) \/ ReplyKeys(c) \/ CloseKeyThread(c)
    <2>1. recipe' = recipe /\ keyRecipe' = keyRecipe /\ localKeys' = localKeys
      BY <1>4, Zenon DEF StartRestore, RestoreUnknown, FillBatch, RequestKeys, EndUpload, ReceiveChunks, ExitRestore,
         GenerateKeySeed, ReplyKeys, CloseKeyThread, serverVars
    <2> QED  BY <2>1
  <1>5. CASE \/ ReceiveBatch(c) \/ ConnectionClosed(c) \/ LastContainer(c) \/ EndSession(c) \/ SaveToFile(c)
             \/ RejectRestore(c) \/ AdmitRestore(c) \/ DecodeEntry(c) \/ DecodeTail(c) \/ DecoderFails(c)
             \/ CloseRestore(c) \/ Again(c)
    <2>1. recipe' = recipe /\ keyRecipe' = keyRecipe /\ localKeys' = localKeys
      BY <1>5 DEF ReceiveBatch, ConnectionClosed, LastContainer, EndSession, SaveToFile, RejectRestore,
         AdmitRestore, DecodeEntry, DecodeTail, DecoderFails, CloseRestore, Again, serverVars
    <2> QED  BY <2>1
  <1> QED  BY <1>1, <1>2, <1>3, <1>4, <1>5 DEF Step

(* How a client gets to wait for the key manager to close the connection. *)
LEMMA ClosingIs ==
    ASSUME Shape, NEW c \in Client, ClientOK(c), Step(c), client'[c].op = "closeKM"
    PROVE  \/ client[c].op = "closeKM" /\ client'[c] = client[c] /\ ~ClientFails(c)
           \/ ConnectionClosed(c) /\ client[c].op = "finish" /\ client'[c].file = client[c].file
  <1>0. PICK p, q : p = client[c] /\ q = client'[c]
    OBVIOUS
  <1>1. DOMAIN p = DOMAIN Process /\ q.op = "closeKM"
    BY <1>0 DEF ClientOK, ProcessOK, Process
  <1>2. ~ClientFails(c) /\ ~Abort(c) /\ ~StartUpload(c) /\ ~StartRestore(c) /\ ~ExitRestore(c) /\ ~Again(c)
    <2>1. ~ClientFails(c)  BY <1>0, <1>1 DEF ClientFails, Shape, Process
    <2>2. ~Abort(c)  BY <1>0, <1>1 DEF Abort, Shape, Process
    <2>3. ~StartUpload(c)
      <3> SUFFICES ASSUME StartUpload(c) PROVE FALSE
        OBVIOUS
      <3>1. q = [Process EXCEPT !.op = "login", !.file = Head(plan[c])[1]]
        BY <1>0 DEF StartUpload, Shape
      <3> QED  BY <1>1, <3>1 DEF Process
    <2>4. ~StartRestore(c)  BY <1>0, <1>1 DEF StartRestore, Shape, Process
    <2>5. ~ExitRestore(c) /\ ~Again(c)  BY <1>0, <1>1 DEF ExitRestore, Again, Shape, Process
    <2> QED  BY <2>1, <2>2, <2>3, <2>4, <2>5
  <1>3. CASE FillBatch(c) \/ ReceiveChunks(c)
    <2>1. q.op \in {"batch", "end", "lastBatch", "closing", "receive"}
      <3>1. CASE FillBatch(c)  BY <1>0, <1>1, <3>1 DEF FillBatch, Shape, Process
      <3>2. CASE ReceiveChunks(c)  BY <1>0, <1>1, <3>2, Zenon DEF ReceiveChunks, Shape, Process
      <3> QED  BY <1>3, <3>1, <3>2
    <2> QED  BY <1>1, <2>1
  <1>4. CASE EncryptBatch(c) \/ EndUpload(c)
    <2>2. q.op \in {"finish", "pop"}
      <3>1. CASE EndUpload(c)  BY <1>0, <3>1, EndIs DEF SendsTo
      <3>2. CASE EncryptBatch(c)  BY <1>0, <3>2, EncryptIs, ZenonT(30) DEF SendsTo
      <3> QED  BY <1>4, <3>1, <3>2
    <2> QED  BY <1>1, <2>2
  <1>5. CASE AdmitUpload(c) \/ RejectRestore(c) \/ AdmitRestore(c) \/ CloseRestore(c)
    <2>1. q = p \/ q.op \in {"pop", "idle", "receive", "restored", "dead"}
      BY <1>0, <1>1, <1>5 DEF AdmitUpload, RejectRestore, AdmitRestore, CloseRestore, Login, Responds, Shape, Process
    <2> QED  BY <1>0, <1>1, <1>2, <2>1
  <1>6. CASE CloseKeyThread(c)
    BY <1>0, <1>1, <1>2, <1>6 DEF CloseKeyThread, Shape, Process
  <1>7. CASE ConnectionClosed(c)
    <2>1. (p.op = "dead" /\ q = p) \/ (p.op = "finish" /\ (q = [p EXCEPT !.op = "closeKM"] \/ q = Process))
      BY <1>0, <1>7 DEF ConnectionClosed, PeerGone, Shape
    <2> QED  BY <1>0, <1>1, <1>7, <2>1 DEF Process
  <1>8. CASE \/ RestoreUnknown(c) \/ RequestKeys(c) \/ GenerateKeySeed(c) \/ ReplyKeys(c) \/ ProcessRecipes(c)
             \/ ReceiveBatch(c) \/ QueryIndex(c) \/ StoreChunk(c) \/ ProcessRecipeEnd(c) \/ LastContainer(c)
             \/ EndSession(c) \/ SaveToFile(c) \/ DecodeEntry(c) \/ DecodeTail(c) \/ DecoderFails(c)
    <2>1. client' = client
      BY <1>8, Zenon DEF RestoreUnknown, RequestKeys, GenerateKeySeed, ReplyKeys, ProcessRecipes, ReceiveBatch,
         QueryIndex, StoreChunk, ProcessRecipeEnd, LastContainer, EndSession, SaveToFile, DecodeEntry,
         DecodeTail, DecoderFails
    <2> QED  BY <1>0, <1>1, <1>2, <2>1
  <1> QED  BY <1>2, <1>3, <1>4, <1>5, <1>6, <1>7, <1>8 DEF Step

LEMMA GoodStep ==
    ASSUME BaseInv, NEW c \in Client, Step(c), Hist(c), Flows(c), GoodInv(c), Keeps(Held, Held'),
           OnDiskC \subseteq OnDiskC'
    PROVE  GoodInv(c)'
  <1>0. Shape /\ ClientOK(c) /\ Proto(c)
    BY DEF BaseInv, AtRest
  <1>1. PICK rec, kr, keys, H, K, f, g :
           /\ rec = recipe[c] /\ kr = keyRecipe[c] /\ keys = localKeys[c] /\ H = Held /\ K = Held'
           /\ f = committed[c] /\ g = client[c].file
    OBVIOUS
  <1>2. Keeps(H, K)
    BY <1>1
  (* Nothing of the file changes while it is committed. *)
  <1>3. ASSUME f # NoFile, ~StartUpload(c)
        PROVE  recipe'[c] = rec /\ keyRecipe'[c] = kr /\ localKeys'[c] = keys /\ ~AdmitUpload(c)
    <2>1. client[c].op \notin Uploading /\ srv[c].pc \notin Busy /\ ~Sent(toServer[c])
      BY <1>1, <1>3 DEF Hist
    <2>2. toServer[c] \in Seq(Msg)
      BY <1>0, ClientParts
    <2>3. ~AdmitUpload(c)
      BY <2>1, <2>2, SentHead DEF AdmitUpload, Login
    <2>4. client[c].op # "closeKM"
      BY <2>1 DEF Uploading
    <2> QED  BY <1>1, <1>3, <2>1, <2>3, <2>4, FileKept
  <1>4. ASSUME client[c].op = "closeKM", ~ClientFails(c)
        PROVE  recipe'[c] = rec /\ keyRecipe'[c] = kr /\ localKeys'[c] = keys
    <2>1. srv[c].pc \in Quiet /\ toServer[c] = <<>>
      BY <1>0, <1>4 DEF Proto
    <2>2. srv[c].pc \notin Busy
      BY <2>1 DEF Quiet, Busy
    <2>3. ~AdmitUpload(c) /\ ~StartUpload(c)
      BY <1>4, <2>1 DEF AdmitUpload, Login, StartUpload
    <2> QED  BY <1>1, <1>4, <2>2, <2>3, FileKept
  (* The end of the recipe was received before the connection was closed. *)
  <1>5. ASSUME ConnectionClosed(c), client[c].op = "finish"
        PROVE  GoodAt(g, recipe'[c], keyRecipe'[c], localKeys'[c], K)
    <2>1. serverUp /\ toServer[c] = <<>> /\ recipe' = recipe /\ keyRecipe' = keyRecipe /\ localKeys' = localKeys
      BY <1>5 DEF ConnectionClosed
    <2>2. Good(c, client[c].file)
      BY <1>5, <2>1, GoodFlow
    <2>3. GoodAt(g, rec, kr, keys, H)
      BY <1>1, <2>2 DEF Good
    <2>4. GoodAt(g, rec, kr, keys, K)
      BY <1>2, <2>3, GoodKeeps
    <2> QED  BY <1>1, <2>1, <2>4
  <1>6. ASSUME committed'[c] # NoFile
        PROVE  Good(c, committed[c])'
    <2>1. CASE committed'[c] = committed[c] /\ ~StartUpload(c)
      <3>1. GoodAt(f, rec, kr, keys, H)
        BY <1>1, <1>6, <2>1 DEF GoodInv, Good
      <3>2. GoodAt(f, rec, kr, keys, K)
        BY <1>2, <3>1, GoodKeeps
      <3>3. recipe'[c] = rec /\ keyRecipe'[c] = kr /\ localKeys'[c] = keys /\ committed'[c] = f
        BY <1>1, <1>3, <1>6, <2>1
      <3> QED  BY <1>1, <3>2, <3>3 DEF Good
    <2>2. CASE committed'[c] = g /\ CloseKeyThread(c) /\ client[c].op = "closeKM" /\ client'[c] = Process
      <3>1. GoodAt(g, rec, kr, keys, H)
        BY <1>1, <2>2 DEF GoodInv, Good
      <3>2. GoodAt(g, rec, kr, keys, K)
        BY <1>2, <3>1, GoodKeeps
      <3>3. recipe'[c] = rec /\ keyRecipe'[c] = kr /\ localKeys'[c] = keys
        BY <1>1, <2>2 DEF CloseKeyThread, serverVars
      <3> QED  BY <1>1, <2>2, <3>2, <3>3 DEF Good
    <2>3. CASE committed'[c] = g /\ ConnectionClosed(c) /\ client[c].op = "finish"
      BY <1>1, <1>5, <2>3 DEF Good
    <2> QED  BY <1>0, <1>1, <1>6, <2>1, <2>2, <2>3, CommittedIs
  <1>7. ASSUME client'[c].op = "closeKM"
        PROVE  Good(c, client[c].file)'
    <2>1. CASE client[c].op = "closeKM" /\ client'[c] = client[c] /\ ~ClientFails(c)
      <3>1. GoodAt(g, rec, kr, keys, H)
        BY <1>1, <2>1 DEF GoodInv, Good
      <3>2. GoodAt(g, rec, kr, keys, K)
        BY <1>2, <3>1, GoodKeeps
      <3>3. recipe'[c] = rec /\ keyRecipe'[c] = kr /\ localKeys'[c] = keys
        BY <1>4, <2>1
      <3> QED  BY <1>1, <2>1, <3>2, <3>3 DEF Good
    <2>2. CASE ConnectionClosed(c) /\ client[c].op = "finish" /\ client'[c].file = client[c].file
      BY <1>1, <1>5, <2>2 DEF Good
    <2> QED  BY <1>0, <1>7, <2>1, <2>2, ClosingIs
  <1>8. ASSUME c \in settled', committed'[c] # NoFile
        PROVE  AddrFlow(recipe[c].entries, Cts(committed[c], localKeys[c]), OnDiskC)'
    <2>1. ~AdmitUpload(c)
      BY <1>8 DEF AdmitUpload
    <2>2. c \in settled
      BY <1>8, <2>1, PhaseStep
    <2>3. client[c].op \notin Sending \cup {"closeKM"}
      BY <2>2 DEF Hist
    <2>4. committed'[c] = f /\ ~StartUpload(c)
      BY <1>0, <1>1, <1>8, <2>3, CommittedIs DEF Sending
    <2>5. PICK D, E : D = OnDiskC /\ E = OnDiskC'
      OBVIOUS
    <2>6. AddrFlow(rec.entries, Cts(f, keys), D)
      BY <1>1, <1>8, <2>2, <2>4, <2>5 DEF GoodInv
    <2>7. AddrFlow(rec.entries, Cts(f, keys), E)
      BY <2>5, <2>6, KeepsMore, AddrKeeps
    <2>8. recipe'[c] = rec /\ localKeys'[c] = keys
      BY <1>1, <1>3, <1>8, <2>4
    <2> QED  BY <2>4, <2>5, <2>7, <2>8
  <1> QED  BY <1>6, <1>7, <1>8 DEF GoodInv

LEMMA GoodFrame ==
    ASSUME BaseInv, NEW c \in Client, NEW d \in Client \ {c}, Step(c), Frame(d), GoodInv(d),
           Keeps(Held, Held'), OnDiskC \subseteq OnDiskC'
    PROVE  GoodInv(d)'
  <1>1. PICK rec, kr, keys, H, K, D, E :
           /\ rec = recipe[d] /\ kr = keyRecipe[d] /\ keys = localKeys[d] /\ H = Held /\ K = Held'
           /\ D = OnDiskC /\ E = OnDiskC'
    OBVIOUS
  <1>2. recipe'[d] = rec /\ keyRecipe'[d] = kr /\ localKeys'[d] = keys /\ committed'[d] = committed[d]
        /\ client'[d] = client[d]
    BY <1>1 DEF Frame
  <1>3. ASSUME NEW f, Good(d, f) PROVE GoodAt(f, rec, kr, keys, K)
    <2>1. GoodAt(f, rec, kr, keys, H) /\ Keeps(H, K)
      BY <1>1, <1>3 DEF Good
    <2> QED  BY <2>1, GoodKeeps
  <1>4. ASSUME d \in settled', committed[d] # NoFile PROVE AddrFlow(rec.entries, Cts(committed[d], keys), D)
    <2>1. CASE d \in settled
      BY <1>1, <1>4, <2>1 DEF GoodInv
    <2>2. CASE d \notin settled
      <3>1. AdmitUpload(c)
        BY <1>4, <2>2, PhaseStep
      <3>2. OpenUploads = {}
        BY <1>4, <2>2, <3>1 DEF AdmitUpload
      <3>3. GoodAt(committed[d], rec, kr, keys, H)
        BY <1>1, <1>4 DEF GoodInv, Good
      <3>4. Keeps(H, D)
        BY <1>1, <3>2, AllOnDisk
      <3> QED  BY <3>3, <3>4, AddrKeeps DEF GoodAt
    <2> QED  BY <2>1, <2>2
  <1>5. ASSUME d \in settled', committed[d] # NoFile PROVE AddrFlow(rec.entries, Cts(committed[d], keys), E)
    BY <1>1, <1>4, <1>5, KeepsMore, AddrKeeps
  <1> QED  BY <1>1, <1>2, <1>3, <1>5 DEF GoodInv, Good
-----------------------------------------------------------------------------
(* The invariant of the uploads, and what a restart leaves of it. *)
UploadInv ==
    /\ BaseInv /\ AddressesResolve
    /\ \A c \in Client : Flows(c) /\ Hist(c) /\ GoodInv(c)

LEMMA UploadRestart ==
    ASSUME UploadInv, RestartServer
    PROVE  UploadInv'
  <1>1. BaseInv' /\ AddressesResolve'
    BY BaseRestart DEF UploadInv
  <1>2. /\ client' = client /\ localKeys' = localKeys /\ disk' = disk /\ settled' = settled
        /\ srv' = [c \in Client |-> Session] /\ toServer' = [c \in Client |-> <<>>]
        /\ \A c \in Client : client[c].op \notin Uploading \cup Restoring
        /\ committed' = [c \in Client |-> IF OpenUploads = {} \/ c \in settled THEN committed[c] ELSE NoFile]
    BY DEF RestartServer
  <1>3. PICK lost \in SUBSET OpenUploads :
          /\ recipe' = [c \in Client |-> IF c \in lost THEN BlankRecipe ELSE recipe[c]]
          /\ keyRecipe' = [c \in Client |-> IF c \in lost THEN <<>> ELSE keyRecipe[c]]
    BY DEF RestartServer
  <1>4. ASSUME NEW c \in Client PROVE Flows(c)' /\ Hist(c)' /\ GoodInv(c)'
    <2>1. /\ srv'[c] = Session /\ toServer'[c] = <<>> /\ client'[c].op \notin Uploading
      BY <1>2
    <2>2. Flows(c)'
      BY <2>1, FlowAway DEF Uploading, Sending
    <2>3. Hist(c)'
      <3>1. srv'[c].pc \notin Busy \cup OpenPcs
        BY <2>1 DEF Session, Busy, OpenPcs
      <3>2. ~Sent(toServer'[c])
        BY <2>1 DEF Sent
      <3> QED  BY <2>1, <3>1, <3>2 DEF Hist, Uploading, Sending
    <2>4. client'[c].op # "closeKM"
      BY <2>1 DEF Uploading
    <2>5. ASSUME committed'[c] # NoFile
          PROVE  /\ committed'[c] = committed[c] /\ recipe'[c] = recipe[c] /\ keyRecipe'[c] = keyRecipe[c]
                 /\ localKeys'[c] = localKeys[c]
                 /\ AddrFlow(recipe[c].entries, Cts(committed[c], localKeys[c]), OnDiskC)
                 /\ Good(c, committed[c])
      <3>1. committed'[c] = committed[c] /\ (OpenUploads = {} \/ c \in settled)
        BY <1>2, <2>5
      <3>2. Good(c, committed[c]) /\ Hist(c) /\ GoodInv(c)
        BY <2>5, <3>1 DEF UploadInv, GoodInv
      <3>3. c \notin lost
        <4>1. CASE OpenUploads = {}  BY <1>3, <4>1
        <4>2. CASE c \in settled
          <5>1. srv[c].pc \notin OpenPcs /\ SessionOK(srv[c])
            BY <3>2, <4>2 DEF Hist, UploadInv, BaseInv, AtRest, ServerOK
          <5>2. srv[c].pc \in {"none", "decode", "waitClose"}
            BY <5>1 DEF SessionOK
          <5> QED  BY <1>3, <5>2 DEF OpenUploads
        <4> QED  BY <3>1, <4>1, <4>2
      <3>4. AddrFlow(recipe[c].entries, Cts(committed[c], localKeys[c]), OnDiskC)
        <4>1. CASE OpenUploads = {}
          <5>1. Keeps(Held, OnDiskC)
            BY <4>1, AllOnDisk DEF UploadInv
          <5>2. AddrFlow(recipe[c].entries, Cts(committed[c], localKeys[c]), Held)
            BY <3>2 DEF Good, GoodAt
          <5> QED  BY <5>1, <5>2, AddrKeeps
        <4>2. CASE c \in settled
          BY <2>5, <3>1, <3>2, <4>2 DEF GoodInv
        <4> QED  BY <3>1, <4>1, <4>2
      <3> QED  BY <1>2, <1>3, <3>1, <3>2, <3>3, <3>4
    <2>6. OnDiskC' = OnDiskC
      BY <1>2 DEF OnDiskC
    <2>7. OnDiskC' \subseteq Held'
      BY DEF OnDiskC, Held
    <2>8. ASSUME committed'[c] # NoFile PROVE Good(c, committed[c])'
      <3>1. PICK f, rec, kr, keys, H, K, D : /\ f = committed[c] /\ rec = recipe[c] /\ kr = keyRecipe[c]
                 /\ keys = localKeys[c] /\ H = Held /\ K = Held' /\ D = OnDiskC
        OBVIOUS
      <3>2. GoodAt(f, rec, kr, keys, H) /\ AddrFlow(rec.entries, Cts(f, keys), D)
        BY <2>5, <2>8, <3>1 DEF Good
      <3>3. Keeps(D, K)
        BY <2>6, <2>7, <3>1, KeepsMore
      <3>4. AddrFlow(rec.entries, Cts(f, keys), K)
        BY <3>2, <3>3, AddrKeeps
      <3>5. GoodAt(f, rec, kr, keys, K)
        BY <3>2, <3>4 DEF GoodAt
      <3> QED  BY <2>5, <2>8, <3>1, <3>5 DEF Good
    <2>9. ASSUME committed'[c] # NoFile
          PROVE  AddrFlow(recipe[c].entries, Cts(committed[c], localKeys[c]), OnDiskC)'
      BY <2>5, <2>6, <2>9
    <2>10. GoodInv(c)'
      BY <2>4, <2>8, <2>9 DEF GoodInv
    <2> QED  BY <2>2, <2>3, <2>10
  <1> QED  BY <1>1, <1>4 DEF UploadInv

LEMMA UploadStep ==
    ASSUME UploadInv, NEW c \in Client, Step(c)
    PROVE  UploadInv'
  <1>1. /\ BaseInv' /\ \A d \in Client \ {c} : Frame(d)
        /\ \/ Untouched(c) \/ Closes(c) \/ Opens(c) \/ Queues(c) \/ Writes(c)
           \/ \E ct, addr : Stores(c, ct, addr)
        /\ \A addr, ct : Holds(addr, ct) => Holds(addr, ct)'
        /\ AddressesResolve'
    BY BaseStep DEF UploadInv
  <1>2. Keeps(Held, Held')
    BY <1>1, HoldsAt, HoldsAtNext DEF Keeps
  <1>3. OnDiskC \subseteq OnDiskC'
    BY <1>1, DiskGrows DEF UploadInv, BaseInv, AtRest
  <1>4. Flows(c)' /\ Hist(c)' /\ GoodInv(c)'
    BY <1>1, <1>2, <1>3, FlowStep, HistStep, GoodStep DEF UploadInv
  <1>5. ASSUME NEW d \in Client \ {c} PROVE Flows(d)' /\ Hist(d)' /\ GoodInv(d)'
    <2>1. Frame(d) /\ Flows(d) /\ Hist(d) /\ GoodInv(d) /\ BaseInv
      BY <1>1 DEF UploadInv
    <2> QED  BY <1>2, <1>3, <2>1, FlowFrame, HistFrame, GoodFrame
  <1> QED  BY <1>1, <1>4, <1>5 DEF UploadInv

LEMMA UploadAside ==
    ASSUME UploadInv, Aside
    PROVE  UploadInv'
  <1>1. BaseInv' /\ AddressesResolve'
    BY BaseAside DEF UploadInv
  <1>2. UNCHANGED <<method, client, localKeys, toServer, srv, recipe, keyRecipe, disk, serverUp, committed, settled>>
    BY DEF Aside
  <1>3. Held' = Held /\ OnDiskC' = OnDiskC
    BY <1>2 DEF Held, OnDiskC
  <1>4. ASSUME NEW c \in Client PROVE Flows(c)' /\ Hist(c)' /\ GoodInv(c)'
    BY <1>2, <1>3 DEF UploadInv, Flows, Flow, AddrsOf, Hist, GoodInv, Good
  <1> QED  BY <1>1, <1>4 DEF UploadInv

LEMMA UploadInit == Init => UploadInv
  <1> SUFFICES ASSUME Init PROVE UploadInv
    OBVIOUS
  <1>1. BaseInv /\ AddressesResolve
    BY BaseInit
  <1>2. ASSUME NEW c \in Client PROVE Flows(c) /\ Hist(c) /\ GoodInv(c)
    <2>1. client[c] = Process /\ toServer[c] = <<>> /\ srv[c] = Session /\ committed[c] = NoFile /\ settled = {}
      BY DEF Init
    <2> QED  BY <2>1 DEF Flows, Hist, GoodInv, Process, Sending
  <1> QED  BY <1>1, <1>2 DEF UploadInv

LEMMA DecryptIs ==
    ASSUME NEW p, NEW key PROVE Decrypt(Encrypt(p, key), key) = p
  BY DEF Decrypt, Encrypt

(* What the invariant says of a file that was uploaded whole. *)
LEMMA GoodDecrypts == UploadInv => CommittedDecryptable
  <1> SUFFICES ASSUME UploadInv, NEW c \in Client, committed[c] # NoFile
               PROVE  LET f == committed[c] IN
                        /\ recipe[c].head = Len(f) /\ Len(recipe[c].entries) = Len(f)
                        /\ Len(localKeys[c]) = Len(f) /\ Len(keyRecipe[c]) = Len(f)
                        /\ \A n \in DOMAIN f :
                              /\ keyRecipe[c][n].key = localKeys[c][n]
                              /\ Holds(recipe[c].entries[n], keyRecipe[c][n].hash)
                              /\ Decrypt(keyRecipe[c][n].hash, localKeys[c][n]) = f[n]
    BY DEF CommittedDecryptable
  <1>1. PICK f, rec, kr, keys, H : /\ f = committed[c] /\ rec = recipe[c] /\ kr = keyRecipe[c]
             /\ keys = localKeys[c] /\ H = Held
    OBVIOUS
  <1>2. GoodAt(f, rec, kr, keys, H)
    BY <1>1 DEF UploadInv, GoodInv, Good
  <1>3. /\ rec.head = Len(f) /\ Len(rec.entries) = Len(f) /\ Len(keys) = Len(f) /\ Len(kr) = Len(f)
        /\ f \in Seq(Chunk)
    BY <1>2 DEF GoodAt
  <1>4. ASSUME NEW n \in DOMAIN f
        PROVE  /\ kr[n].key = keys[n] /\ HeldAt(rec.entries[n], kr[n].hash, H)
               /\ kr[n].hash = Encrypt(f[n], keys[n])
    <2>1. n \in 1 .. Len(f) /\ n \in 1 .. Len(keys) /\ n \in 1 .. Len(rec.entries)
      BY <1>3
    <2>2. kr[n] = Ents(f, keys)[n] /\ HeldAt(rec.entries[n], Cts(f, keys)[n], H)
      BY <1>2, <2>1 DEF GoodAt, AddrFlow
    <2>3. /\ Ents(f, keys)[n] = [hash |-> Encrypt(f[n], keys[n]), key |-> keys[n]]
          /\ Cts(f, keys)[n] = Encrypt(f[n], keys[n])
      BY <2>1 DEF Ents, Cts
    <2> QED  BY <2>2, <2>3
  <1>5. ASSUME NEW n \in DOMAIN f
        PROVE  /\ kr[n].key = keys[n] /\ Holds(rec.entries[n], kr[n].hash)
               /\ Decrypt(kr[n].hash, keys[n]) = f[n]
    BY <1>1, <1>4, HoldsAt, DecryptIs
  <1> QED  BY <1>1, <1>3, <1>5

(* A file whose upload has ended well can be decrypted with the keys that the *)
(* client kept, whatever the key manager answered, whoever uploads or is lost *)
(* at the same time, and after every restart of the server that its own       *)
(* upload, and those it shares chunks with, did not see.                      *)
THEOREM UploadsDecryptable == Spec => []CommittedDecryptable
  <1>1. Init => UploadInv
    BY UploadInit
  <1>2. UploadInv /\ [Next]_vars => UploadInv'
    BY StepsAre, UploadStep, UploadRestart, UploadAside
  <1>3. UploadInv => CommittedDecryptable
    BY GoodDecrypts
  <1> QED  BY <1>1, <1>2, <1>3, PTL DEF Spec
-----------------------------------------------------------------------------
(* Restores.  What the client has decrypted, what is on the way to it and     *)
(* what the server has not sent are together the file's ciphertexts.          *)
Replies   == {"SERVER_RESTORE_CHUNK", "SERVER_RESTORE_FINAL"}
ReplyMsg  == [type : Replies, items : Seq(Ciphertext)]
RestFlow(used, msgs, s, G, L) ==
    /\ msgs \in Seq(ReplyMsg)
    /\ \E to \in 0 .. L :
         /\ Stream(G, used, msgs, Replies, to)
         /\ s.pc = "decode" => /\ s.send \in Seq(Ciphertext)
                               /\ Piece(s.send, G, to, L - Len(s.todo) - Len(s.buf))
RestoreOf(p, f) ==
    /\ p.op = "loginRestore" => p.used = 0 /\ p.out = <<>>
    /\ p.op \in {"receive", "closing"} => p.head = Len(f) /\ p.out \in Seq(Chunk) /\ Piece(p.out, f, 0, p.used)
    /\ p.op = "restored" => p.out = f
Restores(c) ==
    committed[c] # NoFile =>
        /\ RestoreOf(client[c], committed[c])
        /\ client[c].op = "receive" /\ serverUp
             => RestFlow(client[c].used, toClient[c], srv[c], Cts(committed[c], localKeys[c]),
                         Len(recipe[c].entries))

LEMMA TimesIs ==
    ASSUME NEW b \in Nat, NEW k \in Nat, NEW m \in Nat, k < m
    PROVE  (k + 1) * b = k * b + b /\ k * b \in Nat /\ m * b \in Nat /\ k * b + b <= m * b
  <1>1. (k + 1) * b = k * b + b /\ k * b \in Nat /\ m * b \in Nat
    OBVIOUS
  <1>2. \A i, j \in Nat : i <= j => i * b <= j * b
    OBVIOUS
  <1>3. (k + 1) * b <= m * b
    BY <1>2
  <1> QED  BY <1>1, <1>3

LEMMA DivIs ==
    ASSUME NEW b \in Nat \ {0}, NEW n \in Nat
    PROVE  n \div b \in Nat /\ (n \div b) * b <= n /\ (n # 0 => (n - 1) \div b <= n \div b)
  OBVIOUS

(* A part of a piece. *)
LEMMA PiecePart ==
    ASSUME NEW chunks \in Seq(Ciphertext), NEW G, NEW i, NEW j, Piece(chunks, G, i, j), NEW a \in Nat, NEW n \in Nat,
           a + n <= Len(chunks)
    PROVE  /\ SubSeq(chunks, a + 1, a + n) \in Seq(Ciphertext)
           /\ Piece(SubSeq(chunks, a + 1, a + n), G, i + a, i + a + n)
  <1>1. PICK u : u = SubSeq(chunks, a + 1, a + n)
    OBVIOUS
  <1>2. u \in Seq(Ciphertext) /\ Len(u) = n /\ \A k \in 1 .. n : u[k] = chunks[a + k]
    BY ONLY <1>1, SubSeqIs, chunks \in Seq(Ciphertext), a \in Nat, n \in Nat, a + n <= Len(chunks)
  <1>3. /\ i \in Nat /\ Len(chunks) \in Nat /\ \A k \in 1 .. Len(chunks) : chunks[k] = G[i + k]
    BY DEF Piece
  <1>4. ASSUME NEW k \in 1 .. n PROVE u[k] = G[(i + a) + k]
    <2>1. a + k \in 1 .. Len(chunks) /\ i + (a + k) = (i + a) + k
      BY <1>3
    <2>2. u[k] = chunks[a + k] /\ chunks[a + k] = G[i + (a + k)]
      BY <1>2, <1>3, <2>1
    <2> QED  BY <2>1, <2>2
  <1>5. i + a \in Nat /\ i + a + n \in Nat /\ i + a <= i + a + n /\ n = (i + a + n) - (i + a)
    BY <1>3
  <1>6. Piece(u, G, i + a, i + a + n)
    BY <1>2, <1>4, <1>5 DEF Piece
  <1> QED  BY <1>1, <1>2, <1>6

Batches(chunks, b, M) ==
    [k \in 1 .. M |-> Message("SERVER_RESTORE_CHUNK", SubSeq(chunks, (k - 1) * b + 1, k * b))]

(* The first M batches of the recovered chunks, and the rest. *)
LEMMA BatchesAre ==
    ASSUME NEW chunks \in Seq(Ciphertext), NEW G, NEW i, NEW j, Piece(chunks, G, i, j), NEW b \in Nat \ {0},
           NEW M \in Nat, M * b <= Len(chunks)
    PROVE  /\ Batches(chunks, b, M) \in Seq(ReplyMsg) /\ Stream(G, i, Batches(chunks, b, M), Replies, i + M * b)
           /\ SubSeq(chunks, M * b + 1, Len(chunks)) \in Seq(Ciphertext)
           /\ Piece(SubSeq(chunks, M * b + 1, Len(chunks)), G, i + M * b, j) /\ i + M * b <= j
  <1>1. PICK F, L : F = Batches(chunks, b, M) /\ L = Len(chunks)
    OBVIOUS
  <1>2. i \in Nat /\ j \in Nat /\ L \in Nat /\ L = j - i /\ M * b \in Nat /\ M * b <= L
    BY <1>1 DEF Piece
  <1>3. ASSUME NEW k \in 1 .. M
        PROVE  /\ F[k] \in ReplyMsg /\ F[k].type \in Replies
               /\ Piece(F[k].items, G, i + (k - 1) * b, i + k * b)
    <2>1. PICK a, m : a = (k - 1) * b /\ m = k - 1
      OBVIOUS
    <2>2. m \in Nat /\ m < M /\ k = m + 1
      BY <2>1
    <2>3. k * b = a + b /\ a \in Nat /\ a + b <= M * b
      BY <2>1, <2>2, TimesIs
    <2>4. a + b <= L
      BY <1>2, <2>3
    <2>5. PICK u : u = SubSeq(chunks, a + 1, a + b)
      OBVIOUS
    <2>6. u \in Seq(Ciphertext) /\ Piece(u, G, i + a, i + a + b)
      BY <1>1, <2>3, <2>4, <2>5, PiecePart
    <2>7. F[k] = Message("SERVER_RESTORE_CHUNK", u)
      BY <1>1, <2>1, <2>3, <2>5 DEF Batches
    <2>8. i + a + b = i + k * b
      BY <1>2, <2>3
    <2> QED  BY <2>1, <2>6, <2>7, <2>8 DEF Message, ReplyMsg, Replies
  <1>4. F \in Seq(ReplyMsg) /\ Len(F) = M
    <2>1. F \in [1 .. M -> ReplyMsg]
      BY <1>1, <1>3 DEF Batches
    <2> QED  BY <2>1
  <1> DEFINE at == [n \in 0 .. M |-> i + n * b]
  <1>5. ASSUME NEW n \in 0 .. M PROVE at[n] = i + n * b /\ at[n] \in 0 .. i + M * b
    <2>1. CASE n = M
      BY <1>2, <2>1
    <2>2. CASE n # M
      <3>1. n \in Nat /\ n < M
        BY <2>2
      <3>2. PICK x, y : x = n * b /\ y = M * b
        OBVIOUS
      <3>3. x \in Nat /\ y \in Nat /\ x + b <= y
        BY <3>1, <3>2, TimesIs
      <3>4. i + x \in 0 .. i + y
        BY <1>2, <3>3
      <3> QED  BY <3>2, <3>4
    <2> QED  BY <2>1, <2>2
  <1>6. at \in [0 .. M -> 0 .. i + M * b] /\ at[0] = i /\ at[M] = i + M * b
    <2>1. 0 \in 0 .. M /\ M \in 0 .. M /\ 0 * b = 0 /\ i + 0 = i
      BY <1>2
    <2> QED  BY <1>5, <2>1
  <1> HIDE DEF at
  <1>7. ASSUME NEW n \in 1 .. M PROVE Piece(ItemsOf(F[n], Replies), G, at[n - 1], at[n])
    <2>1. n \in 0 .. M /\ n - 1 \in 0 .. M
      OBVIOUS
    <2>2. ItemsOf(F[n], Replies) = F[n].items
      BY <1>3 DEF ItemsOf
    <2> QED  BY <1>3, <1>5, <2>1, <2>2
  <1>8. Stream(G, i, F, Replies, i + M * b)
    <2>1. Laid(at, F, Replies, i, G, i + M * b)
      BY <1>2, <1>4, <1>6, <1>7 DEF Laid
    <2> QED  BY <2>1 DEF Stream
  <1>9. PICK a, n : a = M * b /\ n = L - a
    OBVIOUS
  <1>10. a \in Nat /\ n \in Nat /\ a + n = L /\ i + a + n = j /\ i + a <= j
    BY <1>2, <1>9
  <1>11. SubSeq(chunks, a + 1, a + n) \in Seq(Ciphertext) /\ Piece(SubSeq(chunks, a + 1, a + n), G, i + a, i + a + n)
    BY <1>1, <1>10, PiecePart
  <1> QED  BY <1>1, <1>4, <1>8, <1>9, <1>10, <1>11

(* A container that is on disk is the one that the address names. *)
LEMMA FetchedIs ==
    ASSUME BaseInv, NEW addr, NEW ct, HeldAt(addr, ct, Held), addr.id \in DOMAIN disk
    PROVE  disk[addr.id][addr.offset] = ct
  <1>1. PICK x \in Held : x.id = addr.id /\ addr.offset \in DOMAIN x.body /\ x.body[addr.offset] = ct
    BY DEF HeldAt
  <1>2. PICK y : y = [id |-> addr.id, body |-> disk[addr.id]]
    OBVIOUS
  <1>3. y \in Written /\ y.id = addr.id /\ y.body = disk[addr.id]
    <2>1. y \in OnDiskC
      BY <1>2 DEF OnDiskC
    <2> QED  BY <1>2, <2>1, WrittenIs
  <1>4. x \in Written \/ (\E d \in Client : x = srv[d].cur)
    BY DEF Held, Written, OnDiskC, Queued
  <1>5. ASSUME NEW d \in Client, x = srv[d].cur PROVE FALSE
    <2>1. SessionOK(srv[d])
      BY DEF BaseInv, AtRest, ServerOK
    <2>2. CASE srv[d].pc \in OpenPcs
      BY <1>1, <1>3, <1>5, <2>2 DEF BaseInv, StoreInv, Open
    <2>3. CASE srv[d].pc \notin OpenPcs
      <3>1. x.body = <<>>
        BY <1>5, <2>1, <2>3 DEF SessionOK
      <3> QED  BY <1>1, <3>1
    <2> QED  BY <2>2, <2>3
  <1>6. x = y
    BY <1>1, <1>3, <1>4, <1>5 DEF BaseInv, StoreInv
  <1> QED  BY <1>1, <1>3, <1>6

(* The chunks of the buffered entries are the next of the file. *)
LEMMA RecoveredIs ==
    ASSUME BaseInv, NEW s, SessionOK(s), NEW es \in Seq(Addr), DecodeOK(s, es), Fetchable(s), NEW G, NEW to,
           AddrFlow(es, G, Held), \A n \in 1 .. Len(es) : G[n] \in Ciphertext,
           s.send \in Seq(Ciphertext), Piece(s.send, G, to, Len(es) - Len(s.todo) - Len(s.buf))
    PROVE  /\ Recovered(s) \in Seq(Ciphertext) /\ Piece(Recovered(s), G, to, Len(es) - Len(s.todo))
           /\ s.buf # <<>> => Len(Recovered(s)) # 0
  <1>1. PICK todo, buf, ids, send, L, T, B : /\ todo = s.todo /\ buf = s.buf /\ ids = s.ids /\ send = s.send
                                             /\ L = Len(es) /\ T = Len(todo) /\ B = Len(buf)
    OBVIOUS
  <1>2. todo \in Seq(Addr) /\ buf \in Seq(Slot) /\ ids \in Seq(Nat) /\ send \in Seq(Ciphertext)
    BY <1>1 DEF SessionOK
  <1>3. L \in Nat /\ T \in Nat /\ B \in Nat /\ T + B <= L
    <2>1. T + B <= L
      BY <1>1 DEF DecodeOK
    <2>2. Len(es) \in Nat /\ Len(todo) \in Nat /\ Len(buf) \in Nat
      BY <1>2
    <2> QED  BY <1>1, <2>1, <2>2
  <1>4. ASSUME NEW k \in 1 .. B
        PROVE  disk[ids[buf[k].n]][buf[k].offset] = G[(L - T - B) + k] /\ (L - T - B) + k \in 1 .. L
    <2>1. PICK n, e, m : n = buf[k].n /\ m = (L - T - B) + k /\ e = es[m]
      OBVIOUS
    <2>2. n \in 1 .. Len(ids) /\ ids[n] = e.id /\ buf[k].offset = e.offset
      BY <1>1, <2>1 DEF DecodeOK
    <2>3. m \in 1 .. L
      BY <1>3, <2>1
    <2>4. HeldAt(e, G[m], Held)
      BY <1>1, <2>1, <2>3 DEF AddrFlow
    <2>5. e.id \in DOMAIN disk
      <3>1. n \in DOMAIN ids
        BY <1>2, <2>2
      <3> QED  BY <1>1, <2>2, <3>1 DEF Fetchable
    <2>6. disk[e.id][e.offset] = G[m]
      BY <2>4, <2>5, FetchedIs
    <2> QED  BY <2>1, <2>2, <2>3, <2>6
  <1> DEFINE u == [k \in 1 .. B |-> disk[ids[buf[k].n]][buf[k].offset]]
  <1>5. u \in [1 .. B -> Ciphertext] /\ \A k \in 1 .. B : u[k] = G[(L - T - B) + k]
    <2>1. ASSUME NEW k \in 1 .. B PROVE u[k] = G[(L - T - B) + k] /\ u[k] \in Ciphertext
      <3>1. u[k] = disk[ids[buf[k].n]][buf[k].offset]
        OBVIOUS
      <3> HIDE DEF u
      <3> QED  BY <1>1, <1>4, <3>1
    <2> QED  BY <2>1, SMTT(20)
  <1>6. Recovered(s) = send \o u
    <2>1. DOMAIN buf = 1 .. B
      BY <1>1, <1>2
    <2> QED  BY <1>1, <2>1 DEF Recovered
  <1> HIDE DEF u
  <1>7. u \in Seq(Ciphertext) /\ Len(u) = B
    BY <1>3, <1>5
  <1>8. Piece(u, G, L - T - B, L - T)
    <2>1. L - T - B \in Nat /\ L - T \in Nat /\ L - T - B <= L - T /\ B = (L - T) - (L - T - B)
      BY <1>3
    <2> QED  BY <1>5, <1>7, <2>1 DEF Piece
  <1>9. Piece(send, G, to, L - T - B)
    BY <1>1
  <1>10. send \o u \in Seq(Ciphertext) /\ Piece(send \o u, G, to, L - T) /\ Len(send \o u) = Len(send) + B
    <2>1. PICK x, y : x = L - T - B /\ y = L - T
      OBVIOUS
    <2>2. Piece(send \o u, G, to, y)
      BY ONLY <1>2, <1>7, <1>8, <1>9, <2>1, PieceConcat
    <2> QED  BY <1>2, <1>7, <2>1, <2>2, ConcatIs
  <1>11. buf # <<>> => B # 0
    BY <1>1, <1>2, EmptyIff
  <1>12. Len(send) \in Nat
    BY <1>2
  <1>13. B # 0 => Len(send \o u) # 0
    BY <1>3, <1>10, <1>12
  <1> QED  BY <1>1, <1>6, <1>10, <1>11, <1>13

(* What the server sends of the recovered chunks. *)
LEMMA SentBatches ==
    ASSUME NEW chunks \in Seq(Ciphertext), NEW G, NEW i, NEW j, Piece(chunks, G, i, j), NEW b, b = sendChunkBatchSize
    PROVE  \E m : /\ FullBatches(chunks) \in Seq(ReplyMsg) /\ Stream(G, i, FullBatches(chunks), Replies, m)
                  /\ Unsent(chunks) \in Seq(Ciphertext) /\ Piece(Unsent(chunks), G, m, j) /\ m <= j
  <1>1. PICK L, M : L = Len(chunks) /\ M = L \div b
    OBVIOUS
  <1>2. b \in Nat \ {0} /\ L \in Nat
    BY <1>1, DaEAssumption
  <1>3. M \in Nat /\ M * b <= L
    BY <1>1, <1>2, DivIs
  <1>4. FullBatches(chunks) = Batches(chunks, b, M) /\ Unsent(chunks) = SubSeq(chunks, M * b + 1, L)
    BY <1>1 DEF FullBatches, Batches, Unsent
  <1>5. /\ Batches(chunks, b, M) \in Seq(ReplyMsg) /\ Stream(G, i, Batches(chunks, b, M), Replies, i + M * b)
        /\ SubSeq(chunks, M * b + 1, Len(chunks)) \in Seq(Ciphertext)
        /\ Piece(SubSeq(chunks, M * b + 1, Len(chunks)), G, i + M * b, j) /\ i + M * b <= j
    BY <1>1, <1>2, <1>3, BatchesAre
  <1> QED  BY <1>1, <1>4, <1>5

LEMMA SentTailBatches ==
    ASSUME NEW chunks \in Seq(Ciphertext), NEW G, NEW i, NEW j, Piece(chunks, G, i, j), NEW b, b = sendChunkBatchSize,
           Len(chunks) # 0
    PROVE  TailMessages(chunks) \in Seq(ReplyMsg) /\ Stream(G, i, TailMessages(chunks), Replies, j)
  <1>1. PICK L, M, Q, F : L = Len(chunks) /\ M = (L - 1) \div b /\ Q = L \div b /\ F = Batches(chunks, b, M)
    OBVIOUS
  <1>2. b \in Nat \ {0} /\ L \in Nat /\ L - 1 \in Nat /\ L # 0
    BY <1>1, DaEAssumption
  <1>3. M \in Nat /\ M * b <= L /\ M <= Q /\ Q \in Nat
    <2>1. M \in Nat /\ M * b <= L - 1
      BY <1>1, <1>2, DivIs
    <2>2. M <= Q /\ Q \in Nat
      BY <1>1, <1>2, DivIs
    <2>3. PICK x : x = M * b
      OBVIOUS
    <2>4. x \in Nat /\ x <= L - 1
      BY <1>2, <2>1, <2>3
    <2>5. x <= L
      BY <1>2, <2>4
    <2> QED  BY <2>1, <2>2, <2>3, <2>5
  <1>4. /\ F \in Seq(ReplyMsg) /\ Stream(G, i, F, Replies, i + M * b)
        /\ SubSeq(chunks, M * b + 1, L) \in Seq(Ciphertext)
        /\ Piece(SubSeq(chunks, M * b + 1, L), G, i + M * b, j)
    BY <1>1, <1>2, <1>3, BatchesAre
  <1>5. SubSeq(FullBatches(chunks), 1, M) = F
    <2>1. PICK A : A = FullBatches(chunks)
      OBVIOUS
    <2>2. A = Batches(chunks, b, Q)
      BY <1>1, <2>1 DEF FullBatches, Batches
    <2>3. Len(A) = Q /\ DOMAIN A = 1 .. Q
      BY <1>3, <2>2 DEF Batches
    <2>4. SubSeq(A, 1, M) = [k \in 1 .. M |-> A[k]]
      BY <1>3
    <2>5. \A k \in 1 .. M : A[k] = F[k]
      BY <1>1, <1>3, <2>2 DEF Batches
    <2>6. F = [k \in 1 .. M |-> F[k]]
      BY <1>1 DEF Batches
    <2> QED  BY <2>1, <2>4, <2>5, <2>6
  <1>6. PICK x, tail : tail = SubSeq(chunks, M * b + 1, L) /\ x = Message("SERVER_RESTORE_FINAL", tail)
    OBVIOUS
  <1>7. x \in ReplyMsg /\ x.items = tail /\ x.type \in Replies
    BY <1>4, <1>6 DEF ReplyMsg, Replies, Message
  <1>8. TailMessages(chunks) = F \o <<x>>
    <2>1. TailMessages(chunks) = Append(SubSeq(FullBatches(chunks), 1, M), x)
      BY <1>1, <1>6 DEF TailMessages
    <2>2. TailMessages(chunks) = Append(F, x)
      BY <1>5, <2>1
    <2>3. Append(F, x) = F \o <<x>>
      BY <1>4, <1>7
    <2> QED  BY <2>2, <2>3
  <1>9. <<x>> \in Seq(ReplyMsg)
    BY <1>7
  <1>10. Stream(G, i + M * b, <<x>>, Replies, j)
    <2>1. Piece(ItemsOf(x, Replies), G, i + M * b, j)
      BY <1>4, <1>6, <1>7 DEF ItemsOf
    <2> QED  BY <2>1, StreamOne
  <1>11. Stream(G, i, F \o <<x>>, Replies, j) /\ F \o <<x>> \in Seq(ReplyMsg)
    <2>1. PICK k : k = i + M * b
      OBVIOUS
    <2>2. Stream(G, i, F, Replies, k) /\ Stream(G, k, <<x>>, Replies, j)
      BY <1>4, <1>10, <2>1
    <2>3. Stream(G, i, F \o <<x>>, Replies, j)
      BY ONLY <1>4, <1>9, <2>2, StreamConcat
    <2> QED  BY <1>4, <1>9, <2>3
  <1> QED  BY <1>8, <1>11

(* What the invariant knows of a committed file. *)
LEMMA CommittedFile ==
    ASSUME UploadInv, NEW c \in Client, NEW f, f = committed[c], f # NoFile, NEW keys, keys = localKeys[c],
           NEW es, es = recipe[c].entries
    PROVE  /\ f \in Seq(Chunk) /\ keys \in Seq(Key) /\ Len(keys) = Len(f) /\ recipe[c].head = Len(f)
           /\ recipe[c] \in Recipe /\ es \in Seq(Addr) /\ Len(es) = Len(f)
           /\ AddrFlow(es, Cts(f, keys), Held)
           /\ \A n \in 1 .. Len(f) : /\ Cts(f, keys)[n] = Encrypt(f[n], keys[n])
                                     /\ Cts(f, keys)[n] \in Ciphertext
  <1>1. GoodAt(f, recipe[c], keyRecipe[c], keys, Held)
    BY DEF UploadInv, GoodInv, Good
  <1>2. /\ f \in Seq(Chunk) /\ keys \in Seq(Key) /\ Len(keys) = Len(f) /\ recipe[c].head = Len(f)
        /\ recipe[c] \in Recipe /\ Len(es) = Len(f) /\ AddrFlow(es, Cts(f, keys), Held)
    BY <1>1 DEF GoodAt
  <1>3. es \in Seq(Addr)
    BY <1>2 DEF Recipe
  <1>4. ASSUME NEW n \in 1 .. Len(f)
        PROVE  Cts(f, keys)[n] = Encrypt(f[n], keys[n]) /\ Cts(f, keys)[n] \in Ciphertext
    <2>1. n \in 1 .. Len(keys) /\ f[n] \in Chunk /\ keys[n] \in Key
      BY <1>2
    <2>2. Cts(f, keys)[n] = Encrypt(f[n], keys[n])
      BY <2>1 DEF Cts
    <2> QED  BY <2>1, <2>2 DEF Encrypt, Ciphertext
  <1> QED  BY <1>2, <1>3, <1>4

(* The decoder puts an entry into the buffer, or sends the buffered ones. *)
LEMMA RestDecode ==
    ASSUME UploadInv, NEW c \in Client, committed[c] # NoFile, serverUp', client[c].op = "receive", Restores(c),
           DecodeEntry(c) \/ DecodeTail(c)
    PROVE  RestFlow(client[c].used, toClient'[c], srv'[c], Cts(committed[c], localKeys[c]), Len(recipe[c].entries))
  <1>1. PICK f, keys, es, G, L, s, u, msgs, new, used :
           /\ f = committed[c] /\ keys = localKeys[c] /\ es = recipe[c].entries /\ G = Cts(f, keys) /\ L = Len(es)
           /\ s = srv[c] /\ u = srv'[c] /\ msgs = toClient[c] /\ new = toClient'[c] /\ used = client[c].used
    OBVIOUS
  <1>2. BaseInv /\ Shape /\ SessionOK(s) /\ ServerOK(c) /\ Decoding(c)
    BY <1>1 DEF UploadInv, BaseInv, AtRest, ServerOK
  <1>3. serverUp /\ s.pc = "decode"
    BY <1>1 DEF DecodeEntry, DecodeTail
  <1>4. /\ es \in Seq(Addr) /\ AddrFlow(es, G, Held) /\ recipe[c] \in Recipe
        /\ \A n \in 1 .. Len(es) : G[n] \in Ciphertext
    <2>1. Len(es) = Len(f)
      BY <1>1, CommittedFile
    <2> QED  BY <1>1, <2>1, CommittedFile
  <1>5. DecodeOK(s, es)
    BY <1>1, <1>2, <1>3 DEF Decoding
  <1>6. RestFlow(used, msgs, s, G, L)
    BY <1>1, <1>3 DEF Restores
  <1>7. msgs \in Seq(ReplyMsg)
    BY <1>6 DEF RestFlow
  <1>8. PICK to \in 0 .. L : /\ Stream(G, used, msgs, Replies, to)
                             /\ s.send \in Seq(Ciphertext) /\ Piece(s.send, G, to, L - Len(s.todo) - Len(s.buf))
    BY <1>3, <1>6 DEF RestFlow
  <1>9. L \in Nat /\ to \in Nat /\ to <= L
    BY <1>1, <1>4, <1>8
  <1> SUFFICES RestFlow(used, new, u, G, L)
    BY <1>1
  <1>10. ASSUME NEW w, SessionOK(w), DecodeOK(w, es), w.send = s.send, Fetchable(w),
                Piece(w.send, G, to, L - Len(w.todo) - Len(w.buf))
         PROVE  /\ Recovered(w) \in Seq(Ciphertext) /\ Piece(Recovered(w), G, to, L - Len(w.todo))
                /\ w.buf # <<>> => Len(Recovered(w)) # 0
    BY <1>1, <1>2, <1>4, <1>8, <1>10, RecoveredIs
  <1>11. CASE DecodeTail(c)
    <2>1. /\ s.todo = <<>> /\ u = [Session EXCEPT !.pc = "waitClose"]
          /\ (s.buf = <<>> /\ new = msgs \o <<>>)
             \/ (s.buf # <<>> /\ Fetchable(s) /\ new = msgs \o TailMessages(Recovered(s)))
      BY <1>1, <1>2, <1>3, <1>11 DEF DecodeTail, Shape
    <2>2. u.pc = "waitClose"
      BY <2>1, SessionIs
    <2>3. CASE s.buf = <<>>
      <3>1. new = msgs
        BY <1>7, <2>1, <2>3
      <3> QED  BY <1>7, <1>8, <2>2, <3>1 DEF RestFlow
    <2>4. CASE s.buf # <<>>
      <3>1. PICK chunks : chunks = Recovered(s)
        OBVIOUS
      <3>2. /\ chunks \in Seq(Ciphertext) /\ Piece(chunks, G, to, L - Len(s.todo)) /\ Len(chunks) # 0
        BY <1>2, <1>5, <1>8, <1>10, <2>1, <2>4, <3>1
      <3>3. L - Len(s.todo) = L
        BY <1>9, <2>1
      <3>4. PICK more : more = TailMessages(chunks)
        OBVIOUS
      <3>5. more \in Seq(ReplyMsg) /\ Stream(G, to, more, Replies, L)
        BY <3>2, <3>3, <3>4, SentTailBatches
      <3>6. new = msgs \o more
        BY <2>1, <2>4, <3>1, <3>4
      <3>7. new \in Seq(ReplyMsg) /\ Stream(G, used, new, Replies, L)
        <4>1. Stream(G, used, msgs \o more, Replies, L)
          BY ONLY <1>7, <1>8, <3>5, StreamConcat
        <4> QED  BY <1>7, <3>5, <3>6, <4>1, ConcatIs
      <3>8. L \in 0 .. L
        BY <1>9
      <3> QED  BY <2>2, <3>7, <3>8 DEF RestFlow
    <2> QED  BY <2>3, <2>4
  <1>12. CASE DecodeEntry(c)
    <2>1. PICK w, chunks : w = ParseEntry(c, s) /\ chunks = Recovered(w)
      OBVIOUS
    <2>2. /\ s.todo # <<>>
          /\ \/ u = w /\ new = msgs
             \/ /\ Fetchable(w) /\ new = msgs \o FullBatches(chunks)
                /\ u = [w EXCEPT !.send = Unsent(chunks), !.ids = <<>>, !.map = {}, !.buf = <<>>]
      BY <1>1, <1>2, <1>3, <1>12, <2>1 DEF DecodeEntry, Shape
    <2>3. Parsed(s, w) /\ SessionOK(w) /\ DecodeOK(w, es)
      BY <1>1, <1>2, <1>4, <1>5, <2>1, <2>2, ParseIs
    <2>4. w.pc = "decode" /\ w.send = s.send /\ w.todo = Tail(s.todo) /\ Len(w.buf) = Len(s.buf) + 1
      BY <1>3, <2>3 DEF Parsed
    <2>5. L - Len(w.todo) - Len(w.buf) = L - Len(s.todo) - Len(s.buf)
      <3>1. PICK todo, buf : todo = s.todo /\ buf = s.buf
        OBVIOUS
      <3>2. todo \in Seq(Addr) /\ buf \in Seq(Slot) /\ todo # <<>>
        BY <1>2, <2>2, <3>1 DEF SessionOK
      <3>3. Len(Tail(todo)) = Len(todo) - 1 /\ Len(todo) \in Nat /\ Len(buf) \in Nat
        BY <3>2
      <3> QED  BY <1>9, <2>4, <3>1, <3>3
    <2>6. Piece(w.send, G, to, L - Len(w.todo) - Len(w.buf))
      BY <1>8, <2>4, <2>5
    <2>7. CASE u = w /\ new = msgs
      BY <1>7, <1>8, <2>4, <2>6, <2>7 DEF RestFlow
    <2>8. CASE /\ Fetchable(w) /\ new = msgs \o FullBatches(chunks)
               /\ u = [w EXCEPT !.send = Unsent(chunks), !.ids = <<>>, !.map = {}, !.buf = <<>>]
      <3>1. chunks \in Seq(Ciphertext) /\ Piece(chunks, G, to, L - Len(w.todo))
        BY <1>10, <2>1, <2>3, <2>4, <2>6, <2>8
      <3>2. u.send = Unsent(chunks) /\ u.buf = <<>> /\ u.todo = w.todo /\ u.pc = w.pc
        BY <2>3, <2>8 DEF SessionOK
      <3>3. PICK more, left, j : more = FullBatches(chunks) /\ left = Unsent(chunks) /\ j = L - Len(w.todo)
        OBVIOUS
      <3>4. PICK m : /\ more \in Seq(ReplyMsg) /\ Stream(G, to, more, Replies, m)
                     /\ left \in Seq(Ciphertext) /\ Piece(left, G, m, j) /\ m <= j
        BY <3>1, <3>3, SentBatches
      <3>5. m \in 0 .. L
        <4>1. m \in Nat /\ j \in Nat
          BY <3>4 DEF Piece
        <4>2. Len(w.todo) \in Nat
          BY <2>3 DEF SessionOK
        <4> QED  BY <1>9, <3>3, <3>4, <4>1, <4>2
      <3>6. j = L - Len(u.todo) - Len(u.buf)
        <4>1. Len(u.buf) = 0 /\ Len(u.todo) \in Nat
          BY <2>3, <3>2 DEF SessionOK
        <4> QED  BY <1>9, <3>2, <3>3, <4>1
      <3>7. new \in Seq(ReplyMsg) /\ Stream(G, used, new, Replies, m)
        <4>1. Stream(G, used, msgs \o more, Replies, m)
          BY ONLY <1>7, <1>8, <3>4, StreamConcat
        <4> QED  BY <1>7, <2>8, <3>3, <3>4, <4>1, ConcatIs
      <3> QED  BY <3>2, <3>3, <3>4, <3>5, <3>6, <3>7 DEF RestFlow
    <2> QED  BY <2>2, <2>7, <2>8
  <1> QED  BY <1>11, <1>12

(* The client decrypts a message with the keys of its own chunks. *)
LEMMA RestReceive ==
    ASSUME UploadInv, NEW c \in Client, committed[c] # NoFile, Restores(c), ReceiveChunks(c)
    PROVE  /\ RestoreOf(client'[c], committed[c])
           /\ RestFlow(client'[c].used, toClient'[c], srv[c], Cts(committed[c], localKeys[c]), Len(recipe[c].entries))
  <1>1. PICK f, keys, es, G, L, s, msgs, p, q, out, used :
           /\ f = committed[c] /\ keys = localKeys[c] /\ es = recipe[c].entries /\ G = Cts(f, keys) /\ L = Len(es)
           /\ s = srv[c] /\ msgs = toClient[c] /\ p = client[c] /\ q = client'[c] /\ out = p.out /\ used = p.used
    BY Zenon
  <1>2. Shape /\ DOMAIN p = DOMAIN Process
    BY <1>1 DEF UploadInv, BaseInv, AtRest, ClientOK, ProcessOK, Process
  <1>3. serverUp /\ p.op = "receive" /\ msgs # <<>>
    BY <1>1, Zenon DEF ReceiveChunks
  <1>4. /\ f \in Seq(Chunk) /\ keys \in Seq(Key) /\ Len(keys) = L /\ Len(f) = L /\ L \in Nat
        /\ \A n \in 1 .. L : G[n] = Encrypt(f[n], keys[n])
    BY <1>1, CommittedFile
  <1>5. p.head = Len(f) /\ out \in Seq(Chunk) /\ Piece(out, f, 0, used)
    BY <1>1, <1>3 DEF Restores, RestoreOf
  <1>6. RestFlow(used, msgs, s, G, L)
    BY <1>1, <1>3 DEF Restores
  <1>7. msgs \in Seq(ReplyMsg)
    BY <1>6 DEF RestFlow
  <1>8. PICK to \in 0 .. L :
          /\ Stream(G, used, msgs, Replies, to)
          /\ s.pc = "decode" => /\ s.send \in Seq(Ciphertext)
                                /\ Piece(s.send, G, to, L - Len(s.todo) - Len(s.buf))
    BY <1>6 DEF RestFlow
  <1>9. PICK msg, rest, items, n : msg = Head(msgs) /\ rest = Tail(msgs) /\ items = msg.items /\ n = Len(items)
    OBVIOUS
  <1>10. msg \in ReplyMsg /\ rest \in Seq(ReplyMsg)
    BY <1>3, <1>7, <1>9
  <1>11. msg.type \in Replies /\ items \in Seq(Ciphertext)
    BY <1>9, <1>10 DEF ReplyMsg
  <1>12. PICK m : Piece(items, G, used, m) /\ Stream(G, m, rest, Replies, to)
    <2>1. Head(msgs).type \in Replies
      BY <1>9, <1>11
    <2>2. \E m : Piece(Head(msgs).items, G, used, m) /\ Stream(G, m, Tail(msgs), Replies, to)
      BY ONLY <1>3, <1>7, <1>8, <2>1, StreamTake
    <2> QED  BY <1>9, <2>2
  <1>13. used \in Nat /\ m \in Nat /\ n \in Nat /\ m = used + n /\ m <= L
    <2>1. used \in Nat /\ m \in Nat /\ used <= m /\ n = m - used
      BY <1>9, <1>12 DEF Piece
    <2>2. m <= to
      BY <1>10, <1>12, StreamRange
    <2> QED  BY <1>4, <1>8, <2>1, <2>2
  <1>14. PICK have : have = SubSeq(keys, used + 1, used + n)
    BY Zenon
  <1>15. /\ Len(have) = n /\ DOMAIN have = 1 .. n /\ \A k \in 1 .. n : have[k] = keys[used + k]
    <2>1. have \in Seq(Key) /\ Len(have) = n /\ \A k \in 1 .. n : have[k] = keys[used + k]
      BY <1>4, <1>13, <1>14, SubSeqIs
    <2> QED  BY <2>1
  <1> DEFINE more == [k \in 1 .. n |-> IF k \in DOMAIN have THEN Decrypt(items[k], have[k]) ELSE Garbage]
  <1>16. /\ q = [p EXCEPT !.out = out \o more, !.used = used + Len(have),
                          !.op = IF msg.type = "SERVER_RESTORE_FINAL" THEN "closing" ELSE @]
         /\ toClient'[c] = rest
    <2>1. used + n <= Len(keys)
      BY <1>4, <1>13
    <2> QED  BY <1>1, <1>2, <1>9, <1>14, <2>1, Zenon DEF ReceiveChunks, NextKeys, Shape
  <1>17. ASSUME NEW k \in 1 .. n PROVE more[k] = f[used + k] /\ used + k \in 1 .. L
    <2>1. used + k \in 1 .. L
      BY <1>4, <1>13
    <2>2. items[k] = G[used + k]
      BY <1>9, <1>12 DEF Piece
    <2>3. items[k] = Encrypt(f[used + k], keys[used + k]) /\ have[k] = keys[used + k]
      BY <1>4, <1>15, <2>1, <2>2
    <2>4. more[k] = Decrypt(items[k], have[k])
      BY <1>15
    <2> HIDE DEF more
    <2> QED  BY <2>1, <2>3, <2>4, DecryptIs
  <1>18. more = [k \in 1 .. n |-> more[k]]
    OBVIOUS
  <1> HIDE DEF more
  <1>19. more \in Seq(Chunk) /\ Len(more) = n
    <2>1. \A k \in 1 .. n : more[k] \in Chunk
      BY <1>4, <1>17
    <2>2. more \in [1 .. n -> Chunk]
      BY <1>18, <2>1
    <2> QED  BY <1>13, <2>2
  <1>20. Piece(more, f, used, m)
    <2>1. n = m - used /\ used <= m
      BY <1>13
    <2> QED  BY <1>13, <1>17, <1>19, <2>1 DEF Piece
  <1>21. out \o more \in Seq(Chunk) /\ Piece(out \o more, f, 0, m)
    <2>1. Piece(out \o more, f, 0, m)
      BY ONLY <1>5, <1>19, <1>20, PieceConcat
    <2> QED  BY <1>5, <1>19, <2>1
  <1>22. q.out = out \o more /\ q.used = m /\ q.head = p.head /\ q.op \in {"receive", "closing"}
    <2>1. q.out = out \o more /\ q.used = used + Len(have) /\ q.head = p.head
      BY <1>2, <1>16 DEF Process
    <2>2. q.op = (IF msg.type = "SERVER_RESTORE_FINAL" THEN "closing" ELSE p.op)
      BY <1>2, <1>16 DEF Process
    <2> QED  BY <1>3, <1>13, <1>15, <2>1, <2>2
  <1>23. RestoreOf(q, f)
    BY <1>5, <1>21, <1>22 DEF RestoreOf
  <1>24. RestFlow(m, rest, s, G, L)
    BY <1>8, <1>10, <1>12 DEF RestFlow
  <1> QED  BY <1>1, <1>16, <1>22, <1>23, <1>24

(* A client that is in no restore. *)
LEMMA RestAway ==
    ASSUME NEW c \in Client, client'[c].op \notin {"loginRestore", "receive", "closing", "restored"}
    PROVE  Restores(c)'
  BY DEF Restores, RestoreOf

(* A step that leaves the client, and its restore, alone. *)
LEMMA RestSame ==
    ASSUME NEW c \in Client, Restores(c), client'[c] = client[c], committed'[c] = committed[c],
           localKeys'[c] = localKeys[c], recipe'[c] = recipe[c], serverUp' => serverUp,
           client[c].op = "receive" /\ serverUp' => srv'[c] = srv[c] /\ toClient'[c] = toClient[c]
    PROVE  Restores(c)'
  BY DEF Restores

LEMMA RestStep ==
    ASSUME UploadInv, NEW c \in Client, Step(c), Restores(c)
    PROVE  Restores(c)'
  <1>0. /\ BaseInv /\ Shape /\ ClientOK(c) /\ Proto(c) /\ ServerOK(c) /\ Hist(c) /\ SessionOK(srv[c])
        /\ DOMAIN client[c] = DOMAIN Process
    BY DEF UploadInv, BaseInv, AtRest, ClientOK, ProcessOK, Process, ServerOK
  <1>1. PICK p, q, f, s : p = client[c] /\ q = client'[c] /\ f = committed[c] /\ s = srv[c]
    OBVIOUS
  <1>2. serverUp' => serverUp
    BY StaysUp
  <1>3. CASE q.op \notin {"loginRestore", "receive", "closing", "restored"}
    BY <1>1, <1>3, RestAway
  <1>4. CASE committed'[c] = NoFile
    BY <1>4 DEF Restores
  <1>5. CASE committed'[c] # NoFile /\ q.op \in {"loginRestore", "receive", "closing", "restored"}
    <2>1. committed'[c] = f /\ f # NoFile /\ ~StartUpload(c)
      <3>1. q # Process
        BY <1>5 DEF Process
      <3> QED  BY <1>0, <1>1, <1>5, <3>1, CommittedIs
    <2>2. p.op \notin Uploading /\ s.pc \notin Busy /\ ~Sent(toServer[c])
      BY <1>0, <1>1, <2>1 DEF Hist
    <2>3. ~AdmitUpload(c)
      <3>1. toServer[c] \in Seq(Msg)
        BY <1>0, ClientParts
      <3> QED  BY <2>2, <3>1, SentHead DEF AdmitUpload, Login
    <2>4. recipe'[c] = recipe[c] /\ keyRecipe'[c] = keyRecipe[c] /\ localKeys'[c] = localKeys[c]
      <3>1. client[c].op # "closeKM" /\ client[c].op \notin Uploading
        BY <1>1, <2>2 DEF Uploading
      <3> QED  BY <1>0, <1>1, <2>1, <2>2, <2>3, <3>1, FileKept
    <2>5. f \in Seq(Chunk) /\ recipe[c].head = Len(f) /\ Len(recipe[c].entries) = Len(f)
      BY <1>1, <2>1, CommittedFile
    <2>6. Len(f) \in Nat
      BY <2>5
    (* Nothing that the client's restore is about. *)
    <2>7. ASSUME q = p, p.op = "receive" /\ serverUp' => srv'[c] = s /\ toClient'[c] = toClient[c]
          PROVE  Restores(c)'
      BY <1>1, <1>2, <2>1, <2>4, <2>7, RestSame
    <2>8. CASE \/ RestoreUnknown(c) \/ RequestKeys(c) \/ GenerateKeySeed(c) \/ ReplyKeys(c) \/ DecoderFails(c)
      <3>1. client' = client /\ srv' = srv /\ toClient' = toClient
        BY <2>8 DEF RestoreUnknown, RequestKeys, GenerateKeySeed, ReplyKeys, DecoderFails, serverVars
      <3> QED  BY <1>1, <2>7, <3>1
    <2>9. CASE \/ LastContainer(c) \/ EndSession(c) \/ SaveToFile(c)
      <3>1. client' = client /\ serverUp /\ (s.pc \in {"last", "join"} \/ s.inputMQ # <<>>)
        BY <1>1, <2>9 DEF LastContainer, EndSession, SaveToFile
      <3>2. p.op = "receive" => s.pc \in {"decode", "waitClose"}
        BY <1>0, <1>1, <3>1 DEF Proto, ProtoAt
      <3>3. s.pc \in {"decode", "waitClose"} => s.inputMQ = <<>>
        BY <1>0, <1>1 DEF SessionOK, OpenPcs
      <3>4. p.op # "receive"
        BY <3>1, <3>2, <3>3
      <3> QED  BY <1>1, <2>7, <3>1, <3>4
    <2>10. CASE ConnectionClosed(c) \/ CloseKeyThread(c)
      <3>1. q = p \/ p.op \in {"finish", "closeKM"}
        BY <1>0, <1>1, <2>10 DEF ConnectionClosed, CloseKeyThread, PeerGone, Shape
      <3>2. q = p
        BY <2>2, <3>1 DEF Uploading
      <3>3. p.op \in {"closeKM", "dead", "finish"}
        BY <1>1, <2>10 DEF ConnectionClosed, CloseKeyThread, PeerGone
      <3> QED  BY <2>7, <3>2, <3>3
    <2>11. CASE ProcessRecipes(c) \/ ReceiveBatch(c) \/ QueryIndex(c) \/ StoreChunk(c) \/ ProcessRecipeEnd(c)
      BY <1>1, <2>2, <2>11, Zenon DEF ProcessRecipes, ReceiveBatch, QueryIndex, StoreChunk, ProcessRecipeEnd, Receives, Busy
    <2>12. CASE FillBatch(c) \/ EncryptBatch(c) \/ EndUpload(c)
      BY <1>1, <2>2, <2>12, Zenon DEF FillBatch, EncryptBatch, EndUpload, Uploading
    <2>13. CASE Abort(c) \/ ClientFails(c) \/ ExitRestore(c) \/ Again(c)
      <3>1. q.op \in {"dead", "idle"}
        BY <1>0, <1>1, <2>13 DEF Abort, ClientFails, ExitRestore, Again, Shape, Process
      <3> QED  BY <1>5, <3>1
    <2>14. CASE StartRestore(c)
      <3>1. q = [Process EXCEPT !.op = "loginRestore"]
        BY <1>0, <1>1, <2>14 DEF StartRestore, Shape
      <3>2. q.op = "loginRestore" /\ q.used = 0 /\ q.out = <<>>
        BY <3>1 DEF Process
      <3> QED  BY <1>1, <2>1, <3>2 DEF Restores, RestoreOf
    <2>15. CASE RejectRestore(c)
      <3>1. (q = p /\ p.op = "dead") \/ q = [p EXCEPT !.op = "idle"]
        BY <1>0, <1>1, <2>15 DEF RejectRestore, Responds, Shape
      <3>2. q.op \in {"idle", "dead"}
        BY <1>0, <1>1, <3>1 DEF Process
      <3> QED  BY <1>5, <3>2
    <2>16. CASE AdmitRestore(c)
      <3>1. /\ (q = p /\ p.op = "dead") \/ (p.op # "dead" /\ q = [p EXCEPT !.op = "receive", !.head = recipe[c].head])
            /\ toClient'[c] = <<>> /\ Login(c, "CLIENT_LOGIN_DOWNLOAD")
        BY <1>0, <1>1, <2>16 DEF AdmitRestore, Shape
      <3>2. q = [p EXCEPT !.op = "receive", !.head = recipe[c].head] /\ p.op # "dead"
        BY <1>5, <3>1
      <3>3. p.op = "loginRestore"
        <4>1. "CLIENT_LOGIN_DOWNLOAD" \in Logins
          BY DEF Logins
        <4>2. p.op \in {"login", "loginRestore", "dead"}
          BY <1>0, <1>1, <3>1, <4>1, LoginIs
        <4> QED  BY <2>2, <3>2, <4>2 DEF Uploading
      <3>4. p.used = 0 /\ p.out = <<>>
        BY <1>1, <2>1, <3>3 DEF Restores, RestoreOf
      <3>5. q.op = "receive" /\ q.head = Len(f) /\ q.used = 0 /\ q.out = <<>>
        BY <1>0, <1>1, <2>5, <3>2, <3>4 DEF Process
      <3>6. <<>> \in Seq(Chunk) /\ Piece(<<>>, f, 0, 0)
        BY PieceNone
      <3>7. RestoreOf(q, f)
        BY <3>5, <3>6 DEF RestoreOf
      <3>8. PICK u, G, es : u = srv'[c] /\ G = Cts(f, localKeys[c]) /\ es = recipe[c].entries
        OBVIOUS
      <3>9. u.pc = "decode" /\ u.todo = es /\ u.buf = <<>> /\ u.send = <<>>
        BY <1>0, <2>16, <3>8, AdmitRestoreServer
      <3>10. RestFlow(0, <<>>, u, G, Len(es))
        <4>1. Len(es) - Len(es) - Len(<<>>) = 0 /\ 0 \in 0 .. Len(es)
          <5>1. PICK L : L = Len(es)
            OBVIOUS
          <5>2. L \in Nat
            BY <2>5, <2>6, <3>8, <5>1
          <5>3. Len(<<>>) = 0
            OBVIOUS
          <5>4. L - L - 0 = 0 /\ 0 \in 0 .. L
            BY ONLY <5>2
          <5> QED  BY ONLY <5>1, <5>3, <5>4
        <4>2. <<>> \in Seq(ReplyMsg) /\ <<>> \in Seq(Ciphertext) /\ Stream(G, 0, <<>>, Replies, 0) /\ Piece(<<>>, G, 0, 0)
          BY StreamNone, PieceNone
        <4>3. Piece(u.send, G, 0, Len(es) - Len(u.todo) - Len(u.buf)) /\ u.send \in Seq(Ciphertext)
          BY <3>9, <4>1, <4>2
        <4> QED  BY <4>1, <4>2, <4>3 DEF RestFlow
      <3> QED  BY <1>1, <2>1, <2>4, <3>1, <3>5, <3>7, <3>8, <3>10 DEF Restores
    <2>17. CASE DecodeEntry(c) \/ DecodeTail(c)
      <3>1. client' = client
        BY <2>17 DEF DecodeEntry, DecodeTail
      <3>2. RestoreOf(p, f)
        BY <1>1, <2>1 DEF Restores
      <3>3. ASSUME p.op = "receive", serverUp'
            PROVE  RestFlow(p.used, toClient'[c], srv'[c], Cts(f, localKeys[c]), Len(recipe[c].entries))
        BY <1>1, <2>1, <2>17, <3>3, RestDecode
      <3> QED  BY <1>1, <2>1, <2>4, <3>1, <3>2, <3>3 DEF Restores
    <2>18. CASE ReceiveChunks(c)
      <3>1. RestoreOf(q, f) /\ RestFlow(q.used, toClient'[c], s, Cts(f, localKeys[c]), Len(recipe[c].entries))
        BY <1>1, <2>1, <2>18, RestReceive
      <3>2. srv'[c] = s
        BY <1>1, <2>18, Zenon DEF ReceiveChunks, serverVars
      <3> QED  BY <1>1, <2>1, <2>4, <3>1, <3>2 DEF Restores
    (* The number of chunks decides, and it is right. *)
    <2>19. CASE CloseRestore(c)
      <3>1. /\ p.op \in {"closing", "dead"}
            /\ q = [p EXCEPT !.op = IF p.op = "dead" THEN p.op
                                    ELSE IF p.head \in {Len(p.out), Garbage} THEN "restored" ELSE "idle"]
        BY <1>0, <1>1, <2>19 DEF CloseRestore, Shape
      <3>2. q.op = (IF p.op = "dead" THEN p.op
                    ELSE IF p.head \in {Len(p.out), Garbage} THEN "restored" ELSE "idle") /\ q.out = p.out
        BY <1>0, <1>1, <3>1 DEF Process
      <3>3. p.op = "closing" /\ p.head \in {Len(p.out), Garbage} /\ q.op = "restored"
        BY <1>5, <3>1, <3>2
      <3>4. p.head = Len(f) /\ p.out \in Seq(Chunk) /\ Piece(p.out, f, 0, p.used)
        BY <1>1, <2>1, <3>3 DEF Restores, RestoreOf
      <3>5. Len(p.out) = Len(f)
        BY <2>6, <3>3, <3>4, DaEAssumption
      <3>6. \A n \in 1 .. Len(f) : p.out[n] = f[n]
        <4>1. \A n \in 1 .. Len(f) : p.out[n] = f[0 + n] /\ 0 + n = n
          BY <2>6, <3>4, <3>5 DEF Piece
        <4> QED  BY <4>1
      <3>7. p.out = f
        <4>1. PICK o : o = p.out
          OBVIOUS
        <4>2. o \in Seq(Chunk) /\ f \in Seq(Chunk) /\ Len(o) = Len(f) /\ \A n \in 1 .. Len(f) : o[n] = f[n]
          BY <2>5, <3>4, <3>5, <3>6, <4>1
        <4>3. o = f
          BY ONLY <4>2
        <4> QED  BY <4>1, <4>3
      <3> QED  BY <1>1, <2>1, <3>2, <3>3, <3>7 DEF Restores, RestoreOf
    <2> QED
      BY <2>1, <2>3, <2>8, <2>9, <2>10, <2>11, <2>12, <2>13, <2>14, <2>15, <2>16, <2>17, <2>18, <2>19 DEF Step
  <1> QED  BY <1>3, <1>4, <1>5

LEMMA RestFrame ==
    ASSUME NEW c \in Client, NEW d \in Client, Step(c), Frame(d), Restores(d)
    PROVE  Restores(d)'
  <1>1. serverUp' => serverUp
    BY StaysUp
  <1> QED  BY <1>1, RestSame DEF Frame

LEMMA RestRestart ==
    ASSUME RestartServer, NEW c \in Client, Restores(c)
    PROVE  Restores(c)'
  <1>1. client' = client /\ client[c].op \notin Restoring /\ committed'[c] \in {committed[c], NoFile}
    BY DEF RestartServer
  <1> QED  BY <1>1 DEF Restores, RestoreOf, Restoring

(* A restore that ends well, of a file whose upload ended well, has written    *)
(* that file: whichever keys the key manager answered, wherever the chunks    *)
(* are stored and whoever shares them, and however the server groups and      *)
(* batches them.                                                              *)
THEOREM RestoresExact == Spec => []RestoredExactly
  <1> DEFINE Inv == UploadInv /\ \A c \in Client : Restores(c)
  <1>1. Init => Inv
    <2> SUFFICES ASSUME Init PROVE Inv
      OBVIOUS
    <2>1. \A c \in Client : committed[c] = NoFile
      BY DEF Init
    <2> QED  BY <2>1, UploadInit DEF Restores
  <1>2. Inv /\ [Next]_vars => Inv'
    <2> SUFFICES ASSUME Inv, [Next]_vars PROVE Inv'
      OBVIOUS
    <2>1. CASE Aside
      <3>1. UNCHANGED <<client, localKeys, toClient, srv, recipe, serverUp, committed>>
        BY <2>1 DEF Aside
      <3> QED  BY <2>1, <3>1, UploadAside DEF Restores
    <2>2. CASE RestartServer
      BY <2>2, UploadRestart, RestRestart
    <2>3. ASSUME NEW c \in Client, Step(c) PROVE Inv'
      <3>1. UploadInv'
        BY <2>3, UploadStep
      <3>2. \A d \in Client \ {c} : Frame(d)
        BY <2>3, BaseStep DEF UploadInv
      <3>3. Restores(c)'
        BY <2>3, RestStep
      <3>4. \A d \in Client \ {c} : Restores(d)'
        BY <2>3, <3>2, RestFrame
      <3> QED  BY <3>1, <3>3, <3>4
    <2> QED  BY <2>1, <2>2, <2>3, StepsAre
  <1>3. Inv => RestoredExactly
    BY DEF RestoredExactly, Restores, RestoreOf
  <1> QED  BY <1>1, <1>2, <1>3, PTL DEF Spec
-----------------------------------------------------------------------------
(* How far the key manager has counted the file of one connection: n chunks   *)
(* of f, the last of them in the batch that is in its hands.                  *)
Word == 0 .. SKETCH_WIDTH - 1
HitsTo(f, n, r, h) == {m \in 1 .. n : ShortHash[f[m]][r] = h}
Counted(f, n, r, h) == Cardinality(HitsTo(f, n, r, h))

At(p, keys, k, f, n) ==
    /\ f \in Seq(Chunk) /\ n \in Nat /\ n <= Len(f)
    /\ p.op \in Uploading => f = p.file
    /\ p.op \in Uploading /\ k.pc = "recv" => n = Len(keys)
    /\ k.pc \in {"loop", "reply", "sent"} =>
          \E i \in Nat : /\ n = i + Len(k.out) /\ i + Len(k.in) <= Len(f)
                         /\ Piece(k.in, f, i, i + Len(k.in))
                         /\ p.op \in Uploading => i = Len(keys)

(* What the open connection of a client has put into counter h of row r. *)
TallyOf(p, keys, k, files, r, h, g) ==
    \/ k.pc = "none" /\ g = 0
    \/ k.pc # "none" /\ \E f \in files, n \in Nat : At(p, keys, k, f, n) /\ g = Counted(f, n, r, h)
Tally(c, r, h, g) == TallyOf(client[c], localKeys[c], km[c], uploaded[c], r, h, g)

Marks(g) == UNION {{c} \X (1 .. g[c]) : c \in Client}
(* A counter that is to be cleared may hold what ended connections put there. *)
Counter(r, h) ==
    \E g \in [Client -> Nat] : /\ \A c \in Client : Tally(c, r, h, g[c])
                               /\ <<r, h>> \notin uncleared => sketchTable[r][h] <= Cardinality(Marks(g))

(* The seeds that keep the bound, and the ciphertexts under their keys. *)
GoodSeed(p, s) ==
    IF method = "TED"
    THEN s \in Nat /\ \A r \in Row : s <= Cardinality(Sendings(r, ShortHash[p][r])) \div t
    ELSE UsesKM => s = 0
GoodCts == {ct \in Ciphertext : \E s : GoodSeed(ct.plain, s) /\ ct.key = KeyOf(ct.plain, s)}
MsgOver(G) == {m \in Msg : m.type = "CLIENT_UPLOAD_CHUNK" => m.items \in Seq(G)}

HistoryOK ==
    /\ DOMAIN uploaded = Client /\ \A c \in Client : uploaded[c] \subseteq Seq(Chunk)
    /\ \A r \in Row, h \in Word : IsFiniteSet(Sendings(r, h))
SketchOK ==
    /\ sketchTable \in [Row -> [Word -> Nat]]
    /\ method = "TED" => \A r \in Row, h \in Word : Counter(r, h)
SeedsOK(c) ==
    km[c].pc \in {"loop", "reply", "sent"} =>
        \A n \in 1 .. Len(km[c].out) : GoodSeed(km[c].in[n], km[c].out[n])
SendsGood(c) == toServer[c] \in Seq(MsgOver(GoodCts)) /\ srv[c].rest \in Seq(GoodCts)

(* As long as no two threads raced, the counters that are not to be cleared   *)
(* count the connections that are open, and every seed, message and index     *)
(* entry keeps the bound.                                                     *)
BoundedInv ==
    /\ HistoryOK /\ SketchOK /\ DOMAIN index \subseteq GoodCts
    /\ \A c \in Client : SeedsOK(c) /\ SendsGood(c)
DedupInv == ~raced => BoundedInv

(* The short hashes index the counters of a row. *)
LEMMA HitIs == ASSUME NEW p \in Chunk, NEW r \in Row PROVE ShortHash[p][r] \in Word
  BY DaEAssumption DEF Word

(* The hits of a counter among the first n chunks are finitely many. *)
LEMMA PrefixFinite ==
    ASSUME NEW f, NEW n \in Nat, NEW r, NEW h
    PROVE  IsFiniteSet(HitsTo(f, n, r, h)) /\ Counted(f, n, r, h) \in Nat
  <1>1. IsFiniteSet(1 .. n)
    BY FS_Interval
  <1>2. HitsTo(f, n, r, h) \in SUBSET (1 .. n)
    BY DEF HitsTo
  <1>3. IsFiniteSet(HitsTo(f, n, r, h))
    BY <1>1, <1>2, FS_Subset
  <1> QED  BY <1>3, FS_CardinalityType DEF Counted

LEMMA CountedIs ==
    ASSUME NEW f \in Seq(Chunk), NEW n \in Nat, n <= Len(f), NEW r, NEW h
    PROVE  /\ Counted(f, n, r, h) \in Nat /\ Hits(f, r, h) \in Nat
           /\ Counted(f, n, r, h) <= Hits(f, r, h)
  <1>1. DOMAIN f = 1 .. Len(f) /\ Len(f) \in Nat
    OBVIOUS
  <1>2. Hits(f, r, h) = Cardinality(HitsTo(f, Len(f), r, h))
    BY <1>1 DEF Hits, HitsTo
  <1>3. PICK S, T : S = HitsTo(f, n, r, h) /\ T = HitsTo(f, Len(f), r, h)
    OBVIOUS
  <1>4. IsFiniteSet(T)
    BY <1>1, <1>3, PrefixFinite
  <1>5. S \in SUBSET T
    BY <1>1, <1>3 DEF HitsTo
  <1>6. Cardinality(S) <= Cardinality(T) /\ Cardinality(T) \in Nat
    BY <1>4, <1>5, FS_Subset, FS_CardinalityType
  <1>7. Counted(f, n, r, h) \in Nat
    BY PrefixFinite
  <1> QED  BY <1>2, <1>3, <1>6, <1>7 DEF Counted

LEMMA CountedNone == ASSUME NEW f, NEW r, NEW h PROVE Counted(f, 0, r, h) = 0
  <1>1. HitsTo(f, 0, r, h) = {}
    BY DEF HitsTo
  <1> QED  BY <1>1, FS_EmptySet DEF Counted

(* One more chunk counts once in the counter it hits and in no other. *)
LEMMA CountedNext ==
    ASSUME NEW f, NEW n \in Nat, NEW r, NEW h
    PROVE  Counted(f, n + 1, r, h) = Counted(f, n, r, h) + IF ShortHash[f[n + 1]][r] = h THEN 1 ELSE 0
  <1>1. PICK S, T : S = HitsTo(f, n, r, h) /\ T = HitsTo(f, n + 1, r, h)
    OBVIOUS
  <1>2. IsFiniteSet(S) /\ Cardinality(S) \in Nat
    BY <1>1, PrefixFinite DEF Counted
  <1>3. n + 1 \notin S
    BY <1>1 DEF HitsTo
  <1>4. CASE ShortHash[f[n + 1]][r] = h
    <2>1. T = S \cup {n + 1}
      BY <1>1, <1>4 DEF HitsTo
    <2>2. Cardinality(T) = Cardinality(S) + 1
      BY <1>2, <1>3, <2>1, FS_AddElement
    <2> QED  BY <1>1, <1>4, <2>2 DEF Counted
  <1>5. CASE ShortHash[f[n + 1]][r] # h
    <2>1. T = S
      BY <1>1, <1>5 DEF HitsTo
    <2>2. Cardinality(T) = Cardinality(S) + 0
      BY <1>2, <2>1
    <2> QED  BY <1>1, <1>5, <2>2 DEF Counted
  <1> QED  BY <1>4, <1>5

(* A sending is a hit of a file that its client has uploaded, now *)
LEMMA SendingsIn ==
    \A r, h, x : x \in Sendings(r, h) <=>
        \E c \in Client : \E f \in uploaded[c] : \E j \in 1 .. Hits(f, r, h) : x = <<c, j>>
  BY DEF Sendings

LEMMA MarksIn == \A g, x : x \in Marks(g) <=> \E c \in Client : \E j \in 1 .. g[c] : x = <<c, j>>
  BY DEF Marks

(* What the open connections have counted was sent. *)
LEMMA MarksSent ==
    ASSUME NEW r, NEW h, NEW g \in [Client -> Nat], \A c \in Client : Tally(c, r, h, g[c])
    PROVE  Marks(g) \subseteq Sendings(r, h)
  <1> SUFFICES ASSUME NEW x \in Marks(g) PROVE x \in Sendings(r, h)
    OBVIOUS
  <1>1. PICK c \in Client : \E j \in 1 .. g[c] : x = <<c, j>>
    BY MarksIn
  <1>0. PICK j \in 1 .. g[c] : x = <<c, j>>
    BY <1>1
  <1>2. PICK n : n = g[c]
    OBVIOUS
  <1>3. n # 0 /\ n \in Nat /\ j \in 1 .. n /\ Tally(c, r, h, n)
    BY <1>2
  <1>4. PICK f \in uploaded[c], i \in Nat : At(client[c], localKeys[c], km[c], f, i) /\ n = Counted(f, i, r, h)
    BY <1>3 DEF Tally, TallyOf
  <1>5. f \in Seq(Chunk) /\ i <= Len(f)
    BY <1>4 DEF At
  <1>6. n <= Hits(f, r, h) /\ Hits(f, r, h) \in Nat
    BY <1>4, <1>5, CountedIs
  <1>7. j \in 1 .. Hits(f, r, h)
    BY <1>3, <1>6
  <1> QED  BY <1>0, <1>7, SendingsIn

(* A counter that grows does not lower the seed. *)
LEMMA DivGrows ==
    ASSUME NEW a \in Nat, NEW b \in Nat, a <= b
    PROVE  a \div t \in Nat /\ b \div t \in Nat /\ a \div t <= b \div t
  BY DaEAssumption

(* The estimate is the least of the counters of a chunk. *)
LEMMA LeastIs ==
    ASSUME NEW S \in SUBSET Nat, S # {}
    PROVE  Min(S) \in S /\ \A y \in S : Min(S) <= y
  <1> DEFINE R == OpToRel(<, Nat)
  <1>1. IsWellFoundedOn(R, Nat)
    BY NatLessThanWellFounded, Zenon
  <1>2. \A m, n \in Nat : m < n => <<m, n>> \in R
    BY DEF OpToRel
  <1> HIDE DEF R
  <1>3. PICK x \in S : \A y \in S : ~(<<y, x>> \in R)
    BY <1>1, WFMin
  <1>4. ASSUME NEW y \in S PROVE x <= y
    <2>1. x \in Nat /\ y \in Nat
      OBVIOUS
    <2>2. ~(y < x)
      BY <1>2, <1>3, <2>1, Zenon
    <2> QED  BY <2>1, <2>2
  <1> QED  BY <1>4 DEF Min

(* Who changes the history, the sketch and the threads of the key manager. *)
LEMMA UploadedSame ==
    ASSUME NEW c \in Client, Step(c), ~StartUpload(c)
    PROVE  uploaded' = uploaded
  <1> USE DEF history
  <1>1. CASE \/ StartRestore(c) \/ RestoreUnknown(c) \/ Abort(c) \/ FillBatch(c)
             \/ RequestKeys(c) \/ EncryptBatch(c) \/ EndUpload(c) \/ AdmitUpload(c)
    BY <1>1, Zenon DEF StartRestore, RestoreUnknown, Abort, FillBatch, RequestKeys, EncryptBatch,
       EndUpload, AdmitUpload
  <1>2. CASE \/ ReceiveChunks(c) \/ ExitRestore(c) \/ GenerateKeySeed(c) \/ ReplyKeys(c) \/ CloseKeyThread(c)
             \/ ProcessRecipes(c) \/ ReceiveBatch(c) \/ QueryIndex(c) \/ StoreChunk(c)
    BY <1>2, Zenon DEF ReceiveChunks, ExitRestore, GenerateKeySeed, ReplyKeys, CloseKeyThread, ProcessRecipes,
       ReceiveBatch, QueryIndex, StoreChunk
  <1>3. CASE \/ ProcessRecipeEnd(c) \/ ConnectionClosed(c) \/ LastContainer(c) \/ EndSession(c) \/ SaveToFile(c)
             \/ RejectRestore(c) \/ AdmitRestore(c) \/ DecodeEntry(c) \/ DecodeTail(c)
             \/ DecoderFails(c) \/ CloseRestore(c) \/ ClientFails(c) \/ Again(c)
    BY <1>3, Zenon DEF ProcessRecipeEnd, ConnectionClosed, LastContainer, EndSession, SaveToFile, RejectRestore,
       AdmitRestore, DecodeEntry, DecodeTail, DecoderFails, CloseRestore, ClientFails, Again
  <1> QED  BY <1>1, <1>2, <1>3 DEF Step

(* A race that happened is never forgotten. *)
LEMMA RacedSame ==
    ASSUME NEW c \in Client, Step(c), ~raced'
    PROVE  ~raced
  <1> USE DEF history
  <1>1. CASE \/ StartUpload(c) \/ StartRestore(c) \/ RestoreUnknown(c) \/ Abort(c) \/ FillBatch(c)
             \/ RequestKeys(c) \/ EncryptBatch(c) \/ EndUpload(c) \/ AdmitUpload(c)
    BY <1>1, Zenon DEF StartUpload, StartRestore, RestoreUnknown, Abort, FillBatch, RequestKeys, EncryptBatch,
       EndUpload, AdmitUpload
  <1>2. CASE \/ ReceiveChunks(c) \/ ExitRestore(c) \/ GenerateKeySeed(c) \/ ReplyKeys(c) \/ CloseKeyThread(c)
             \/ ProcessRecipes(c) \/ ReceiveBatch(c) \/ QueryIndex(c) \/ StoreChunk(c)
    BY <1>2, ZenonT(30) DEF ReceiveChunks, ExitRestore, GenerateKeySeed, ReplyKeys, CloseKeyThread, ProcessRecipes,
       ReceiveBatch, QueryIndex, StoreChunk
  <1>3. CASE \/ ProcessRecipeEnd(c) \/ ConnectionClosed(c) \/ LastContainer(c) \/ EndSession(c) \/ SaveToFile(c)
             \/ RejectRestore(c) \/ AdmitRestore(c) \/ DecodeEntry(c) \/ DecodeTail(c)
             \/ DecoderFails(c) \/ CloseRestore(c) \/ ClientFails(c) \/ Again(c)
    BY <1>3 DEF ProcessRecipeEnd, ConnectionClosed, LastContainer, EndSession, SaveToFile, RejectRestore,
       AdmitRestore, DecodeEntry, DecodeTail, DecoderFails, CloseRestore, ClientFails, Again
  <1> QED  BY <1>1, <1>2, <1>3 DEF Step

KeyStep(c) == \/ StartUpload(c) \/ RequestKeys(c) \/ EncryptBatch(c)
              \/ GenerateKeySeed(c) \/ ReplyKeys(c) \/ CloseKeyThread(c)

(* Outside the counting and the closing of a thread, the sketch stays, and   *)
(* only the steps of KeyStep touch a thread.                                 *)
LEMMA KeysSame ==
    ASSUME NEW c \in Client, Step(c), ~GenerateKeySeed(c), ~CloseKeyThread(c)
    PROVE  sketchTable' = sketchTable /\ uncleared' = uncleared /\ (~KeyStep(c) => km' = km)
  <1> USE DEF kmVars, KeyStep
  <1>1. CASE \/ StartUpload(c) \/ RequestKeys(c) \/ EncryptBatch(c) \/ ReplyKeys(c)
    BY <1>1, Zenon DEF StartUpload, RequestKeys, EncryptBatch, ReplyKeys
  <1>2. CASE \/ StartRestore(c) \/ RestoreUnknown(c) \/ Abort(c) \/ FillBatch(c) \/ EndUpload(c) \/ AdmitUpload(c)
             \/ ReceiveChunks(c) \/ ExitRestore(c) \/ ProcessRecipes(c) \/ ReceiveBatch(c) \/ QueryIndex(c)
             \/ StoreChunk(c)
    BY <1>2, ZenonT(30) DEF StartRestore, RestoreUnknown, Abort, FillBatch, EndUpload, AdmitUpload, ReceiveChunks,
       ExitRestore, ProcessRecipes, ReceiveBatch, QueryIndex, StoreChunk
  <1>3. CASE \/ ProcessRecipeEnd(c) \/ ConnectionClosed(c) \/ LastContainer(c) \/ EndSession(c) \/ SaveToFile(c)
             \/ RejectRestore(c) \/ AdmitRestore(c) \/ DecodeEntry(c) \/ DecodeTail(c)
             \/ DecoderFails(c) \/ CloseRestore(c) \/ ClientFails(c) \/ Again(c)
    BY <1>3 DEF ProcessRecipeEnd, ConnectionClosed, LastContainer, EndSession, SaveToFile, RejectRestore,
       AdmitRestore, DecodeEntry, DecodeTail, DecoderFails, CloseRestore, ClientFails, Again
  <1> QED  BY <1>1, <1>2, <1>3 DEF Step

(* A client that still uploads does so with the same file, and the same keys  *)
(* but for a new batch.                                                       *)
LEMMA StillUploading ==
    ASSUME BaseInv, NEW c \in Client, Step(c), ~StartUpload(c), ~EncryptBatch(c), client'[c].op \in Uploading
    PROVE  client[c].op \in Uploading /\ client'[c].file = client[c].file /\ localKeys'[c] = localKeys[c]
  <1>0. Shape /\ DOMAIN client[c] = DOMAIN Process /\ ClientOK(c) /\ Proto(c)
    BY DEF BaseInv, AtRest, ClientOK, ProcessOK, Process
  <1>1. PICK p, q : p = client[c] /\ q = client'[c]
    OBVIOUS
  <1>2. q.op \in Uploading /\ DOMAIN p = DOMAIN Process
    BY <1>0, <1>1
  <1>3. CASE \/ StartRestore(c) \/ Abort(c) \/ ClientFails(c) \/ ExitRestore(c) \/ Again(c) \/ ReceiveChunks(c)
    <2>1. CASE StartRestore(c) \/ Abort(c)
      BY <1>0, <1>1, <1>2, <2>1 DEF StartRestore, Abort, Shape, Process, Uploading
    <2>2. CASE ClientFails(c) \/ ExitRestore(c) \/ Again(c)
      BY <1>0, <1>1, <1>2, <2>2 DEF ClientFails, ExitRestore, Again, Shape, Process, Uploading
    <2>3. CASE ReceiveChunks(c)
      BY <1>0, <1>1, <1>2, <2>3, Zenon DEF ReceiveChunks, Shape, Process, Uploading
    <2> QED  BY <1>3, <2>1, <2>2, <2>3
  <1>4. CASE CloseKeyThread(c)
    <2>1. q.op \notin Uploading
      BY <1>0, <1>1, <1>4 DEF CloseKeyThread, Shape, Process, Uploading
    <2> QED  BY <1>2, <2>1
  <1>5. CASE RejectRestore(c) \/ AdmitRestore(c) \/ CloseRestore(c)
    <2>1. localKeys' = localKeys /\ (q = p \/ q.op \in {"idle", "receive", "restored", "dead"})
      BY <1>0, <1>1, <1>5 DEF RejectRestore, AdmitRestore, CloseRestore, Login, Responds, Shape, Process
    <2>2. q = p
      BY <1>2, <2>1 DEF Uploading
    <2> QED  BY <1>1, <1>2, <2>1, <2>2
  <1>6. CASE FillBatch(c)
    BY <1>0, <1>1, <1>6 DEF FillBatch, Shape, Process, Uploading
  <1>7. CASE EndUpload(c)
    BY <1>0, <1>1, <1>7, EndIs DEF EndUpload, SendsTo, Uploading
  <1>8. CASE ConnectionClosed(c)
    <2>1. /\ localKeys' = localKeys
          /\ q = p \/ q = Process \/ (p.op = "finish" /\ q = [p EXCEPT !.op = "closeKM"])
      BY <1>0, <1>1, <1>8 DEF ConnectionClosed, PeerGone, Shape
    <2>2. CASE q = Process
      BY <1>2, <2>2 DEF Process, Uploading
    <2>3. CASE p.op = "finish" /\ q = [p EXCEPT !.op = "closeKM"]
      <3>1. q.file = p.file /\ p.op \in Uploading
        BY <1>2, <2>3 DEF Process, Uploading
      <3> QED  BY <1>1, <2>1, <3>1
    <2> QED  BY <1>1, <1>2, <2>1, <2>2, <2>3
  <1>9. CASE AdmitUpload(c)
    <2>1. Login(c, "CLIENT_LOGIN_UPLOAD") /\ localKeys' = localKeys
      BY <1>9 DEF AdmitUpload
    <2>2. p.op \in {"login", "dead"}
      BY <1>0, <1>1, <2>1, LoginIs DEF Logins
    <2>3. q = p \/ (p.op # "dead" /\ q = [p EXCEPT !.op = "pop"])
      BY <1>0, <1>1, <1>9 DEF AdmitUpload, Responds, Shape
    <2>4. q.file = p.file /\ p.op \in Uploading
      BY <1>2, <2>2, <2>3 DEF Process, Uploading
    <2> QED  BY <1>1, <2>1, <2>4
  <1>10. CASE \/ RestoreUnknown(c) \/ RequestKeys(c) \/ GenerateKeySeed(c) \/ ReplyKeys(c) \/ ProcessRecipes(c)
              \/ ReceiveBatch(c) \/ QueryIndex(c) \/ StoreChunk(c) \/ ProcessRecipeEnd(c) \/ LastContainer(c)
              \/ EndSession(c) \/ SaveToFile(c) \/ DecodeEntry(c) \/ DecodeTail(c) \/ DecoderFails(c)
    <2>1. client' = client /\ localKeys' = localKeys
      BY <1>10, Zenon DEF RestoreUnknown, RequestKeys, GenerateKeySeed, ReplyKeys, ProcessRecipes, ReceiveBatch,
         QueryIndex, StoreChunk, ProcessRecipeEnd, LastContainer, EndSession, SaveToFile, DecodeEntry,
         DecodeTail, DecoderFails
    <2> QED  BY <1>1, <1>2, <2>1
  <1> QED  BY <1>3, <1>4, <1>5, <1>6, <1>7, <1>8, <1>9, <1>10 DEF Step

(* and after a step. *)
LEMMA SendingsNext ==
    \A r, h, x : x \in Sendings(r, h)' <=>
        \E c \in Client : \E f \in uploaded'[c] : \E j \in 1 .. Hits(f, r, h) : x = <<c, j>>
  BY DEF Sendings

Grows == \A r, h : Sendings(r, h) \subseteq Sendings(r, h)'

LEMMA HistoryStep ==
    ASSUME BaseInv, HistoryOK, NEW c \in Client, Step(c)
    PROVE  HistoryOK' /\ Grows
  <1>1. CASE ~StartUpload(c)
    <2>1. uploaded' = uploaded
      BY <1>1, UploadedSame
    <2> QED  BY <2>1 DEF HistoryOK, Sendings, Grows
  <1>2. CASE StartUpload(c)
    <2>1. PICK f : f = Head(plan[c])[1]
      OBVIOUS
    <2>2. uploaded' = [uploaded EXCEPT ![c] = @ \cup {f}] /\ plan[c] # <<>> /\ Head(plan[c]) # <<>>
      BY <1>2, <2>1 DEF StartUpload
    <2>3. f \in Seq(Chunk)
      <3>1. PICK s : s = plan[c]
        OBVIOUS
      <3>2. s \in Seq(Seq(Seq(Chunk))) /\ s # <<>>
        BY <2>2, <3>1 DEF BaseInv, AtRest, ClientOK
      <3>3. PICK u : u = Head(s)
        OBVIOUS
      <3>4. u \in Seq(Seq(Chunk)) /\ u # <<>>
        BY <2>2, <3>1, <3>2, <3>3
      <3> QED  BY <2>1, <3>1, <3>3, <3>4
    <2>4. /\ DOMAIN uploaded' = Client /\ uploaded'[c] = uploaded[c] \cup {f}
          /\ \A d \in Client \ {c} : uploaded'[d] = uploaded[d]
      BY <2>2 DEF HistoryOK
    <2>5. \A d \in Client : uploaded'[d] \subseteq Seq(Chunk)
      BY <2>3, <2>4 DEF HistoryOK
    <2>6. ASSUME NEW r, NEW h, NEW x, x \in Sendings(r, h) PROVE x \in Sendings(r, h)'
      <3>1. PICK d \in Client : \E e \in uploaded[d] : \E j \in 1 .. Hits(e, r, h) : x = <<d, j>>
        BY <2>6, SendingsIn
      <3>2. uploaded[d] \subseteq uploaded'[d]
        BY <2>4
      <3> QED  BY <3>1, <3>2, SendingsNext
    <2>7. ASSUME NEW r \in Row, NEW h \in Word PROVE IsFiniteSet(Sendings(r, h)')
      <3>1. PICK S, T, m : S = Sendings(r, h) /\ T = Sendings(r, h)' /\ m = Hits(f, r, h)
        OBVIOUS
      <3>2. T \subseteq S \cup ({c} \X (1 .. m))
        <4> SUFFICES ASSUME NEW x \in T PROVE x \in S \cup ({c} \X (1 .. m))
          OBVIOUS
        <4>1. PICK d \in Client : \E e \in uploaded'[d] : \E j \in 1 .. Hits(e, r, h) : x = <<d, j>>
          BY <3>1, SendingsNext
        <4>2. PICK e \in uploaded'[d] : \E j \in 1 .. Hits(e, r, h) : x = <<d, j>>
          BY <4>1
        <4>3. CASE e \in uploaded[d]
          <5>1. x \in Sendings(r, h)
            BY <4>2, <4>3, SendingsIn
          <5> QED  BY <3>1, <5>1
        <4>4. CASE e \notin uploaded[d]
          <5>1. d = c /\ e = f
            BY <2>4, <4>2, <4>4
          <5> QED  BY <3>1, <4>2, <5>1
        <4> QED  BY <4>3, <4>4
      <3>3. m \in Nat
        <4>1. 0 <= Len(f)
          BY <2>3
        <4> QED  BY <2>3, <3>1, <4>1, CountedIs
      <3>4. IsFiniteSet({c}) /\ IsFiniteSet(1 .. m)
        <4>1. IsFiniteSet({c})
          BY FS_Singleton
        <4>2. 1 \in Int /\ m \in Int
          BY <3>3
        <4> QED  BY <4>1, <4>2, FS_Interval
      <3>5. PICK P : P = {c} \X (1 .. m)
        OBVIOUS
      <3>6. IsFiniteSet(P)
        BY <3>4, <3>5, FS_Product
      <3>7. IsFiniteSet(S)
        BY <3>1 DEF HistoryOK
      <3>8. PICK U : U = S \cup P
        OBVIOUS
      <3>9. IsFiniteSet(U)
        BY <3>6, <3>7, <3>8, FS_Union
      <3>10. T \in SUBSET U
        BY <3>2, <3>5, <3>8
      <3>11. IsFiniteSet(T)
        BY ONLY <3>9, <3>10, FS_Subset
      <3> QED  BY <3>1, <3>11
    <2> QED  BY <2>4, <2>5, <2>6, <2>7 DEF HistoryOK, Grows
  <1> QED  BY <1>1, <1>2

(* What was good stays good. *)
LEMMA GoodGrows ==
    ASSUME method' = method, HistoryOK, HistoryOK', Grows
    PROVE  /\ \A p \in Chunk : \A s : GoodSeed(p, s) => GoodSeed(p, s)'
           /\ GoodCts \subseteq GoodCts'
  <1>1. ASSUME NEW p \in Chunk, NEW s, GoodSeed(p, s) PROVE GoodSeed(p, s)'
    <2>1. CASE method # "TED"
      BY <1>1, <2>1 DEF GoodSeed, UsesKM
    <2>2. CASE method = "TED"
      <3>1. s \in Nat
        BY <1>1, <2>2 DEF GoodSeed
      <3>2. ASSUME NEW r \in Row PROVE s <= Cardinality(Sendings(r, ShortHash[p][r])') \div t
        <4>1. PICK h : h = ShortHash[p][r]
          OBVIOUS
        <4>2. h \in Word
          BY <4>1, HitIs
        <4>3. PICK S, T : S = Sendings(r, h) /\ T = Sendings(r, h)'
          OBVIOUS
        <4>4. IsFiniteSet(S) /\ IsFiniteSet(T) /\ S \in SUBSET T
          BY <4>2, <4>3 DEF HistoryOK, Grows
        <4>5. PICK a, b : a = Cardinality(S) /\ b = Cardinality(T)
          OBVIOUS
        <4>6. a \in Nat /\ b \in Nat /\ a <= b
          BY <4>4, <4>5, FS_Subset, FS_CardinalityType
        <4>7. s <= a \div t
          BY <1>1, <2>2, <4>1, <4>3, <4>5 DEF GoodSeed
        <4>8. a \div t \in Nat /\ b \div t \in Nat /\ a \div t <= b \div t
          BY <4>6, DivGrows
        <4>9. s <= b \div t
          BY <3>1, <4>7, <4>8
        <4> QED  BY <4>1, <4>3, <4>5, <4>9
      <3> QED  BY <2>2, <3>1, <3>2 DEF GoodSeed
    <2> QED  BY <2>1, <2>2
  <1>2. ASSUME NEW ct \in GoodCts PROVE ct \in GoodCts'
    <2>1. ct \in Ciphertext /\ ct.plain \in Chunk
      BY DEF GoodCts, Ciphertext
    <2>2. PICK s : GoodSeed(ct.plain, s) /\ ct.key = KeyOf(ct.plain, s)
      BY DEF GoodCts
    <2>3. GoodSeed(ct.plain, s)'
      BY <1>1, <2>1, <2>2
    <2>4. ct.key = KeyOf(ct.plain, s)'
      BY <2>2 DEF KeyOf
    <2> QED  BY <2>1, <2>3, <2>4 DEF GoodCts
  <1> QED  BY <1>1, <1>2

(* A step that is none of the key manager's leaves the tally of its client. *)
LEMMA AtSame ==
    ASSUME NEW p, NEW q, NEW keys, NEW new, NEW k, NEW f, NEW n, At(p, keys, k, f, n),
           q.op \in Uploading => p.op \in Uploading /\ q.file = p.file /\ new = keys
    PROVE  At(q, new, k, f, n)
  BY DEF At

LEMMA TallySame ==
    ASSUME NEW p, NEW q, NEW keys, NEW new, NEW k, NEW files, NEW r, NEW h, NEW g,
           TallyOf(p, keys, k, files, r, h, g),
           q.op \in Uploading => p.op \in Uploading /\ q.file = p.file /\ new = keys
    PROVE  TallyOf(q, new, k, files, r, h, g)
  <1>1. CASE k.pc = "none" /\ g = 0
    BY <1>1 DEF TallyOf
  <1>2. CASE k.pc # "none" /\ \E f \in files, n \in Nat : At(p, keys, k, f, n) /\ g = Counted(f, n, r, h)
    <2>1. PICK f \in files, n \in Nat : At(p, keys, k, f, n) /\ g = Counted(f, n, r, h)
      BY <1>2
    <2>2. At(q, new, k, f, n)
      BY <2>1, AtSame
    <2> QED  BY <1>2, <2>1, <2>2 DEF TallyOf
  <1> QED  BY <1>1, <1>2 DEF TallyOf

LEMMA TallyMoves ==
    ASSUME NEW p, NEW q, NEW keys, NEW new, NEW k, NEW m, NEW files, NEW r, NEW h, NEW g,
           TallyOf(p, keys, k, files, r, h, g), k.pc # "none", m.pc # "none",
           \A f \in files, n \in Nat : At(p, keys, k, f, n) => At(q, new, m, f, n)
    PROVE  TallyOf(q, new, m, files, r, h, g)
  BY DEF TallyOf

(* Outside the counting and the closing of its thread, the steps of a client *)
(* keep what its connection counted.                                         *)
LEMMA TallyStep ==
    ASSUME BaseInv, NEW c \in Client, Step(c), ~GenerateKeySeed(c), ~CloseKeyThread(c), HistoryOK,
           NEW r, NEW h, NEW g, Tally(c, r, h, g)
    PROVE  Tally(c, r, h, g)'
  <1>0. Shape /\ ClientOK(c)
    BY DEF BaseInv, AtRest
  <1>1. PICK p, q, keys, new, k, m, files, more :
             /\ p = client[c] /\ q = client'[c] /\ keys = localKeys[c] /\ new = localKeys'[c]
             /\ k = km[c] /\ m = km'[c] /\ files = uploaded[c] /\ more = uploaded'[c]
    OBVIOUS
  <1>2. TallyOf(p, keys, k, files, r, h, g)
    BY <1>1 DEF Tally
  <1>3. ProcessOK(p) /\ BatchOK(p, keys) /\ ThreadOK(p, k)
    BY <1>0, <1>1 DEF ClientOK
  <1> SUFFICES TallyOf(q, new, m, more, r, h, g)
    BY <1>1 DEF Tally
  <1>4. CASE ~KeyStep(c)
    <2>1. m = k /\ more = files
      BY <1>1, <1>4, KeysSame, UploadedSame DEF KeyStep
    <2>2. q.op \in Uploading => p.op \in Uploading /\ q.file = p.file /\ new = keys
      BY <1>1, <1>4, StillUploading DEF KeyStep
    <2> QED  BY <1>2, <2>1, <2>2, TallySame
  <1>5. CASE StartUpload(c)
    <2>1. PICK f : f = Head(plan[c])[1]
      OBVIOUS
    <2>2. /\ q = [Process EXCEPT !.op = "login", !.file = f] /\ new = <<>> /\ more = files \cup {f}
          /\ (UsesKM => k.pc = "none" /\ m = [k EXCEPT !.pc = "recv"]) /\ (~UsesKM => m = k)
          /\ plan[c] # <<>> /\ Head(plan[c]) # <<>>
      BY <1>0, <1>1, <1>5, <2>1 DEF StartUpload, Shape, HistoryOK
    <2>3. k.pc = "none" /\ DOMAIN k = {"pc", "in", "out"}
      BY <1>3, <2>2 DEF ThreadOK
    <2>4. g = 0
      BY <1>2, <2>3 DEF TallyOf
    <2>5. CASE ~UsesKM
      BY <2>2, <2>3, <2>4, <2>5 DEF TallyOf
    <2>6. CASE UsesKM
      <3>1. m.pc = "recv" /\ q.file = f /\ q.op = "login"
        BY <2>2, <2>3, <2>6 DEF Process
      <3>2. f \in Seq(Chunk)
        <4>1. PICK s : s = plan[c]
          OBVIOUS
        <4>2. s \in Seq(Seq(Seq(Chunk))) /\ s # <<>>
          BY <1>0, <2>2, <4>1 DEF ClientOK
        <4>3. PICK u : u = Head(s)
          OBVIOUS
        <4>4. u \in Seq(Seq(Chunk)) /\ u # <<>>
          BY <2>2, <4>1, <4>2, <4>3
        <4> QED  BY <2>1, <4>1, <4>3, <4>4
      <3>3. Len(f) \in Nat /\ 0 \in Nat /\ 0 <= Len(f) /\ Len(<<>>) = 0
        BY <3>2
      <3>4. At(q, new, m, f, 0)
        BY <2>2, <3>1, <3>2, <3>3 DEF At
      <3>5. g = Counted(f, 0, r, h)
        BY <2>4, CountedNone
      <3> QED  BY <2>2, <3>1, <3>3, <3>4, <3>5 DEF TallyOf
    <2> QED  BY <2>5, <2>6
  <1>6. CASE RequestKeys(c)
    <2>1. /\ q = p /\ new = keys /\ m = [pc |-> "loop", in |-> p.plain, out |-> <<>>] /\ k.pc = "recv"
          /\ p.op \in Batching
      BY <1>0, <1>1, <1>6 DEF RequestKeys, Shape, Batching
    <2>2. more = files
      <3>1. ~StartUpload(c)
        BY <1>6 DEF RequestKeys, StartUpload
      <3> QED  BY <1>1, <3>1, UploadedSame
    <2>3. /\ Piece(p.plain, p.file, Len(keys), p.pos) /\ Len(keys) + Len(p.plain) = p.pos
          /\ p.pos <= Len(p.file) /\ p.op \in Uploading /\ keys \in Seq(Key)
      BY <1>3, <2>1 DEF BatchOK, Batching, Uploading
    <2>4. m.pc = "loop" /\ m.in = p.plain /\ m.out = <<>> /\ Len(m.out) = 0 /\ Len(keys) \in Nat
      BY <2>1, <2>3
    <2>5. ASSUME NEW f \in files, NEW n \in Nat, At(p, keys, k, f, n) PROVE At(q, new, m, f, n)
      <3>1. f \in Seq(Chunk) /\ n <= Len(f) /\ f = p.file /\ n = Len(keys)
        BY <2>1, <2>3, <2>5 DEF At
      <3>2. n = n + Len(m.out) /\ n + Len(m.in) <= Len(f) /\ Piece(m.in, f, n, n + Len(m.in))
        BY <2>3, <2>4, <3>1
      <3> QED  BY <2>1, <2>4, <3>1, <3>2 DEF At
    <2> QED  BY <1>2, <2>1, <2>2, <2>4, <2>5, TallyMoves
  <1>7. CASE EncryptBatch(c)
    <2>1. p.op \in Batching /\ (UsesKM => k.pc = "sent" /\ m = [KMThread EXCEPT !.pc = "recv"])
          /\ (~UsesKM => m = k)
      BY <1>0, <1>1, <1>7, Zenon DEF EncryptBatch, Shape, Batching
    <2>2. more = files
      <3>1. ~StartUpload(c)
        BY <1>7, Zenon DEF EncryptBatch, StartUpload
      <3> QED  BY <1>1, <3>1, UploadedSame
    <2>3. PICK add, cts, ents, msgs : \E d1, last \in BOOLEAN :
              /\ Sealed(client[c].plain, add, cts, ents)
              /\ last = (client[c].op = "lastBatch") /\ (last => d1)
              /\ localKeys'[c] = localKeys[c] \o add
              /\ toServer'[c] = toServer[c] \o msgs
              /\ SendsTo(client[c], client'[c], msgs, client[c].keyList \o ents, d1, cts, TRUE, last)
      BY <1>0, <1>7, EncryptIs
    <2>4. add \in Seq(Key) /\ Len(add) = Len(p.plain) /\ new = keys \o add /\ q.file = p.file
      BY <1>1, <2>3 DEF Sealed, SendsTo
    <2>5. keys \in Seq(Key) /\ p.op \in Uploading
      BY <1>3, <2>1 DEF BatchOK, Batching, Uploading
    <2>6. Len(new) = Len(keys) + Len(p.plain)
      <3>1. Len(keys \o add) = Len(keys) + Len(add)
        BY ONLY <2>4, <2>5, ConcatIs
      <3> QED  BY <2>4, <3>1
    <2>7. CASE ~UsesKM
      <3>1. k.pc = "none"
        BY <1>3, <2>7 DEF ThreadOK
      <3> QED  BY <1>2, <2>1, <2>7, <3>1 DEF TallyOf
    <2>8. CASE UsesKM
      <3>1. k.pc = "sent" /\ m.pc = "recv" /\ k.in = p.plain /\ Len(k.out) = Len(k.in)
        BY <1>3, <2>1, <2>8 DEF ThreadOK, KMThread
      <3>2. ASSUME NEW f \in files, NEW n \in Nat, At(p, keys, k, f, n) PROVE At(q, new, m, f, n)
        <4>1. /\ f \in Seq(Chunk) /\ n <= Len(f) /\ f = p.file
              /\ \E i \in Nat : n = i + Len(k.out) /\ i = Len(keys)
          BY <2>5, <3>1, <3>2 DEF At
        <4>2. n = Len(new)
          BY <2>6, <3>1, <4>1
        <4> QED  BY <2>4, <3>1, <4>1, <4>2 DEF At
      <3>3. m.pc # "none" /\ k.pc # "none"
        BY <3>1
      <3> QED  BY <1>2, <2>2, <3>2, <3>3, TallyMoves
    <2> QED  BY <2>7, <2>8
  <1>8. CASE ReplyKeys(c)
    <2>1. /\ q = p /\ new = keys /\ k.pc = "reply"
          /\ \/ m = [k EXCEPT !.pc = "sent"]
             \/ m = [KMThread EXCEPT !.pc = "recv"] /\ p.op = "dead"
             \/ m = k
      BY <1>0, <1>1, <1>8 DEF ReplyKeys, Shape
    <2>2. more = files
      BY <1>1, <1>8 DEF ReplyKeys, history
    <2>3. CASE m = k
      BY <1>2, <2>1, <2>2, <2>3
    <2>4. CASE m = [k EXCEPT !.pc = "sent"]
      <3>1. m.pc = "sent" /\ m.in = k.in /\ m.out = k.out
        BY <1>3, <2>4 DEF ThreadOK
      <3>2. ASSUME NEW f \in files, NEW n \in Nat, At(p, keys, k, f, n) PROVE At(q, new, m, f, n)
        BY <2>1, <3>1, <3>2 DEF At
      <3>3. m.pc # "none" /\ k.pc # "none"
        BY <2>1, <3>1
      <3> QED  BY <1>2, <2>2, <3>2, <3>3, TallyMoves
    <2>5. CASE m = [KMThread EXCEPT !.pc = "recv"] /\ p.op = "dead"
      <3>1. m.pc = "recv" /\ p.op \notin Uploading
        BY <2>5 DEF KMThread, Uploading
      <3>2. ASSUME NEW f \in files, NEW n \in Nat, At(p, keys, k, f, n) PROVE At(q, new, m, f, n)
        BY <2>1, <3>1, <3>2 DEF At
      <3>3. m.pc # "none" /\ k.pc # "none"
        BY <2>1, <3>1
      <3> QED  BY <1>2, <2>2, <3>2, <3>3, TallyMoves
    <2> QED  BY <2>1, <2>3, <2>4, <2>5
  <1> QED  BY <1>4, <1>5, <1>6, <1>7, <1>8 DEF KeyStep

(* The tally of a client does not move with the steps of the others. *)
LEMMA OtherTally ==
    ASSUME HistoryOK, NEW c \in Client, Step(c), NEW d \in Client \ {c}, Frame(d),
           NEW r, NEW h, NEW g, Tally(d, r, h, g)
    PROVE  Tally(d, r, h, g)'
  <1>1. uploaded'[d] = uploaded[d]
    <2>1. CASE StartUpload(c)
      BY <2>1 DEF StartUpload, HistoryOK
    <2>2. CASE ~StartUpload(c)
      BY <2>2, UploadedSame
    <2> QED  BY <2>1, <2>2
  <1> QED  BY <1>1 DEF Tally, Frame

LEMMA MarksFinite ==
    ASSUME HistoryOK, NEW r \in Row, NEW h \in Word, NEW g \in [Client -> Nat],
           \A c \in Client : Tally(c, r, h, g[c])
    PROVE  IsFiniteSet(Marks(g)) /\ Cardinality(Marks(g)) \in Nat
           /\ Cardinality(Marks(g)) <= Cardinality(Sendings(r, h))
  <1>1. PICK S, T : S = Sendings(r, h) /\ T = Marks(g)
    OBVIOUS
  <1>2. IsFiniteSet(S)
    BY <1>1 DEF HistoryOK
  <1>3. T \in SUBSET S
    BY <1>1, MarksSent
  <1> QED  BY <1>1, <1>2, <1>3, FS_Subset, FS_CardinalityType

(* The steps other than those of the loop and the end of a thread. *)
LEMMA CounterSame ==
    ASSUME BaseInv, HistoryOK, NEW c \in Client, Step(c), ~GenerateKeySeed(c), ~CloseKeyThread(c),
           \A d \in Client \ {c} : Frame(d), NEW r \in Row, NEW h \in Word, Counter(r, h)
    PROVE  Counter(r, h)'
  <1>1. PICK g \in [Client -> Nat] : /\ \A d \in Client : Tally(d, r, h, g[d])
                                     /\ <<r, h>> \notin uncleared
                                           => sketchTable[r][h] <= Cardinality(Marks(g))
    BY DEF Counter
  <1>2. sketchTable' = sketchTable /\ uncleared' = uncleared
    BY KeysSame
  <1>3. ASSUME NEW d \in Client PROVE Tally(d, r, h, g[d])'
    <2>1. PICK n : n = g[d]
      OBVIOUS
    <2>2. Tally(d, r, h, n)
      BY <1>1, <2>1
    <2>3. Tally(d, r, h, n)'
      <3>1. CASE d = c  BY <2>2, <3>1, TallyStep
      <3>2. CASE d # c  BY <2>2, <3>2, OtherTally
      <3> QED  BY <3>1, <3>2
    <2> QED  BY <2>1, <2>3
  <1> QED  BY <1>1, <1>2, <1>3 DEF Counter

(* The end of a thread leaves every counter to be cleared. *)
LEMMA CounterClose ==
    ASSUME BaseInv, HistoryOK, NEW c \in Client, CloseKeyThread(c), method = "TED",
           \A d \in Client \ {c} : Frame(d), NEW r \in Row, NEW h \in Word, Counter(r, h)
    PROVE  Counter(r, h)'
  <1>1. PICK g \in [Client -> Nat] : \A d \in Client : Tally(d, r, h, g[d])
    BY DEF Counter
  <1>2. PICK z : z = [g EXCEPT ![c] = 0]
    OBVIOUS
  <1>3. z \in [Client -> Nat] /\ z[c] = 0 /\ \A d \in Client \ {c} : z[d] = g[d]
    BY <1>2
  <1>4. km'[c].pc = "none" /\ uncleared' = Counters
    BY DEF CloseKeyThread, BaseInv, Shape, KMThread
  <1>5. Step(c)
    BY DEF Step
  <1>6. ASSUME NEW d \in Client PROVE Tally(d, r, h, z[d])'
    <2>1. CASE d = c
      BY <1>3, <1>4, <2>1 DEF Tally, TallyOf
    <2>2. CASE d # c
      <3>1. PICK n : n = z[d]
        OBVIOUS
      <3>2. Tally(d, r, h, n)
        BY <1>1, <1>3, <2>2, <3>1
      <3>3. Tally(d, r, h, n)'
        BY <1>5, <2>2, <3>2, OtherTally
      <3> QED  BY <3>1, <3>3
    <2> QED  BY <2>1, <2>2
  <1>7. <<r, h>> \in uncleared'
    BY <1>4 DEF Counters, Word
  <1> QED  BY <1>3, <1>6, <1>7 DEF Counter

(* A cleared counter is zero, when no thread is in the loop. *)
LEMMA ClearIs ==
    ASSUME NEW k \in Counters, ClearCounter(k), ~raced', sketchTable \in [Row -> [Word -> Nat]]
    PROVE  /\ sketchTable' \in [Row -> [Word -> Nat]]
           /\ uncleared' = uncleared \ {k}
           /\ \A r \in Row, h \in Word :
                 sketchTable'[r][h] = IF <<r, h>> = k THEN 0 ELSE sketchTable[r][h]
  <1>1. ~raced /\ uncleared' = uncleared \ {k} /\ sketchTable' = [sketchTable EXCEPT ![k[1]][k[2]] = 0]
    BY DEF ClearCounter
  <1>2. PICK q \in Row, w \in Word : k = <<q, w>>
    BY DEF Counters, Word
  <1>3. k[1] = q /\ k[2] = w
    BY <1>2
  <1>4. sketchTable' = [sketchTable EXCEPT ![q][w] = 0]
    BY <1>1, <1>3
  <1>5. sketchTable' \in [Row -> [Word -> Nat]]
    BY <1>4
  <1>6. ASSUME NEW r \in Row, NEW h \in Word
        PROVE  sketchTable'[r][h] = IF <<r, h>> = k THEN 0 ELSE sketchTable[r][h]
    <2>1. <<r, h>> = k <=> r = q /\ h = w
      BY <1>2
    <2> QED  BY <1>4, <2>1
  <1> QED  BY <1>1, <1>5, <1>6

LEMMA CounterClear ==
    ASSUME HistoryOK, NEW k \in Counters, ClearCounter(k), ~raced', sketchTable \in [Row -> [Word -> Nat]],
           NEW r \in Row, NEW h \in Word, Counter(r, h)
    PROVE  Counter(r, h)'
  <1>1. PICK g \in [Client -> Nat] : /\ \A d \in Client : Tally(d, r, h, g[d])
                                     /\ <<r, h>> \notin uncleared
                                           => sketchTable[r][h] <= Cardinality(Marks(g))
    BY DEF Counter
  <1>2. UNCHANGED <<client, localKeys, km, uploaded>>
    BY DEF ClearCounter
  <1>3. \A d \in Client : Tally(d, r, h, g[d])'
    BY <1>1, <1>2 DEF Tally
  <1>4. Cardinality(Marks(g)) \in Nat
    BY <1>1, MarksFinite
  <1>5. <<r, h>> \notin uncleared' => sketchTable'[r][h] <= Cardinality(Marks(g))
    <2>1. CASE <<r, h>> = k
      <3>1. sketchTable'[r][h] = 0
        BY <2>1, ClearIs
      <3> QED  BY <1>4, <3>1
    <2>2. CASE <<r, h>> # k
      BY <1>1, <2>2, ClearIs
    <2> QED  BY <2>1, <2>2
  <1> QED  BY <1>1, <1>3, <1>5 DEF Counter

(* One chunk of the loop, when no other thread is in it or clears counters. *)
LEMMA GenerateIs ==
    ASSUME BaseInv, NEW c \in Client, GenerateKeySeed(c), ~raced'
    PROVE  \E x, seed :
              /\ x = km[c].in[Len(km[c].out) + 1] /\ x \in Chunk /\ km[c].pc = "loop"
              /\ km'[c].in = km[c].in /\ km'[c].out = Append(km[c].out, seed)
              /\ km'[c].pc \in {"loop", "reply"}
              /\ seed \in IF method = "TED" THEN Params(CurFreq(Count(sketchTable, x), x)) ELSE {0}
              /\ sketchTable' = IF method = "TED" THEN Count(sketchTable, x) ELSE sketchTable
              /\ uncleared = {}
  <1>1. PICK k, m, x : k = km[c] /\ m = km'[c] /\ x = k.in[Len(k.out) + 1]
    OBVIOUS
  <1>2. ~Racing(c) /\ uncleared = {} /\ x = NextChunk(c)
    BY <1>1 DEF GenerateKeySeed, NextChunk
  <1> DEFINE right == IF method = "TED" THEN Params(CurFreq(Count(sketchTable, x), x)) ELSE {0}
  <1>3. PICK seed \in right :
           km' = [km EXCEPT ![c].out = Append(@, seed),
                            ![c].pc = IF Len(km[c].out) + 1 = Len(km[c].in) THEN "reply" ELSE @]
    BY <1>1, <1>2 DEF GenerateKeySeed
  <1>4. sketchTable' = IF method = "TED" THEN Count(sketchTable, x) ELSE sketchTable
    BY <1>1, <1>2 DEF GenerateKeySeed
  <1>5. ThreadOK(client[c], k) /\ k.pc = "loop" /\ Shape
    BY <1>1 DEF BaseInv, AtRest, ClientOK, GenerateKeySeed
  <1>6. k.in \in Seq(Chunk) /\ k.out \in Seq(Seed) /\ Len(k.out) < Len(k.in) /\ DOMAIN k = {"pc", "in", "out"}
    BY <1>5 DEF ThreadOK
  <1>7. x \in Chunk
    BY <1>1, <1>6
  <1>8. m = [k EXCEPT !.out = Append(@, seed), !.pc = IF Len(k.out) + 1 = Len(k.in) THEN "reply" ELSE @]
    BY <1>1, <1>3, <1>5 DEF Shape
  <1>9. m.in = k.in /\ m.out = Append(k.out, seed) /\ m.pc \in {"loop", "reply"}
    BY <1>5, <1>6, <1>8
  <1> QED  BY <1>1, <1>2, <1>3, <1>4, <1>5, <1>7, <1>9

(* The counters after the chunk that GenerateKeySeed counts. *)
LEMMA CountIs ==
    ASSUME sketchTable \in [Row -> [Word -> Nat]], NEW x \in Chunk, NEW r \in Row, NEW h \in Word
    PROVE  /\ Count(sketchTable, x) \in [Row -> [Word -> Nat]]
           /\ Count(sketchTable, x)[r][h] = sketchTable[r][h] + IF ShortHash[x][r] = h THEN 1 ELSE 0
  <1>1. \A q \in Row : ShortHash[x][q] \in Word
    BY HitIs
  <1> QED  BY <1>1 DEF Count

(* A counted chunk raises its counters by one and its tally by one. *)
LEMMA CounterGenerate ==
    ASSUME BaseInv, HistoryOK, SketchOK, NEW c \in Client, GenerateKeySeed(c), ~raced', method = "TED",
           \A d \in Client \ {c} : Frame(d), NEW r \in Row, NEW h \in Word
    PROVE  Counter(r, h)' /\ sketchTable'[r][h] <= Cardinality(Sendings(r, h)')
  <1>1. PICK g \in [Client -> Nat] : /\ \A d \in Client : Tally(d, r, h, g[d])
                                     /\ sketchTable[r][h] <= Cardinality(Marks(g))
    <2>1. uncleared = {}
      BY GenerateIs
    <2> QED  BY <2>1 DEF Counter, SketchOK
  <1>2. PICK x, seed :
           /\ x = km[c].in[Len(km[c].out) + 1] /\ x \in Chunk /\ km[c].pc = "loop"
           /\ km'[c].in = km[c].in /\ km'[c].out = Append(km[c].out, seed)
           /\ km'[c].pc \in {"loop", "reply"}
           /\ sketchTable' = Count(sketchTable, x)
    <2>1. PICK x, seed :
              /\ x = km[c].in[Len(km[c].out) + 1] /\ x \in Chunk /\ km[c].pc = "loop"
              /\ km'[c].in = km[c].in /\ km'[c].out = Append(km[c].out, seed)
              /\ km'[c].pc \in {"loop", "reply"}
              /\ seed \in IF method = "TED" THEN Params(CurFreq(Count(sketchTable, x), x)) ELSE {0}
              /\ sketchTable' = IF method = "TED" THEN Count(sketchTable, x) ELSE sketchTable
      BY GenerateIs
    <2>2. sketchTable' = Count(sketchTable, x)
      BY <2>1
    <2> QED  BY <2>1, <2>2
  <1>3. PICK p, keys, k, m, files : /\ p = client[c] /\ keys = localKeys[c] /\ k = km[c] /\ m = km'[c]
                                    /\ files = uploaded[c]
    OBVIOUS
  <1>4. client' = client /\ localKeys' = localKeys /\ uploaded' = uploaded
    BY DEF GenerateKeySeed
  <1>5. PICK f \in files, n \in Nat : At(p, keys, k, f, n) /\ g[c] = Counted(f, n, r, h)
    <2>1. Tally(c, r, h, g[c]) /\ k.pc = "loop"
      BY <1>1, <1>2, <1>3
    <2> QED  BY <1>3, <2>1 DEF Tally, TallyOf
  <1>6. k.in \in Seq(Chunk) /\ k.out \in Seq(Seed) /\ Len(k.out) < Len(k.in) /\ k.pc = "loop"
    BY <1>2, <1>3 DEF BaseInv, AtRest, ClientOK, ThreadOK
  <1>7. f \in Seq(Chunk) /\ n <= Len(f) /\ (p.op \in Uploading => f = p.file)
    BY <1>5 DEF At
  <1>8. PICK i \in Nat : /\ n = i + Len(k.out) /\ i + Len(k.in) <= Len(f) /\ Piece(k.in, f, i, i + Len(k.in))
                         /\ p.op \in Uploading => i = Len(keys)
    BY <1>5, <1>6 DEF At
  <1>9. PICK a, b : a = Len(k.out) /\ b = Len(k.in)
    OBVIOUS
  <1>10. a \in Nat /\ b \in Nat /\ a < b /\ n = i + a /\ i + b <= Len(f) /\ Len(f) \in Nat
    BY <1>6, <1>7, <1>8, <1>9
  <1>11. f[n + 1] = x
    <2>1. \A j \in 1 .. b : k.in[j] = f[i + j]
      BY <1>8, <1>9 DEF Piece
    <2>2. a + 1 \in 1 .. b /\ i + (a + 1) = n + 1
      BY <1>10
    <2>3. k.in[a + 1] = f[n + 1]
      BY <2>1, <2>2
    <2> QED  BY <1>2, <1>3, <1>9, <2>3
  <1>12. m.in = k.in /\ m.pc \in {"loop", "reply"} /\ Len(m.out) = a + 1
    BY <1>2, <1>3, <1>6, <1>9
  <1>13. At(p, keys, m, f, n + 1)
    <2>1. n + 1 \in Nat /\ n + 1 <= Len(f) /\ n + 1 = i + Len(m.out)
      BY <1>10, <1>12
    <2>2. m.pc # "recv" /\ i + Len(m.in) <= Len(f) /\ Piece(m.in, f, i, i + Len(m.in))
      BY <1>8, <1>12
    <2> QED  BY <1>7, <1>8, <2>1, <2>2 DEF At
  <1>14. PICK y : y = Counted(f, n + 1, r, h)
    OBVIOUS
  <1>15. y = g[c] + (IF ShortHash[x][r] = h THEN 1 ELSE 0) /\ g[c] \in Nat
    BY <1>5, <1>11, <1>14, CountedNext
  <1>16. PICK z : z = [g EXCEPT ![c] = y]
    OBVIOUS
  <1>17. z \in [Client -> Nat] /\ z[c] = y /\ (\A d \in Client \ {c} : z[d] = g[d]) /\ y \in Nat
    BY <1>15, <1>16
  <1>18. ASSUME NEW d \in Client PROVE Tally(d, r, h, z[d])'
    <2>1. CASE d = c
      <3>1. TallyOf(p, keys, m, files, r, h, y)
        <4>1. m.pc # "none" /\ n + 1 \in Nat
          BY <1>12
        <4> QED  BY <1>13, <1>14, <4>1 DEF TallyOf
      <3> QED  BY <1>3, <1>4, <1>17, <2>1, <3>1 DEF Tally
    <2>2. CASE d # c
      <3>1. PICK j : j = z[d]
        OBVIOUS
      <3>2. Tally(d, r, h, j)
        BY <1>1, <1>17, <2>2, <3>1
      <3>3. Tally(d, r, h, j)'
        BY <2>2, <3>2, OtherTally DEF Step
      <3> QED  BY <3>1, <3>3
    <2> QED  BY <2>1, <2>2
  <1>19. PICK M, N : M = Marks(g) /\ N = Marks(z)
    OBVIOUS
  <1>20. IsFiniteSet(M) /\ Cardinality(M) \in Nat
    BY <1>1, <1>19, MarksFinite
  <1>21. sketchTable[r][h] <= Cardinality(M) /\ sketchTable[r][h] \in Nat
         /\ sketchTable'[r][h] = sketchTable[r][h] + IF ShortHash[x][r] = h THEN 1 ELSE 0
    BY <1>1, <1>2, <1>19, CountIs DEF SketchOK
  <1>22. sketchTable'[r][h] <= Cardinality(N)
    <2>1. CASE ShortHash[x][r] = h
      <3>1. y = g[c] + 1
        BY <1>15, <2>1
      <3>2. PICK e : e = <<c, y>>
        OBVIOUS
      <3>3. e \notin M
        <4>1. \A d, j : <<d, j>> = e => d = c /\ j = y
          BY <3>2
        <4>2. y \notin 1 .. g[c]
          BY <1>15, <3>1
        <4> QED  BY <1>19, <4>1, <4>2, MarksIn
      <3>4. N = M \cup {e}
        <4>1. ASSUME NEW v \in N PROVE v \in M \cup {e}
          <5>1. PICK d \in Client : \E j \in 1 .. z[d] : v = <<d, j>>
            BY <1>19, MarksIn
          <5>2. CASE d # c
            BY <1>17, <1>19, <5>1, <5>2, MarksIn
          <5>3. CASE d = c
            <6>1. PICK j \in 1 .. y : v = <<c, j>>
              BY <1>17, <5>1, <5>3
            <6>2. CASE j = y  BY <3>2, <6>1, <6>2
            <6>3. CASE j # y
              <7>1. j \in 1 .. g[c]
                BY <1>15, <3>1, <6>3
              <7> QED  BY <1>19, <6>1, <7>1, MarksIn
            <6> QED  BY <6>2, <6>3
          <5> QED  BY <5>2, <5>3
        <4>2. ASSUME NEW v \in M \cup {e} PROVE v \in N
          <5>1. CASE v = e
            <6>1. y \in 1 .. z[c]
              BY <1>15, <1>17, <3>1
            <6> QED  BY <1>19, <3>2, <5>1, <6>1, MarksIn
          <5>2. CASE v \in M
            <6>1. PICK d \in Client : \E j \in 1 .. g[d] : v = <<d, j>>
              BY <1>19, <5>2, MarksIn
            <6>2. PICK j \in 1 .. g[d] : v = <<d, j>>
              BY <6>1
            <6>3. j \in 1 .. z[d]
              BY <1>15, <1>17, <3>1
            <6> QED  BY <1>19, <6>2, <6>3, MarksIn
          <5> QED  BY <5>1, <5>2
        <4> QED  BY <4>1, <4>2
      <3>5. Cardinality(N) = Cardinality(M) + 1
        BY <1>20, <3>3, <3>4, FS_AddElement
      <3> QED  BY <1>20, <1>21, <2>1, <3>5
    <2>2. CASE ShortHash[x][r] # h
      <3>1. z = g
        BY <1>15, <1>16, <2>2
      <3> QED  BY <1>19, <1>20, <1>21, <2>2, <3>1
    <2> QED  BY <2>1, <2>2
  <1>23. Counter(r, h)'
    BY <1>17, <1>18, <1>19, <1>22 DEF Counter
  <1>24. Cardinality(N) <= Cardinality(Sendings(r, h)') /\ Cardinality(N) \in Nat
         /\ Cardinality(Sendings(r, h)') \in Nat
    <2>1. PICK S : S = Sendings(r, h)'
      OBVIOUS
    <2>2. IsFiniteSet(S)
      BY <1>4, <2>1 DEF HistoryOK, Sendings
    <2>3. N \in SUBSET S
      <3> SUFFICES ASSUME NEW v \in N PROVE v \in S
        OBVIOUS
      <3>1. PICK d \in Client : \E j \in 1 .. z[d] : v = <<d, j>>
        BY <1>19, MarksIn
      <3>2. PICK j \in 1 .. z[d] : v = <<d, j>>
        BY <3>1
      <3>3. CASE d # c
        <4>1. v \in M
          BY <1>17, <1>19, <3>2, <3>3, MarksIn
        <4>2. v \in Sendings(r, h)
          BY <1>1, <1>19, <4>1, MarksSent
        <4> QED  BY <1>4, <2>1, <4>2 DEF Sendings
      <3>4. CASE d = c
        <4>1. y <= Hits(f, r, h) /\ Hits(f, r, h) \in Nat
          <5>1. n + 1 \in Nat /\ n + 1 <= Len(f)
            BY <1>10
          <5> QED  BY <1>7, <1>14, <5>1, CountedIs
        <4>2. j \in 1 .. Hits(f, r, h) /\ f \in uploaded'[c]
          BY <1>3, <1>4, <1>17, <3>4, <4>1
        <4> QED  BY <2>1, <3>2, <3>4, <4>2, SendingsNext
      <3> QED  BY <3>3, <3>4
    <2> QED  BY <2>1, <2>2, <2>3, FS_Subset, FS_CardinalityType
  <1>25. sketchTable'[r][h] \in Nat
    BY <1>21
  <1> QED  BY <1>22, <1>23, <1>24, <1>25

(* The seeds that the key manager answers keep the bound. *)
LEMMA FreqIs ==
    ASSUME sketchTable' \in [Row -> [Word -> Nat]], NEW x \in Chunk, NEW r \in Row
    PROVE  /\ CurFreq(sketchTable', x) \in Nat
           /\ CurFreq(sketchTable', x) <= sketchTable'[r][ShortHash[x][r]]
  <1>1. PICK tab : tab = sketchTable'
    OBVIOUS
  <1> DEFINE S == {tab[q][ShortHash[x][q]] : q \in Row}
  <1>2. S \in SUBSET Nat
    BY <1>1, HitIs
  <1>3. tab[r][ShortHash[x][r]] \in S
    OBVIOUS
  <1>4. CurFreq(sketchTable', x) = Min(S)
    BY <1>1 DEF CurFreq
  <1> HIDE DEF S
  <1>5. Min(S) \in S /\ \A y \in S : Min(S) <= y
    BY <1>2, <1>3, LeastIs
  <1> QED  BY <1>1, <1>2, <1>3, <1>4, <1>5

(* A seed drawn for an estimate that the sendings bound keeps the bound. *)
LEMMA SeedBound ==
    ASSUME NEW a, NEW b \in Nat, NEW s \in Params(a), a \in Nat, a <= b
    PROVE  s \in Nat /\ s <= b \div t
  <1>1. a \div t \in Nat /\ b \div t \in Nat /\ a \div t <= b \div t
    BY DivGrows
  <1>2. s \in 0 .. a \div t
    BY DEF Params
  <1> QED  BY <1>1, <1>2

LEMMA SketchTyped ==
    ASSUME BaseInv, HistoryOK, SketchOK, NEW c \in Client, Step(c), ~raced'
    PROVE  sketchTable' \in [Row -> [Word -> Nat]]
  <1>1. CASE ~GenerateKeySeed(c) /\ ~CloseKeyThread(c)
    BY <1>1, KeysSame DEF SketchOK
  <1>2. CASE CloseKeyThread(c)
    BY <1>2 DEF CloseKeyThread, SketchOK
  <1>3. CASE GenerateKeySeed(c)
    <2>1. PICK x \in Chunk : sketchTable' = IF method = "TED" THEN Count(sketchTable, x) ELSE sketchTable
      BY <1>3, GenerateIs
    <2>2. \A q \in Row : ShortHash[x][q] \in Word
      BY HitIs
    <2>3. Count(sketchTable, x) \in [Row -> [Word -> Nat]]
      BY <2>2 DEF Count, SketchOK
    <2> QED  BY <2>1, <2>3 DEF SketchOK
  <1> QED  BY <1>1, <1>2, <1>3

LEMMA SketchStep ==
    ASSUME BaseInv, HistoryOK, SketchOK, NEW c \in Client, Step(c), ~raced', \A d \in Client \ {c} : Frame(d)
    PROVE  SketchOK'
  <1>1. sketchTable' \in [Row -> [Word -> Nat]]
    BY SketchTyped
  <1>2. method' = method
    BY StaysUp
  <1>3. ASSUME method = "TED", NEW r \in Row, NEW h \in Word PROVE Counter(r, h)'
    <2>1. Counter(r, h)
      BY <1>3 DEF SketchOK
    <2>2. CASE ~GenerateKeySeed(c) /\ ~CloseKeyThread(c)
      BY <2>1, <2>2, CounterSame
    <2>3. CASE CloseKeyThread(c)
      BY <1>3, <2>1, <2>3, CounterClose
    <2>4. CASE GenerateKeySeed(c)
      BY <1>3, <2>4, CounterGenerate
    <2> QED  BY <2>2, <2>3, <2>4
  <1> QED  BY <1>1, <1>2, <1>3 DEF SketchOK

(* The seed that GenerateKeySeed derives keeps the bound. *)
LEMMA SeedGenerate ==
    ASSUME BaseInv, HistoryOK, SketchOK, NEW c \in Client, GenerateKeySeed(c), ~raced',
           \A d \in Client \ {c} : Frame(d), NEW x \in Chunk, NEW seed,
           seed \in IF method = "TED" THEN Params(CurFreq(Count(sketchTable, x), x)) ELSE {0},
           sketchTable' = IF method = "TED" THEN Count(sketchTable, x) ELSE sketchTable
    PROVE  GoodSeed(x, seed)'
  <1>0. method' = method /\ Step(c)
    BY DEF GenerateKeySeed, Step
  <1>1. CASE method # "TED"
    BY <1>0, <1>1 DEF GoodSeed
  <1>2. CASE method = "TED"
    <2>1. PICK a : a = CurFreq(sketchTable', x)
      OBVIOUS
    <2>2. seed \in Params(a)
      BY <1>2, <2>1
    <2>3. seed \in Nat
      BY <2>2 DEF Params
    <2>4. ASSUME NEW r \in Row PROVE seed <= Cardinality(Sendings(r, ShortHash[x][r])') \div t
      <3>1. PICK h : h = ShortHash[x][r]
        OBVIOUS
      <3>2. h \in Word
        BY <3>1, HitIs
      <3>3. sketchTable' \in [Row -> [Word -> Nat]]
        BY <1>0, SketchTyped
      <3>4. PICK b : b = Cardinality(Sendings(r, h)')
        OBVIOUS
      <3>5. sketchTable'[r][h] <= b /\ sketchTable'[r][h] \in Nat
        BY <1>2, <3>2, <3>3, <3>4, CounterGenerate
      <3>6. b \in Nat
        <4>1. IsFiniteSet(Sendings(r, h)')
          BY <3>2 DEF HistoryOK, GenerateKeySeed, Sendings
        <4> QED  BY <3>4, <4>1, FS_CardinalityType
      <3>7. a \in Nat /\ a <= sketchTable'[r][h]
        BY <2>1, <3>1, <3>3, FreqIs
      <3>8. a <= b
        BY <3>5, <3>6, <3>7
      <3>9. seed <= b \div t
        BY <2>2, <3>6, <3>7, <3>8, SeedBound
      <3> QED  BY <3>1, <3>4, <3>9
    <2> QED  BY <1>0, <1>2, <2>3, <2>4 DEF GoodSeed
  <1> QED  BY <1>1, <1>2

LEMMA SeedsStep ==
    ASSUME BaseInv, HistoryOK, SketchOK, NEW c \in Client, Step(c), ~raced', SeedsOK(c),
           \A d \in Client \ {c} : Frame(d), \A p \in Chunk : \A s : GoodSeed(p, s) => GoodSeed(p, s)'
    PROVE  SeedsOK(c)'
  <1>0. Shape /\ ClientOK(c)
    BY DEF BaseInv, AtRest
  <1>1. PICK k, m : k = km[c] /\ m = km'[c]
    OBVIOUS
  <1>2. ThreadOK(client[c], k)
    BY <1>0, <1>1 DEF ClientOK
  <1>3. k.in \in Seq(Chunk) /\ k.out \in Seq(Seed) /\ DOMAIN k = {"pc", "in", "out"}
        /\ (k.pc \in {"loop", "reply", "sent"} => Len(k.out) <= Len(k.in))
    BY <1>2 DEF ThreadOK
  <1>4. ASSUME k.pc \in {"loop", "reply", "sent"}, NEW n \in 1 .. Len(k.out)
        PROVE  GoodSeed(k.in[n], k.out[n])'
    <2>1. GoodSeed(k.in[n], k.out[n])
      BY <1>1, <1>4 DEF SeedsOK
    <2>2. k.in[n] \in Chunk
      BY <1>3, <1>4
    <2> QED  BY <2>1, <2>2
  <1> SUFFICES ASSUME m.pc \in {"loop", "reply", "sent"}, NEW n \in 1 .. Len(m.out)
               PROVE  GoodSeed(m.in[n], m.out[n])'
    BY <1>1 DEF SeedsOK
  <1>5. CASE ~KeyStep(c)
    <2>1. m = k
      BY <1>1, <1>5, KeysSame DEF KeyStep
    <2> QED  BY <1>4, <2>1
  <1>6. CASE StartUpload(c) \/ CloseKeyThread(c) \/ EncryptBatch(c)
    <2>1. m = k \/ m = [k EXCEPT !.pc = "recv"] \/ m = KMThread \/ m = [KMThread EXCEPT !.pc = "recv"]
      BY <1>0, <1>1, <1>6, Zenon DEF StartUpload, CloseKeyThread, EncryptBatch, Shape
    <2>2. m = k \/ m.pc \in {"recv", "none"}
      BY <1>3, <2>1 DEF KMThread
    <2> QED  BY <1>4, <2>2
  <1>7. CASE RequestKeys(c)
    <2>1. m.out = <<>>
      BY <1>0, <1>1, <1>7 DEF RequestKeys, Shape
    <2> QED  BY <2>1
  <1>8. CASE ReplyKeys(c)
    <2>1. k.pc = "reply" /\ (m = k \/ m = [k EXCEPT !.pc = "sent"] \/ m = [KMThread EXCEPT !.pc = "recv"])
      BY <1>0, <1>1, <1>8 DEF ReplyKeys, Shape
    <2>2. m.in = k.in /\ m.out = k.out
      BY <1>3, <2>1 DEF KMThread
    <2> QED  BY <1>4, <2>1, <2>2
  <1>9. CASE GenerateKeySeed(c)
    <2>1. PICK x, seed :
              /\ x = km[c].in[Len(km[c].out) + 1] /\ x \in Chunk /\ km[c].pc = "loop"
              /\ km'[c].in = km[c].in /\ km'[c].out = Append(km[c].out, seed)
              /\ km'[c].pc \in {"loop", "reply"}
              /\ seed \in IF method = "TED" THEN Params(CurFreq(Count(sketchTable, x), x)) ELSE {0}
              /\ sketchTable' = IF method = "TED" THEN Count(sketchTable, x) ELSE sketchTable
      BY <1>9, GenerateIs
    <2>2. GoodSeed(x, seed)'
      BY <1>9, <2>1, SeedGenerate
    <2>3. PICK a, b : a = k.out /\ b = m.out
      OBVIOUS
    <2>4. a \in Seq(Seed) /\ b = Append(a, seed) /\ x = k.in[Len(a) + 1] /\ m.in = k.in /\ n \in 1 .. Len(b)
          /\ k.pc = "loop"
      BY <1>1, <1>3, <2>1, <2>3
    <2>5. Len(b) = Len(a) + 1 /\ Len(a) \in Nat /\ b[Len(a) + 1] = seed /\ \A j \in 1 .. Len(a) : b[j] = a[j]
      BY ONLY <2>4
    <2>6. CASE n = Len(a) + 1
      BY <2>2, <2>3, <2>4, <2>5, <2>6
    <2>7. CASE n # Len(a) + 1
      <3>1. n \in 1 .. Len(a)
        BY <2>4, <2>5, <2>7
      <3>2. GoodSeed(k.in[n], k.out[n])'
        BY <1>4, <2>3, <2>4, <3>1
      <3>3. m.in[n] = k.in[n] /\ m.out[n] = k.out[n]
        BY <2>3, <2>4, <2>5, <3>1
      <3> QED  BY <3>2, <3>3
    <2> QED  BY <2>6, <2>7
  <1> QED  BY <1>5, <1>6, <1>7, <1>8, <1>9 DEF KeyStep

LEMMA OtherSeeds ==
    ASSUME BaseInv, NEW d \in Client, Frame(d), SeedsOK(d),
           \A p \in Chunk : \A s : GoodSeed(p, s) => GoodSeed(p, s)'
    PROVE  SeedsOK(d)'
  <1>1. PICK k : k = km[d]
    OBVIOUS
  <1>2. km'[d] = k
    BY <1>1 DEF Frame
  <1>3. k.in \in Seq(Chunk) /\ k.out \in Seq(Seed)
        /\ (k.pc \in {"loop", "reply", "sent"} => Len(k.out) <= Len(k.in))
    BY <1>1 DEF BaseInv, AtRest, ClientOK, ThreadOK
  <1>4. ASSUME k.pc \in {"loop", "reply", "sent"}, NEW n \in 1 .. Len(k.out)
        PROVE  GoodSeed(k.in[n], k.out[n])'
    <2>1. GoodSeed(k.in[n], k.out[n])
      BY <1>1, <1>4 DEF SeedsOK
    <2>2. k.in[n] \in Chunk
      BY <1>3, <1>4
    <2> QED  BY <2>1, <2>2
  <1> QED  BY <1>2, <1>4 DEF SeedsOK

(* The ciphertexts on their way to the index. *)
LEMMA SeqIn ==
    ASSUME NEW A, NEW B, NEW s \in Seq(A), \A n \in 1 .. Len(s) : s[n] \in B
    PROVE  s \in Seq(B)
  OBVIOUS

LEMMA OverGrows ==
    ASSUME NEW G, NEW H, G \subseteq H
    PROVE  (\A s \in Seq(G) : s \in Seq(H)) /\ \A s \in Seq(MsgOver(G)) : s \in Seq(MsgOver(H))
  <1>1. ASSUME NEW s \in Seq(G) PROVE s \in Seq(H)
    <2>1. \A n \in 1 .. Len(s) : s[n] \in H
      OBVIOUS
    <2> QED  BY ONLY <2>1, s \in Seq(G), SeqIn
  <1>2. MsgOver(G) \subseteq MsgOver(H)
    BY <1>1 DEF MsgOver
  <1>3. ASSUME NEW s \in Seq(MsgOver(G)) PROVE s \in Seq(MsgOver(H))
    <2>1. PICK A, B : A = MsgOver(G) /\ B = MsgOver(H)
      OBVIOUS
    <2>2. s \in Seq(A) /\ A \subseteq B
      BY <1>2, <2>1
    <2>3. \A n \in 1 .. Len(s) : s[n] \in B
      BY ONLY <2>2
    <2>4. s \in Seq(B)
      BY ONLY <2>2, <2>3, SeqIn
    <2> QED  BY <2>1, <2>4
  <1> QED  BY <1>1, <1>3

LEMMA LoginOver ==
    ASSUME NEW G, NEW ty \in Logins
    PROVE  <<Message(ty, <<>>)>> \in Seq(MsgOver(G))
  <1>1. PICK x : x = Message(ty, <<>>)
    OBVIOUS
  <1>2. x \in MsgOver(G)
    BY <1>1 DEF Message, Msg, MsgOver, Logins
  <1> QED  BY <1>1, <1>2

LEMMA SendsOver ==
    ASSUME NEW p, NEW q, NEW msgs, NEW list, NEW d1, NEW cts, NEW d2, NEW last, NEW G,
           SendsTo(p, q, msgs, list, d1, cts, d2, last), cts \in Seq(G)
    PROVE  msgs \in Seq(MsgOver(G))
  <1> DEFINE r == RecipeMsg(list, d1)
             k == ChunkMsg(cts, d2)
             e == EndMsg(p.pos, last)
             S == {Message("CLIENT_UPLOAD_RECIPE", list), Message("CLIENT_UPLOAD_CHUNK", cts),
                   Message("CLIENT_UPLOAD_RECIPE_END", <<p.pos>>)}
  <1>1. r \in Seq(S) /\ k \in Seq(S) /\ e \in Seq(S)
    <2>1. \A x \in S : <<x>> \in Seq(S)
      OBVIOUS
    <2>2. <<>> \in Seq(S)
      OBVIOUS
    <2>3. /\ r = <<>> \/ r = <<Message("CLIENT_UPLOAD_RECIPE", list)>>
          /\ k = <<>> \/ k = <<Message("CLIENT_UPLOAD_CHUNK", cts)>>
          /\ e = <<>> \/ e = <<Message("CLIENT_UPLOAD_RECIPE_END", <<p.pos>>)>>
      BY DEF RecipeMsg, ChunkMsg, EndMsg
    <2>4. /\ Message("CLIENT_UPLOAD_RECIPE", list) \in S /\ Message("CLIENT_UPLOAD_CHUNK", cts) \in S
          /\ Message("CLIENT_UPLOAD_RECIPE_END", <<p.pos>>) \in S
      OBVIOUS
    <2> HIDE DEF r, k, e, S
    <2> QED  BY <2>1, <2>2, <2>3, <2>4
  <1>2. \A x \in S : x.type = "CLIENT_UPLOAD_CHUNK" => x.items \in Seq(G)
    BY DEF Message
  <1>3. msgs = (r \o k) \o e /\ msgs \in Seq(Msg)
    BY DEF SendsTo
  <1> HIDE DEF r, k, e, S
  <1>4. msgs \in Seq(S)
    BY <1>1, <1>3
  <1>5. ASSUME NEW n \in 1 .. Len(msgs) PROVE msgs[n] \in MsgOver(G)
    <2>1. msgs[n] \in S
      BY <1>4
    <2>2. msgs[n] \in Msg
      BY <1>3
    <2> QED  BY <1>2, <2>1, <2>2 DEF MsgOver
  <1>6. msgs \in Seq(Msg)
    BY <1>3
  <1> QED  BY ONLY <1>5, <1>6, SeqIn

(* The keys of a batch come from the seeds of the reply to it. *)
LEMMA KeysDrawn ==
    ASSUME Shape, NEW c \in Client, ClientOK(c), EncryptBatch(c), NEW add \in Seq(Key),
           Len(add) = Len(client[c].plain), localKeys'[c] = localKeys[c] \o add
    PROVE  \A n \in 1 .. Len(add) :
              add[n] = KeyOf(client[c].plain[n], IF UsesKM THEN km[c].out[n] ELSE NoFile)
  <1>1. PICK p, old : p = client[c].plain /\ old = localKeys[c]
    OBVIOUS
  <1> DEFINE seed(n) == IF UsesKM THEN km[c].out[n] ELSE NoFile
             keys == [n \in DOMAIN p |-> KeyOf(p[n], seed(n))]
  <1>2. p \in Seq(Chunk) /\ old \in Seq(Key) /\ client[c].op \in Batching /\ ThreadOK(client[c], km[c])
        /\ (UsesKM => km[c].pc = "sent")
    <2>1. client[c].op \in Batching /\ (UsesKM => km[c].pc = "sent")
      BY Zenon DEF EncryptBatch, Batching
    <2> QED  BY <1>1, <2>1, Zenon DEF ClientOK, ProcessOK, BatchOK, Batching, Uploading
  <1>3. PICK N : N = Len(p)
    OBVIOUS
  <1>4. N \in Nat /\ DOMAIN p = 1 .. N /\ \A n \in 1 .. N : p[n] \in Chunk
    BY <1>2, <1>3
  <1>5. ASSUME NEW n \in 1 .. N PROVE seed(n) \in Seed
    <2>1. CASE UsesKM
      <3>1. PICK out : out = km[c].out
        OBVIOUS
      <3>2. out \in Seq(Seed) /\ Len(out) = N
        BY <1>1, <1>2, <1>3, <2>1, <3>1 DEF ThreadOK
      <3>3. out[n] \in Seed
        BY <3>2
      <3> QED  BY <2>1, <3>1, <3>3
    <2>2. CASE ~UsesKM
      BY <2>2 DEF Seed
    <2> QED  BY <2>1, <2>2
  <1>6. \A n \in 1 .. N : keys[n] = KeyOf(p[n], seed(n))
    BY <1>4
  <1>7. DOMAIN keys = 1 .. N /\ \A n \in 1 .. N : KeyOf(p[n], seed(n)) \in Key
    BY <1>4, <1>5, KeyIs, Zenon
  <1>8. localKeys'[c] = old \o keys
    BY <1>1, Zenon DEF EncryptBatch, Shape
  <1>9. PICK k : k = keys
    OBVIOUS
  <1>10. \A n \in 1 .. N : k[n] = KeyOf(p[n], seed(n))
    BY <1>6, <1>9
  <1>11. k \in Seq(Key) /\ Len(k) = N
    <2>1. keys = [n \in 1 .. N |-> KeyOf(p[n], seed(n))]
      BY <1>4
    <2> HIDE DEF seed, keys
    <2>2. k \in [1 .. N -> Key]
      BY <1>7, <1>9, <2>1
    <2> QED  BY <1>4, <2>2
  <1>12. old \o add = old \o k
    BY <1>1, <1>8, <1>9
  <1> HIDE DEF seed, keys
  <1>13. ASSUME NEW n \in 1 .. Len(add) PROVE add[n] = k[n]
    <2>1. Len(add) = N /\ Len(old) \in Nat
      BY <1>1, <1>2, <1>3
    <2>2. (old \o add)[Len(old) + n] = add[n]
      BY ONLY <1>2, add \in Seq(Key), n \in 1 .. Len(add), ConcatIs
    <2>3. n \in 1 .. Len(k)
      BY <1>11, <2>1
    <2>4. (old \o k)[Len(old) + n] = k[n]
      BY ONLY <1>2, <1>11, <2>3, ConcatIs
    <2> QED  BY <1>12, <2>2, <2>4
  <1>14. ASSUME NEW n \in 1 .. Len(add) PROVE add[n] = KeyOf(p[n], seed(n))
    <2>1. n \in 1 .. N
      BY <1>1, <1>3
    <2> QED  BY <1>10, <1>13, <2>1
  <1> QED  BY <1>1, <1>14 DEF seed

(* So its ciphertexts keep the bound. *)
LEMMA EncryptGood ==
    ASSUME BaseInv, NEW c \in Client, EncryptBatch(c), SeedsOK(c)
    PROVE  \E msgs \in Seq(MsgOver(GoodCts)) : toServer'[c] = toServer[c] \o msgs
  <1>0. Shape /\ ClientOK(c)
    BY DEF BaseInv, AtRest
  <1>1. PICK add, cts, ents, msgs : \E d1, last \in BOOLEAN :
              /\ Sealed(client[c].plain, add, cts, ents)
              /\ last = (client[c].op = "lastBatch") /\ (last => d1)
              /\ localKeys'[c] = localKeys[c] \o add
              /\ toServer'[c] = toServer[c] \o msgs
              /\ SendsTo(client[c], client'[c], msgs, client[c].keyList \o ents, d1, cts, TRUE, last)
    BY <1>0, EncryptIs
  <1>2. PICK d1, last : /\ localKeys'[c] = localKeys[c] \o add /\ toServer'[c] = toServer[c] \o msgs
                        /\ Sealed(client[c].plain, add, cts, ents)
                        /\ SendsTo(client[c], client'[c], msgs, client[c].keyList \o ents, d1, cts, TRUE, last)
    BY <1>1
  <1>3. PICK p, k : p = client[c].plain /\ k = km[c]
    OBVIOUS
  <1>4. /\ add \in Seq(Key) /\ cts \in Seq(Ciphertext) /\ Len(add) = Len(p) /\ Len(cts) = Len(p)
        /\ \A n \in 1 .. Len(p) : cts[n] = Encrypt(p[n], add[n])
    BY <1>2, <1>3 DEF Sealed
  <1>5. \A n \in 1 .. Len(add) : add[n] = KeyOf(p[n], IF UsesKM THEN k.out[n] ELSE NoFile)
    BY <1>0, <1>2, <1>3, <1>4, KeysDrawn
  <1>6. UsesKM => k.pc = "sent" /\ k.in = p /\ Len(k.out) = Len(p)
    <2>1. ThreadOK(client[c], k)
      BY <1>0, <1>3 DEF ClientOK
    <2>2. client[c].op \in Batching /\ (UsesKM => k.pc = "sent")
      BY <1>3, Zenon DEF EncryptBatch, Batching
    <2> QED  BY <1>3, <2>1, <2>2 DEF ThreadOK
  <1>7. ASSUME NEW n \in 1 .. Len(cts) PROVE cts[n] \in GoodCts
    <2>1. PICK s : s = IF UsesKM THEN k.out[n] ELSE NoFile
      OBVIOUS
    <2>2. n \in 1 .. Len(p) /\ n \in 1 .. Len(add)
      BY <1>4
    <2>3. cts[n] \in Ciphertext
      BY <1>4
    <2>4. cts[n].plain = p[n] /\ cts[n].key = KeyOf(p[n], s)
      <3>1. cts[n] = Encrypt(p[n], add[n])
        BY <1>4, <2>2
      <3>2. add[n] = KeyOf(p[n], s)
        BY <1>5, <2>1, <2>2
      <3>3. cts[n] = Encrypt(p[n], KeyOf(p[n], s))
        BY <3>1, <3>2
      <3> QED  BY <3>3 DEF Encrypt
    <2>5. GoodSeed(p[n], s)
      <3>1. CASE UsesKM
        <4>1. GoodSeed(k.in[n], k.out[n])
          BY <1>3, <1>6, <2>2, <3>1 DEF SeedsOK
        <4> QED  BY <1>6, <2>1, <3>1, <4>1
      <3>2. CASE ~UsesKM
        BY <3>2 DEF GoodSeed, UsesKM
      <3> QED  BY <3>1, <3>2
    <2> QED  BY <2>3, <2>4, <2>5 DEF GoodCts
  <1>8. cts \in Seq(GoodCts)
    <2>1. cts \in Seq(Ciphertext)
      BY <1>4
    <2> QED  BY ONLY <1>7, <2>1, SeqIn
  <1>9. msgs \in Seq(MsgOver(GoodCts))
    BY <1>2, <1>8, SendsOver
  <1> QED  BY <1>2, <1>9

(* The messages under way carry ciphertexts that keep the bound, *)
LEMMA SendsMsgs ==
    ASSUME BaseInv, NEW c \in Client, Step(c), SeedsOK(c), toServer[c] \in Seq(MsgOver(GoodCts))
    PROVE  toServer'[c] \in Seq(MsgOver(GoodCts))
  <1>0. Shape /\ ClientOK(c)
    BY DEF BaseInv, AtRest
  <1>1. PICK M : M = MsgOver(GoodCts)
    OBVIOUS
  <1>2. PICK s : s = toServer[c]
    OBVIOUS
  <1>3. s \in Seq(M)
    BY <1>1, <1>2
  <1>4. CASE StartUpload(c) \/ StartRestore(c)
    <2>1. \E ty \in Logins : toServer'[c] = <<Message(ty, <<>>)>>
      BY <1>0, <1>4 DEF StartUpload, StartRestore, Shape, Logins
    <2> QED  BY <2>1, LoginOver
  <1>5. CASE Abort(c)
    <2>1. \E n \in 0 .. Len(toServer[c]) : toServer'[c] = SubSeq(toServer[c], 1, n)
      BY <1>0, <1>5 DEF Abort, Shape
    <2>2. PICK n \in 0 .. Len(s) : toServer'[c] = SubSeq(s, 1, n)
      BY <1>2, <2>1
    <2>3. SubSeq(s, 1, n) \in Seq(M)
      BY ONLY <1>3, n \in 0 .. Len(s)
    <2> QED  BY <1>1, <2>2, <2>3
  <1>6. CASE EncryptBatch(c) \/ EndUpload(c)
    <2>1. \E msgs \in Seq(MsgOver(GoodCts)) : toServer'[c] = toServer[c] \o msgs
      <3>1. CASE EncryptBatch(c)
        BY <3>1, EncryptGood
      <3>2. CASE EndUpload(c)
        <4>1. PICK msgs, list, d : /\ toServer'[c] = toServer[c] \o msgs
                                   /\ SendsTo(client[c], client'[c], msgs, list, d, <<>>, FALSE, TRUE)
          BY <1>0, <3>2, EndIs
        <4>2. <<>> \in Seq(GoodCts)
          OBVIOUS
        <4>3. msgs \in Seq(MsgOver(GoodCts))
          BY <4>1, <4>2, SendsOver
        <4> QED  BY <4>1, <4>3
      <3> QED  BY <1>6, <3>1, <3>2
    <2>2. PICK msgs \in Seq(M) : toServer'[c] = s \o msgs
      BY <1>1, <1>2, <2>1
    <2>3. s \o msgs \in Seq(M)
      BY ONLY <1>3, msgs \in Seq(M), ConcatIs
    <2> QED  BY <1>1, <2>2, <2>3
  <1>7. CASE \/ AdmitUpload(c) \/ RejectRestore(c) \/ AdmitRestore(c) \/ ProcessRecipes(c) \/ ReceiveBatch(c)
             \/ ProcessRecipeEnd(c)
    <2>1. toServer'[c] = Tail(s) /\ s # <<>>
      BY <1>0, <1>2, <1>7 DEF AdmitUpload, RejectRestore, AdmitRestore, ProcessRecipes, ReceiveBatch,
         ProcessRecipeEnd, Login, Receives, Shape
    <2>2. s # <<>>
      BY <2>1
    <2>3. Tail(s) \in Seq(M)
      BY ONLY <1>3, <2>2, MsgTail
    <2> QED  BY <1>1, <2>1, <2>3
  <1>8. CASE \/ RestoreUnknown(c) \/ FillBatch(c) \/ RequestKeys(c) \/ ReceiveChunks(c) \/ ExitRestore(c)
             \/ GenerateKeySeed(c) \/ ReplyKeys(c) \/ CloseKeyThread(c) \/ QueryIndex(c) \/ StoreChunk(c)
    <2>1. toServer' = toServer
      BY <1>8, Zenon DEF RestoreUnknown, FillBatch, RequestKeys, ReceiveChunks, ExitRestore, GenerateKeySeed,
         ReplyKeys, CloseKeyThread, QueryIndex, StoreChunk
    <2> QED  BY <2>1
  <1>9. CASE \/ ConnectionClosed(c) \/ LastContainer(c) \/ EndSession(c) \/ SaveToFile(c) \/ DecodeEntry(c)
             \/ DecodeTail(c) \/ DecoderFails(c) \/ CloseRestore(c) \/ ClientFails(c) \/ Again(c)
    <2>1. toServer' = toServer
      BY <1>9 DEF ConnectionClosed, LastContainer, EndSession, SaveToFile, DecodeEntry, DecodeTail,
         DecoderFails, CloseRestore, ClientFails, Again
    <2> QED  BY <2>1
  <1> QED  BY <1>4, <1>5, <1>6, <1>7, <1>8, <1>9 DEF Step

(* so does the batch that the server has received, *)
LEMMA SendsRest ==
    ASSUME BaseInv, NEW c \in Client, Step(c), toServer[c] \in Seq(MsgOver(GoodCts)),
           srv[c].rest \in Seq(GoodCts)
    PROVE  srv'[c].rest \in Seq(GoodCts)
  <1>0. Shape /\ ServerOK(c) /\ StoreOK /\ Decoding(c)
    BY DEF BaseInv, AtRest
  <1>1. PICK s, u, G : s = srv[c] /\ u = srv'[c] /\ G = GoodCts
    OBVIOUS
  <1>2. SessionOK(s) /\ s.rest \in Seq(G) /\ <<>> \in Seq(G)
    BY <1>0, <1>1 DEF ServerOK
  <1>3. DOMAIN s = DOMAIN Session /\ "rest" \in DOMAIN s
    BY <1>2 DEF SessionOK, Session
  <1> SUFFICES u.rest \in Seq(G)
    BY <1>1
  <1>4. CASE ReceiveBatch(c)
    <2>1. PICK msgs : msgs = toServer[c]
      OBVIOUS
    <2>2. /\ msgs # <<>> /\ Head(msgs).type = "CLIENT_UPLOAD_CHUNK"
          /\ u = [s EXCEPT !.rest = Head(msgs).items, !.pc = "query"]
      BY <1>0, <1>1, <1>4, <2>1 DEF ReceiveBatch, Receives, Shape
    <2>3. u.rest = Head(msgs).items
      BY <1>3, <2>2 DEF Session
    <2>4. Head(msgs) \in MsgOver(G)
      BY <1>1, <2>1, <2>2
    <2> QED  BY <2>2, <2>3, <2>4 DEF MsgOver
  <1>5. CASE QueryIndex(c) \/ StoreChunk(c)
    <2>1. u.rest = Tail(s.rest) \/ u.rest = s.rest
      <3>1. CASE QueryIndex(c)
        <4>1. \/ \E addr : Updated(c, s, addr, u, recipe[c], recipe'[c])
              \/ u = [s EXCEPT !.pc = "store"]
          BY <1>0, <1>1, <3>1, QueryIs
        <4> QED  BY <1>3, <4>1 DEF Updated
      <3>2. CASE StoreChunk(c)
        <4>1. PICK w, addr, ct, new : /\ Saved(srv[c], ct, w, addr, new)
                                      /\ Updated(c, w, addr, srv'[c], recipe[c], recipe'[c])
          BY <1>0, <3>2, StoreIs
        <4> QED  BY <1>1, <4>1 DEF Saved, Updated
      <3> QED  BY <1>5, <3>1, <3>2
    <2>2. s.rest # <<>>
      BY <1>1, <1>2, <1>5 DEF QueryIndex, StoreChunk, SessionOK
    <2>3. PICK v : v = s.rest
      OBVIOUS
    <2>4. v \in Seq(G) /\ v # <<>>
      BY <1>2, <2>2, <2>3
    <2>5. Tail(v) \in Seq(G)
      BY ONLY <2>4, MsgTail
    <2> QED  BY <2>1, <2>3, <2>4, <2>5
  <1>6. CASE \/ StartUpload(c) \/ StartRestore(c) \/ RestoreUnknown(c) \/ Abort(c) \/ FillBatch(c)
             \/ RequestKeys(c) \/ EncryptBatch(c) \/ EndUpload(c) \/ ReceiveChunks(c) \/ ExitRestore(c)
             \/ GenerateKeySeed(c) \/ ReplyKeys(c) \/ CloseKeyThread(c) \/ RejectRestore(c)
             \/ DecoderFails(c) \/ ClientFails(c) \/ Again(c) \/ ProcessRecipes(c)
    <2>1. srv' = srv
      BY <1>6, Zenon DEF StartUpload, StartRestore, RestoreUnknown, Abort, FillBatch, RequestKeys, EncryptBatch,
         EndUpload, ReceiveChunks, ExitRestore, GenerateKeySeed, ReplyKeys, CloseKeyThread, RejectRestore,
         DecoderFails, ClientFails, Again, ProcessRecipes, serverVars
    <2> QED  BY <1>1, <1>2, <2>1
  <1>7. CASE ProcessRecipeEnd(c) \/ SaveToFile(c) \/ ConnectionClosed(c)
    <2>1. \/ u = [s EXCEPT !.inRecipe = <<>>] \/ u = [s EXCEPT !.inputMQ = Tail(@)]
          \/ u = [s EXCEPT !.pc = "last"]
      BY <1>0, <1>1, <1>7 DEF ProcessRecipeEnd, SaveToFile, ConnectionClosed, Shape
    <2>2. u.rest = s.rest
      BY <1>3, <2>1
    <2> QED  BY <1>2, <2>2
  <1>8. CASE LastContainer(c)
    <2>1. u = [WriteContainer(s) EXCEPT !.pc = "join"] \/ u = [s EXCEPT !.pc = "join"]
      BY <1>0, <1>1, <1>8 DEF LastContainer, Shape
    <2>2. u.rest = s.rest
      BY <1>3, <2>1 DEF WriteContainer, Session
    <2> QED  BY <1>2, <2>2
  <1>9. CASE EndSession(c) \/ CloseRestore(c) \/ AdmitUpload(c) \/ AdmitRestore(c)
    <2>1. \/ u = Session \/ u = [Session EXCEPT !.pc = "recv", !.cur.id = uuids + 1]
          \/ u = [Session EXCEPT !.pc = "decode", !.todo = recipe[c].entries]
      BY <1>0, <1>1, <1>9 DEF EndSession, CloseRestore, AdmitUpload, AdmitRestore, Shape
    <2>2. PICK w, n, e : w = Session /\ n = uuids + 1 /\ e = recipe[c].entries
      OBVIOUS
    <2>3. w = [f \in DOMAIN w |-> w[f]] /\ "rest" \in DOMAIN w /\ w.rest = <<>>
      BY <2>2 DEF Session
    <2>4. CASE u = w
      BY <1>2, <2>3, <2>4
    <2>5. CASE u = [w EXCEPT !.pc = "recv", !.cur.id = n]
      <3>1. u.rest = <<>>
        BY ONLY <2>3, <2>5
      <3> QED  BY <1>2, <3>1
    <2>6. CASE u = [w EXCEPT !.pc = "decode", !.todo = e]
      <3>1. u.rest = <<>>
        BY ONLY <2>3, <2>6
      <3> QED  BY <1>2, <3>1
    <2>7. u = w \/ u = [w EXCEPT !.pc = "recv", !.cur.id = n] \/ u = [w EXCEPT !.pc = "decode", !.todo = e]
      BY <2>1, <2>2
    <2> QED  BY <2>4, <2>5, <2>6, <2>7
  <1>10. CASE DecodeEntry(c) \/ DecodeTail(c)
    <2>1. SessionOK(u) /\ u.pc \notin OpenPcs
      BY <1>0, <1>1, <1>10, DecodeServer DEF ServerOK
    <2>2. u.rest = <<>>
      BY <2>1 DEF SessionOK, OpenPcs
    <2> QED  BY <1>2, <2>2
  <1> QED  BY <1>4, <1>5, <1>6, <1>7, <1>8, <1>9, <1>10 DEF Step

(* and so does every entry of the index. *)
LEMMA IndexStep ==
    ASSUME BaseInv, NEW c \in Client, Step(c), srv[c].rest \in Seq(GoodCts), DOMAIN index \subseteq GoodCts
    PROVE  DOMAIN index' \subseteq GoodCts
  <1>0. Shape /\ ServerOK(c) /\ StoreOK
    BY DEF BaseInv, AtRest
  <1> USE DEF serverVars, storeVars
  <1>1. CASE StoreChunk(c)
    <2>0. PICK s, addr, ct, new :
              /\ ct = Head(srv[c].rest) /\ ct \in Ciphertext
              /\ Saved(srv[c], ct, s, addr, new) /\ SessionOK(s)
              /\ Updated(c, s, addr, srv'[c], recipe[c], recipe'[c])
              /\ index' = [x \in DOMAIN index \cup {ct} |-> IF x = ct THEN addr ELSE index[x]]
              /\ uuids' = (IF new THEN uuids + 1 ELSE uuids)
      BY <1>0, <1>1, StoreIs
    <2>1. ct = Head(srv[c].rest) /\ DOMAIN index' = DOMAIN index \cup {ct}
      BY <2>0
    <2>2. PICK v, G : v = srv[c].rest /\ G = GoodCts
      OBVIOUS
    <2>3. v \in Seq(G) /\ v # <<>>
      BY <1>0, <1>1, <2>2 DEF ServerOK, SessionOK, StoreChunk
    <2>4. ct \in G
      BY <2>1, <2>2, <2>3
    <2> QED  BY <2>1, <2>2, <2>4
  <1>2. CASE \/ StartUpload(c) \/ StartRestore(c) \/ RestoreUnknown(c) \/ Abort(c) \/ FillBatch(c)
             \/ RequestKeys(c) \/ EncryptBatch(c) \/ EndUpload(c) \/ ReceiveChunks(c) \/ ExitRestore(c)
             \/ GenerateKeySeed(c) \/ ReplyKeys(c) \/ CloseKeyThread(c) \/ RejectRestore(c)
             \/ DecoderFails(c) \/ ClientFails(c) \/ Again(c) \/ ProcessRecipes(c)
    <2>1. index' = index
      BY <1>2, ZenonT(30) DEF StartUpload, StartRestore, RestoreUnknown, Abort, FillBatch, RequestKeys, EncryptBatch,
         EndUpload, ReceiveChunks, ExitRestore, GenerateKeySeed, ReplyKeys, CloseKeyThread, RejectRestore,
         DecoderFails, ClientFails, Again, ProcessRecipes
    <2> QED  BY <2>1
  <1>3. CASE \/ AdmitUpload(c) \/ ReceiveBatch(c) \/ QueryIndex(c) \/ ProcessRecipeEnd(c) \/ ConnectionClosed(c)
             \/ LastContainer(c) \/ EndSession(c) \/ SaveToFile(c) \/ AdmitRestore(c) \/ DecodeEntry(c)
             \/ DecodeTail(c) \/ CloseRestore(c)
    <2>1. index' = index
      BY <1>3 DEF AdmitUpload, ReceiveBatch, QueryIndex, ProcessRecipeEnd, ConnectionClosed, LastContainer,
         EndSession, SaveToFile, AdmitRestore, DecodeEntry, DecodeTail, CloseRestore
    <2> QED  BY <2>1
  <1> QED  BY <1>1, <1>2, <1>3 DEF Step

LEMMA BoundedStep ==
    ASSUME BaseInv, DedupInv, NEW c \in Client, Step(c)
    PROVE  DedupInv'
  <1> SUFFICES ASSUME ~raced' PROVE BoundedInv'
    BY DEF DedupInv
  <1>1. BoundedInv
    BY RacedSame DEF DedupInv
  <1>2. /\ HistoryOK /\ SketchOK /\ DOMAIN index \subseteq GoodCts
        /\ \A d \in Client : SeedsOK(d) /\ SendsGood(d)
    BY <1>1 DEF BoundedInv
  <1>3. method' = method /\ \A d \in Client \ {c} : Frame(d)
    BY StaysUp, BaseStep
  <1>4. HistoryOK' /\ Grows
    BY <1>2, HistoryStep
  <1>5. (\A p \in Chunk : \A s : GoodSeed(p, s) => GoodSeed(p, s)') /\ GoodCts \subseteq GoodCts'
    BY <1>2, <1>3, <1>4, GoodGrows
  <1>6. SketchOK'
    BY <1>2, <1>3, SketchStep
  <1>7. PICK G, H : G = GoodCts /\ H = GoodCts'
    OBVIOUS
  <1>8. (\A s \in Seq(G) : s \in Seq(H)) /\ \A s \in Seq(MsgOver(G)) : s \in Seq(MsgOver(H))
    BY <1>5, <1>7, OverGrows
  <1>9. DOMAIN index' \subseteq H
    BY <1>2, <1>5, <1>7, IndexStep DEF SendsGood
  <1>10. ASSUME NEW d \in Client PROVE SeedsOK(d)'
    <2>1. CASE d = c
      BY <1>2, <1>3, <1>5, <2>1, SeedsStep
    <2>2. CASE d # c
      BY <1>2, <1>3, <1>5, <2>2, OtherSeeds
    <2> QED  BY <2>1, <2>2
  <1>11. ASSUME NEW d \in Client PROVE SendsGood(d)'
    <2>1. toServer[d] \in Seq(MsgOver(GoodCts)) /\ srv[d].rest \in Seq(GoodCts)
      BY <1>2 DEF SendsGood
    <2>2. toServer'[d] \in Seq(MsgOver(G)) /\ srv'[d].rest \in Seq(G)
      <3>1. CASE d = c
        BY <1>2, <1>7, <2>1, <3>1, SendsMsgs, SendsRest
      <3>2. CASE d # c
        BY <1>3, <1>7, <2>1, <3>2 DEF Frame
      <3> QED  BY <3>1, <3>2
    <2>3. toServer'[d] \in Seq(MsgOver(H)) /\ srv'[d].rest \in Seq(H)
      BY <1>8, <2>2
    <2> QED  BY <1>7, <2>3 DEF SendsGood
  <1> QED  BY <1>4, <1>6, <1>7, <1>9, <1>10, <1>11 DEF BoundedInv

(* A restart forgets the index, the sessions and the messages. *)
LEMMA BoundedRestart ==
    ASSUME BaseInv, DedupInv, RestartServer
    PROVE  DedupInv'
  <1>1. /\ UNCHANGED <<method, client, localKeys, km, sketchTable, uncleared, uploaded, raced>>
        /\ index' = <<>> /\ srv' = [c \in Client |-> Session] /\ toServer' = [c \in Client |-> <<>>]
    BY DEF RestartServer, kmVars
  <1> SUFFICES ASSUME ~raced, BoundedInv PROVE BoundedInv'
    BY <1>1 DEF DedupInv
  <1>2. HistoryOK'
    BY <1>1 DEF BoundedInv, HistoryOK, Sendings
  <1>3. SketchOK'
    BY <1>1 DEF BoundedInv, SketchOK, Counter, Tally
  <1>4. DOMAIN index' = {}
    BY <1>1
  <1>5. ASSUME NEW c \in Client PROVE SeedsOK(c)'
    <2>1. SeedsOK(c)
      BY DEF BoundedInv
    <2> QED  BY <1>1, <2>1 DEF SeedsOK, GoodSeed, Sendings, UsesKM
  <1>6. ASSUME NEW c \in Client PROVE SendsGood(c)'
    <2>1. toServer'[c] = <<>> /\ srv'[c].rest = <<>>
      BY <1>1 DEF Session
    <2> QED  BY <2>1 DEF SendsGood
  <1> QED  BY <1>2, <1>3, <1>4, <1>5, <1>6 DEF BoundedInv

LEMMA BoundedAside ==
    ASSUME DedupInv, Aside, raced => raced', BoundedInv /\ ~raced' => SketchOK'
    PROVE  DedupInv'
  <1>1. UNCHANGED <<method, client, localKeys, toServer, km, uploaded, srv, index>>
    BY DEF Aside
  <1>2. GoodCts' = GoodCts
    BY <1>1 DEF GoodCts, GoodSeed, Sendings, UsesKM, KeyOf
  <1>3. HistoryOK' <=> HistoryOK
    BY <1>1 DEF HistoryOK, Sendings
  <1>4. \A c \in Client : SeedsOK(c)' <=> SeedsOK(c)
    BY <1>1 DEF SeedsOK, GoodSeed, Sendings, UsesKM
  <1>5. \A c \in Client : SendsGood(c)' <=> SendsGood(c)
    BY <1>1, <1>2 DEF SendsGood
  <1> QED  BY <1>1, <1>2, <1>3, <1>4, <1>5 DEF DedupInv, BoundedInv

LEMMA BoundedStutter ==
    ASSUME DedupInv, UNCHANGED vars
    PROVE  DedupInv'
  <1>1. UNCHANGED <<method, client, localKeys, km, sketchTable, uncleared, uploaded, raced>>
    BY DEF vars, kmVars, history
  <1>2. SketchOK' <=> SketchOK
    BY <1>1 DEF SketchOK, Counter, Tally
  <1> QED  BY <1>1, <1>2, StutterAside, BoundedAside DEF BoundedInv

LEMMA BoundedClear ==
    ASSUME DedupInv, NEW k \in Counters, ClearCounter(k)
    PROVE  DedupInv'
  <1>1. raced => raced'
    BY DEF ClearCounter
  <1>2. ASSUME BoundedInv, ~raced' PROVE SketchOK'
    <2>1. HistoryOK /\ SketchOK
      BY <1>2 DEF BoundedInv
    <2>2. sketchTable' \in [Row -> [Word -> Nat]]
      BY <1>2, <2>1, ClearIs DEF SketchOK
    <2>3. method' = method
      BY DEF ClearCounter
    <2>4. ASSUME method = "TED", NEW r \in Row, NEW h \in Word PROVE Counter(r, h)'
      BY <1>2, <2>1, <2>4, CounterClear DEF SketchOK
    <2> QED  BY <2>2, <2>3, <2>4 DEF SketchOK
  <1> QED  BY <1>1, <1>2, ClearsAside, BoundedAside

LEMMA BoundedInit == Init => DedupInv
  <1> SUFFICES ASSUME Init PROVE BoundedInv
    BY DEF DedupInv
  <1>1. /\ km = [c \in Client |-> KMThread] /\ sketchTable = EmptySketch /\ index = <<>>
        /\ srv = [c \in Client |-> Session] /\ toServer = [c \in Client |-> <<>>]
        /\ uploaded = [c \in Client |-> {}]
    BY DEF Init
  <1>2. \A r, h : Sendings(r, h) = {}
    <2>1. \A r, h, x : x \notin Sendings(r, h)
      BY <1>1, SendingsIn
    <2> QED  BY <2>1
  <1>3. HistoryOK
    BY <1>1, <1>2, FS_EmptySet DEF HistoryOK
  <1>4. SketchOK
    <2>1. sketchTable \in [Row -> [Word -> Nat]]
      BY <1>1 DEF EmptySketch, Word
    <2>2. ASSUME NEW r \in Row, NEW h \in Word PROVE Counter(r, h)
      <3>1. PICK g : g = [c \in Client |-> 0]
        OBVIOUS
      <3>2. g \in [Client -> Nat] /\ \A c \in Client : g[c] = 0
        BY <3>1
      <3>3. \A c \in Client : Tally(c, r, h, g[c])
        BY <1>1, <3>2 DEF Tally, TallyOf, KMThread
      <3>4. Marks(g) = {}
        <4>1. \A x : x \notin Marks(g)
          BY <3>2, MarksIn
        <4> QED  BY <4>1
      <3>5. sketchTable[r][h] = 0 /\ Cardinality(Marks(g)) = 0
        BY <1>1, <3>4, FS_EmptySet DEF EmptySketch, Word
      <3> QED  BY <3>2, <3>3, <3>5 DEF Counter
    <2> QED  BY <2>1, <2>2 DEF SketchOK
  <1>5. DOMAIN index = {}
    BY <1>1
  <1>6. ASSUME NEW c \in Client PROVE SeedsOK(c) /\ SendsGood(c)
    <2>1. km[c].pc = "none" /\ toServer[c] = <<>> /\ srv[c].rest = <<>>
      BY <1>1 DEF KMThread, Session
    <2> QED  BY <2>1 DEF SeedsOK, SendsGood
  <1> QED  BY <1>3, <1>4, <1>5, <1>6 DEF BoundedInv

(* At most one ciphertext per seed. *)
LEMMA SeedsBound ==
    ASSUME NEW p, NEW b \in Nat, NEW S,
           \A ct \in S : \E s \in 0 .. b : ct = [plain |-> p, key |-> <<p, s>>]
    PROVE  Cardinality(S) <= 1 + b
  <1>1. PICK f : f = [ct \in S |-> ct.key[2]]
    OBVIOUS
  <1>2. ASSUME NEW ct \in S PROVE f[ct] \in 0 .. b /\ ct = [plain |-> p, key |-> <<p, f[ct]>>]
    <2>1. PICK s \in 0 .. b : ct = [plain |-> p, key |-> <<p, s>>]
      OBVIOUS
    <2>2. ct.key[2] = s
      BY <2>1
    <2> QED  BY <1>1, <2>1, <2>2
  <1>3. f \in [S -> 0 .. b]
    BY <1>1, <1>2
  <1>4. \A x, y \in S : f[x] = f[y] => x = y
    BY <1>2
  <1>5. f \in Injection(S, 0 .. b)
    BY <1>3, <1>4 DEF Injection, IsInjective
  <1>6. 0 \in Int /\ b \in Int /\ ~(0 > b)
    OBVIOUS
  <1>7. IsFiniteSet(0 .. b) /\ Cardinality(0 .. b) = b - 0 + 1
    BY <1>6, FS_Interval
  <1>8. IsFiniteSet(S) /\ Cardinality(S) <= Cardinality(0 .. b)
    BY <1>5, <1>7, FS_Injection
  <1> QED  BY <1>7, <1>8, FS_CardinalityType

(* A set whose members are all the same has at most one. *)
LEMMA OneBound ==
    ASSUME NEW S, NEW x, \A ct \in S : ct = x
    PROVE  Cardinality(S) <= 1
  <1>1. S \in SUBSET {x}
    OBVIOUS
  <1>2. IsFiniteSet({x}) /\ Cardinality({x}) = 1
    BY FS_Singleton
  <1>3. Cardinality(S) <= Cardinality({x})
    BY <1>1, <1>2, FS_Subset
  <1> QED  BY <1>2, <1>3

(* Good seeds run from 0 to the bound, so there are at most one more of them. *)
LEMMA InvBounds == BaseInv /\ DedupInv => CiphertextsBounded
  <1> SUFFICES ASSUME BaseInv, ~raced, BoundedInv, NEW p \in Chunk
               PROVE  LET distinct == Cardinality({ct \in DOMAIN index : ct.plain = p}) IN
                      IF method = "TED"
                      THEN \A r \in Row : distinct <= 1 + Cardinality(Sendings(r, ShortHash[p][r])) \div t
                      ELSE distinct <= 1
    BY DEF DedupInv, CiphertextsBounded
  <1>1. PICK S : S = {ct \in DOMAIN index : ct.plain = p}
    OBVIOUS
  <1>2. ASSUME NEW ct \in S
        PROVE  \E s : GoodSeed(p, s) /\ ct = [plain |-> p, key |-> KeyOf(p, s)]
    <2>1. ct \in GoodCts /\ ct.plain = p
      BY <1>1 DEF BoundedInv
    <2>2. ct \in [plain : Chunk, key : Key]
      BY <2>1 DEF GoodCts, Ciphertext
    <2>3. PICK s : GoodSeed(p, s) /\ ct.key = KeyOf(p, s)
      BY <2>1 DEF GoodCts
    <2>4. PICK k : k = KeyOf(p, s)
      OBVIOUS
    <2>5. ct = [plain |-> p, key |-> k]
      BY <2>1, <2>2, <2>3, <2>4
    <2> QED  BY <2>3, <2>4, <2>5
  <1>3. CASE method = "TED"
    <2>1. \A s : KeyOf(p, s) = <<p, s>>
      BY <1>3 DEF KeyOf
    <2>2. ASSUME NEW r \in Row PROVE Cardinality(S) <= 1 + Cardinality(Sendings(r, ShortHash[p][r])) \div t
      <3>1. PICK a, b : a = Cardinality(Sendings(r, ShortHash[p][r])) /\ b = a \div t
        OBVIOUS
      <3>2. a \in Nat
        <4>1. IsFiniteSet(Sendings(r, ShortHash[p][r]))
          BY HitIs DEF BoundedInv, HistoryOK
        <4> QED  BY <3>1, <4>1, FS_CardinalityType
      <3>3. b \in Nat
        <4>1. a <= a
          BY <3>2
        <4> QED  BY <3>1, <3>2, <4>1, DivGrows
      <3>4. ASSUME NEW ct \in S PROVE \E s \in 0 .. b : ct = [plain |-> p, key |-> <<p, s>>]
        <4>1. PICK s : GoodSeed(p, s) /\ ct = [plain |-> p, key |-> KeyOf(p, s)]
          BY <1>2
        <4>2. s \in Nat /\ s <= b
          BY <1>3, <3>1, <4>1 DEF GoodSeed
        <4>3. s \in 0 .. b
          BY <3>3, <4>2
        <4> QED  BY <2>1, <4>1, <4>3
      <3>5. Cardinality(S) <= 1 + b
        BY <3>3, <3>4, SeedsBound
      <3> QED  BY <3>1, <3>5
    <2> QED  BY <1>1, <1>3, <2>2
  <1>4. CASE method # "TED"
    <2>1. PICK x : x = [plain |-> p, key |-> KeyOf(p, 0)]
      OBVIOUS
    <2>2. ASSUME NEW ct \in S PROVE ct = x
      <3>1. PICK s : GoodSeed(p, s) /\ ct = [plain |-> p, key |-> KeyOf(p, s)]
        BY <1>2
      <3>2. KeyOf(p, s) = KeyOf(p, 0)
        <4>1. CASE UsesKM
          <5>1. s = 0
            BY <1>4, <3>1, <4>1 DEF GoodSeed
          <5> QED  BY <5>1
        <4>2. CASE ~UsesKM
          <5>1. method \in {"Plain", "CE"}
            BY <4>2 DEF UsesKM, BaseInv, Shape, Methods
          <5> QED  BY <5>1 DEF KeyOf
        <4> QED  BY <4>1, <4>2
      <3> QED  BY <2>1, <3>1, <3>2
    <2>3. Cardinality(S) <= 1
      BY <2>2, OneBound
    <2> QED  BY <1>1, <1>4, <2>3
  <1> QED  BY <1>3, <1>4

(* What TED promises about deduplication: as long as the key manager served   *)
(* one batch at a time, and none while it was clearing the sketch, a chunk     *)
(* has at most one ciphertext more for every t_ times that its counter was     *)
(* hit in one connection of each client, and one with the other methods: for   *)
(* every file, every sketch, every t_, and every order of the connections and  *)
(* of the clearing of the counters.                                            *)
THEOREM DedupSurvives == Spec => []CiphertextsBounded
  <1>1. Init => BaseInv /\ AddressesResolve /\ DedupInv
    BY BaseInit, BoundedInit
  <1>2. BaseInv /\ AddressesResolve /\ DedupInv /\ [Next]_vars => (BaseInv /\ AddressesResolve /\ DedupInv)'
    <2>1. ASSUME BaseInv, AddressesResolve, DedupInv, Next PROVE (BaseInv /\ AddressesResolve /\ DedupInv)'
      BY <2>1, NextIs, ClearsAside, BaseStep, BaseRestart, BaseAside, BoundedStep, BoundedRestart, BoundedClear
    <2>2. ASSUME BaseInv, AddressesResolve, DedupInv, UNCHANGED vars
          PROVE  (BaseInv /\ AddressesResolve /\ DedupInv)'
      BY <2>2, StutterAside, BaseAside, BoundedStutter
    <2> QED  BY <2>1, <2>2
  <1>3. BaseInv /\ DedupInv => CiphertextsBounded
    BY InvBounds
  <1> QED  BY <1>1, <1>2, <1>3, PTL DEF Spec
=============================================================================
