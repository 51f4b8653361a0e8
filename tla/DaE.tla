-------------------------------- MODULE DaE --------------------------------
(***************************************************************************)
(* The baseline system (Baseline/): deduplication after encryption.  A      *)
(* client gets a key for each chunk, from the chunk itself (CE) or from a    *)
(* key manager (TED, DupLESS), keeps the keys in a key recipe of its own,    *)
(* and sends the encrypted chunks; the server deduplicates them by the hash  *)
(* of the ciphertext.  A restore gets the ciphertexts back in order and      *)
(* decrypts them with the keys of the key recipe, in order.                  *)
(*                                                                         *)
(* A ciphertext is the pair of a chunk and its key.  Every client has one    *)
(* file, which it uploads and restores, one process at a time.  Chunks have  *)
(* size 1.                                                                   *)
(***************************************************************************)
EXTENDS Naturals, Sequences, FiniteSetsExt, SequencesExt, Functions

CONSTANTS
    Client, Chunk,
    Deployments,         \* [method, plan, aborts]: "Plain", "CE", "TED" or "DupLESS", the
                         \* operations of each client (<<f>> uploads f, <<>> restores),
                         \* and a bound: how many clients may be lost
    sendChunkBatchSize, sendRecipeBatchSize,
    MAX_CONTAINER_SIZE, CONTAINER_CAPPING_VALUE, CONTAINER_QUEUE_SIZE,
    Row, SKETCH_WIDTH, ShortHash,   \* ShortHash[p][r], word r of the hash of p
    t,                   \* t_ of the TED key manager
    NoFile, Garbage

ASSUME DaEAssumption ==
    /\ sendChunkBatchSize \in Nat \ {0} /\ sendRecipeBatchSize \in Nat \ {0}
    /\ sendRecipeBatchSize % sendChunkBatchSize = 0
    /\ MAX_CONTAINER_SIZE \in Nat /\ MAX_CONTAINER_SIZE > 1
    /\ CONTAINER_CAPPING_VALUE \in Nat \ {0} /\ CONTAINER_QUEUE_SIZE \in Nat \ {0}
    /\ SKETCH_WIDTH \in Nat \ {0} /\ ShortHash \in [Chunk -> [Row -> 0 .. SKETCH_WIDTH - 1]]
    /\ t \in Nat \ {0} /\ Garbage \notin Nat
    /\ Deployments \subseteq [method : {"Plain", "CE", "TED", "DupLESS"},
                              plan : [Client -> Seq(Seq(Seq(Chunk)))], aborts : Nat]

VARIABLES
    method,        \* of this deployment
    plan,          \* plan[c]: the operations that c will still run
    client,        \* client[c]: the process of client c and its send buffers
    localKeys,     \* localKeys[c]: the key recipe that c keeps
    toServer, toClient,      \* the connection of c
    km,            \* km[c]: the key manager's thread for c
    sketchTable, kmUp,
    uncleared      \* the counters that the thread of an ended connection has yet to clear
VARIABLES
    srv,           \* srv[c]: the server's threads for c
    recipe,        \* recipe[c]: the file recipe on the server's disk
    keyRecipe,     \* keyRecipe[c]: the key recipe on the server's disk
    index,         \* fp2ChunkDB: ciphertext -> address
    disk,          \* the containers on disk
    uuids,         \* how many container IDs were drawn
    serverUp
VARIABLES          \* history: no code reads these
    aborts,        \* how many clients may still be lost
    uploaded,      \* uploaded[c]: the files c began to upload
    committed,     \* committed[c]: the file of c's last upload, if it ended well
    settled,       \* the clients whose committed file was there when no upload was open
    raced          \* two threads of the key manager were in the loop or in its clearing at once

kmVars     == <<km, sketchTable, uncleared, kmUp>>
storeVars  == <<index, disk, uuids>>
history    == <<aborts, uploaded, committed, settled, raced>>
serverVars == <<srv, recipe, keyRecipe, storeVars, serverUp>>
vars == <<method, plan, client, localKeys, toServer, toClient, kmVars, serverVars, history>>

Process == [op |-> "idle", file |-> <<>>, pos |-> 0, plain |-> <<>>, cipher |-> <<>>,
            keyList |-> <<>>, head |-> 0, used |-> 0, out |-> <<>>]
KMThread == [pc |-> "none", in |-> <<>>, out |-> <<>>]
Session == [pc |-> "none", rest |-> <<>>, inRecipe |-> <<>>, cur |-> [id |-> 0, body |-> <<>>],
            inputMQ |-> <<>>, todo |-> <<>>, ids |-> <<>>, map |-> {}, buf |-> <<>>, send |-> <<>>]
BlankRecipe == [head |-> Garbage, entries |-> <<>>]
Message(type, items) == [type |-> type, items |-> items]
EmptySketch == [r \in Row |-> [w \in 0 .. SKETCH_WIDTH - 1 |-> 0]]

Init ==
    /\ \E d \in Deployments : method = d.method /\ plan = d.plan /\ aborts = d.aborts
    /\ client = [c \in Client |-> Process]
    /\ localKeys = [c \in Client |-> NoFile]
    /\ toServer = [c \in Client |-> <<>>] /\ toClient = [c \in Client |-> <<>>]
    /\ km = [c \in Client |-> KMThread] /\ sketchTable = EmptySketch /\ kmUp = TRUE
    /\ uncleared = {}
    /\ srv = [c \in Client |-> Session]
    /\ recipe = [c \in Client |-> NoFile] /\ keyRecipe = [c \in Client |-> NoFile]
    /\ index = <<>> /\ disk = <<>> /\ uuids = 0 /\ serverUp = TRUE
    /\ raced = FALSE /\ settled = {}
    /\ uploaded = [c \in Client |-> {}] /\ committed = [c \in Client |-> NoFile]

UsesKM == method \in {"TED", "DupLESS"}
-----------------------------------------------------------------------------
(* The methods: the key of a chunk, given the seed that the key manager       *)
(* answered (if there is one), and encryption under it.                       *)
KeyOf(p, seed) == CASE method = "Plain" -> "ones"
                    [] method = "CE"    -> <<p>>
                    [] OTHER            -> <<p, seed>>
Encrypt(p, key) == [plain |-> p, key |-> key]
Decrypt(ct, key) == IF method = "Plain" \/ ct.key = key THEN ct.plain ELSE Garbage
-----------------------------------------------------------------------------
(* The client: DAEClient, DataSender and the classes under KeyGen.           *)

(* The connections are made and the key recipe is truncated before the login. *)
StartUpload(c) ==
    /\ client[c].op = "idle" /\ serverUp /\ plan[c] # <<>> /\ Head(plan[c]) # <<>>
    /\ UsesKM => kmUp /\ km[c].pc = "none"
    /\ client' = [client EXCEPT ![c] = [Process EXCEPT !.op = "login", !.file = Head(plan[c])[1]]]
    /\ localKeys' = [localKeys EXCEPT ![c] = <<>>]
    /\ km' = IF UsesKM THEN [km EXCEPT ![c].pc = "recv"] ELSE km
    /\ toServer' = [toServer EXCEPT ![c] = <<Message("CLIENT_LOGIN_UPLOAD", <<>>)>>]
    /\ plan' = [plan EXCEPT ![c] = Tail(@)]
    /\ uploaded' = [uploaded EXCEPT ![c] = @ \cup {Head(plan[c])[1]}]
    /\ committed' = [committed EXCEPT ![c] = NoFile]
    /\ UNCHANGED <<method, toClient, sketchTable, uncleared, kmUp, serverVars, aborts, raced, settled>>

(* The sender fills the plain buffer from the queue; a full buffer, or the    *)
(* end of the file with something in the buffer, makes a batch.               *)
FillBatch(c) ==
    /\ client[c].op = "pop"
    /\ LET p    == client[c]
           left == Len(p.file) - p.pos
           n    == IF left < sendChunkBatchSize THEN left ELSE sendChunkBatchSize
       IN client' = [client EXCEPT
            ![c].plain = SubSeq(p.file, p.pos + 1, p.pos + n),
            ![c].pos = @ + n,
            ![c].op = CASE n = sendChunkBatchSize -> "batch"
                        [] n = 0 -> "end"
                        [] OTHER -> "lastBatch"]
    /\ UNCHANGED <<method, plan, localKeys, toServer, toClient, kmVars, serverVars, history>>

RequestKeys(c) ==
    /\ client[c].op \in {"batch", "lastBatch"} /\ UsesKM /\ km[c].pc = "recv"
    /\ km' = [km EXCEPT ![c] = [pc |-> "loop", in |-> client[c].plain, out |-> <<>>]]
    /\ UNCHANGED <<method, plan, client, localKeys, toServer, toClient, sketchTable, uncleared,
                   kmUp, serverVars, history>>

(* Seeded fault: the recipe buffer is sent when it is full, never at the end. *)
SendBuffersNoTail(p, last) ==
    LET full(s, n) == Len(s) % n = 0 IN
    (IF full(p.keyList, sendRecipeBatchSize)
     THEN <<Message("CLIENT_UPLOAD_RECIPE", p.keyList)>> ELSE <<>>)
    \o (IF (IF last THEN p.cipher # <<>> ELSE full(p.cipher, sendChunkBatchSize))
        THEN <<Message("CLIENT_UPLOAD_CHUNK", p.cipher)>> ELSE <<>>)
    \o (IF last THEN <<Message("CLIENT_UPLOAD_RECIPE_END", <<p.pos>>)>> ELSE <<>>)

(* What ProcessChunkBatch sends, and what ProcessRecipeEnd sends.            *)
SendBuffers(p, last) ==
    LET due(s, n) == IF last THEN s # <<>> ELSE Len(s) % n = 0 IN
    (IF due(p.keyList, sendRecipeBatchSize)
     THEN <<Message("CLIENT_UPLOAD_RECIPE", p.keyList)>> ELSE <<>>)
    \o (IF due(p.cipher, sendChunkBatchSize)
        THEN <<Message("CLIENT_UPLOAD_CHUNK", p.cipher)>> ELSE <<>>)
    \o (IF last THEN <<Message("CLIENT_UPLOAD_RECIPE_END", <<p.pos>>)>> ELSE <<>>)

(* SendRecipes and SendChunks empty the buffer that they sent. *)
AfterSend(p, msgs, last) ==
    LET was(ty) == \E n \in DOMAIN msgs : msgs[n].type = ty IN
    [p EXCEPT !.plain = <<>>,
              !.keyList = IF was("CLIENT_UPLOAD_RECIPE") THEN <<>> ELSE @,
              !.cipher = IF was("CLIENT_UPLOAD_CHUNK") THEN <<>> ELSE @,
              !.op = IF last THEN "finish" ELSE "pop"]

(* ProcessBatchChunk after the key manager's reply: a key for each chunk,    *)
(* written to the key recipe, the chunk encrypted; GenerateRecipe; send.     *)
EncryptBatch(c) ==
    /\ client[c].op \in {"batch", "lastBatch"}
    /\ UsesKM => km[c].pc = "sent"
    /\ LET p    == client[c]
           last == p.op = "lastBatch"
           keys == [n \in DOMAIN p.plain |-> KeyOf(p.plain[n], IF UsesKM THEN km[c].out[n] ELSE NoFile)]
           cts  == p.cipher \o [n \in DOMAIN p.plain |-> Encrypt(p.plain[n], keys[n])]
           full == [p EXCEPT !.cipher = cts,
                             !.keyList = @ \o [n \in DOMAIN cts |-> [hash |-> cts[n], key |-> keys[n]]]]
           msgs == SendBuffers(full, last)
       IN /\ localKeys' = [localKeys EXCEPT ![c] = @ \o keys]
          /\ toServer' = [toServer EXCEPT ![c] = @ \o msgs]
          /\ client' = [client EXCEPT ![c] = AfterSend(full, msgs, last)]
    /\ km' = IF UsesKM THEN [km EXCEPT ![c] = [KMThread EXCEPT !.pc = "recv"]] ELSE km
    /\ UNCHANGED <<method, plan, toClient, sketchTable, uncleared, kmUp, serverVars, history>>

(* ProcessRecipeEnd with nothing left in the plain buffer. *)
EndUpload(c) ==
    /\ client[c].op = "end"
    /\ LET msgs == SendBuffers(client[c], TRUE) IN
         /\ toServer' = [toServer EXCEPT ![c] = @ \o msgs]
         /\ client' = [client EXCEPT ![c] = AfterSend(@, msgs, TRUE)]
    /\ UNCHANGED <<method, plan, localKeys, toClient, kmVars, serverVars, history>>

Uploading == {"login", "pop", "batch", "lastBatch", "end", "finish", "closeKM"}
Restoring == {"loginRestore", "receive", "closing"}

(* What is left of the key recipe of a client that does not exit normally:   *)
(* its stream loses the keys that it still buffered.                          *)
KeysLeft(c) ==
    IF client[c].op \in Uploading
    THEN {[localKeys EXCEPT ![c] = SubSeq(@, 1, n)] : n \in {0, Len(localKeys[c])}}
    ELSE {localKeys}

(* The client process is lost, with what it had not sent and the end of what *)
(* it had.  The thread that then gets no login from the connection exits with *)
(* the whole server: in the same step, since nothing can keep it from that.   *)
Abort(c) ==
    /\ client[c].op \in (Uploading \cup Restoring) \ {"finish", "closeKM", "closing"}
    /\ serverUp /\ aborts > 0
    /\ aborts' = aborts - 1
    /\ \E n \in 0 .. Len(toServer[c]) :
          /\ toServer' = [toServer EXCEPT ![c] = SubSeq(@, 1, n)]
          /\ serverUp' = (n = 0 => client[c].op \notin {"login", "loginRestore"})
    /\ localKeys' \in KeysLeft(c)
    /\ client' = [client EXCEPT ![c] = [Process EXCEPT !.op = "dead"]]
    /\ UNCHANGED <<method, plan, toClient, kmVars, srv, recipe, keyRecipe, storeVars,
                   uploaded, committed, raced, settled>>

(* ReceiveData or SendData fails because the other side has exited. *)
ClientFails(c) ==
    /\ \/ ~serverUp /\ client[c].op \in Uploading \cup Restoring
       \/ ~kmUp /\ UsesKM /\ client[c].op \in {"batch", "lastBatch", "closeKM"}
    /\ localKeys' \in KeysLeft(c)
    /\ client' = [client EXCEPT ![c] = [Process EXCEPT !.op = "dead"]]
    /\ UNCHANGED <<method, plan, toServer, toClient, kmVars, serverVars, history>>

(* The user runs the client again when the servers have noticed its end. *)
Again(c) ==
    /\ client[c].op = "dead"
    /\ serverUp => srv[c].pc = "none" /\ toServer[c] = <<>>
    /\ kmUp => km[c].pc = "none"
    /\ client' = [client EXCEPT ![c].op = "idle"]
    /\ UNCHANGED <<method, plan, localKeys, toServer, toClient, kmVars, serverVars, history>>
-----------------------------------------------------------------------------
(* The key manager.  Its threads share the sketch, the digest context and    *)
(* the big number result_ without a lock: while two of them are in the loop,  *)
(* an increment may be lost and a result may be garbage.                      *)
Counting(d) == km[d].pc = "loop"
Racing(c) == \E d \in Client \ {c} : Counting(d)

(* The chunk whose seed is generated next. *)
NextChunk(c) == km[c].in[Len(km[c].out) + 1]

Count(table, p) == [r \in Row |-> [table[r] EXCEPT ![ShortHash[p][r]] = @ + 1]]
CurFreq(table, p) == Min({table[r][ShortHash[p][r]] : r \in Row})

(* Seeded fault: the frequency is not divided by t_. *)
ParamsUndivided(freq) == 0 .. freq

(* uniform_int_distribution(0, floor(curFreq / t_)) *)
Params(freq) == 0 .. freq \div t

GenerateKeySeed(c) ==
    /\ kmUp /\ km[c].pc = "loop"
    /\ LET p     == NextChunk(c)
           table == Count(sketchTable, p)
           right == IF method = "TED" THEN Params(CurFreq(table, p)) ELSE {0}
       IN /\ \E seed \in right \cup (IF Racing(c) THEN {Garbage} ELSE {}) :
               km' = [km EXCEPT ![c].out = Append(@, seed),
                                ![c].pc = IF Len(km[c].out) + 1 = Len(km[c].in) THEN "reply" ELSE @]
          /\ IF method = "TED"
             THEN \/ sketchTable' = table
                  \/ Racing(c) /\ UNCHANGED sketchTable
             ELSE UNCHANGED sketchTable
    /\ raced' = (raced \/ Racing(c) \/ uncleared # {})
    /\ UNCHANGED <<method, plan, client, localKeys, toServer, toClient, uncleared, kmUp, serverVars,
                   aborts, uploaded, committed, settled>>

(* The reply; a failed SendData to a lost client ends the key manager, if it *)
(* is reported.                                                              *)
ReplyKeys(c) ==
    /\ kmUp /\ km[c].pc = "reply"
    /\ \/ client[c].op # "dead" /\ km' = [km EXCEPT ![c].pc = "sent"] /\ UNCHANGED kmUp
       \/ client[c].op = "dead" /\ km' = [km EXCEPT ![c] = [KMThread EXCEPT !.pc = "recv"]]
                                /\ UNCHANGED kmUp
       \/ client[c].op = "dead" /\ kmUp' = FALSE /\ UNCHANGED km
    /\ UNCHANGED <<method, plan, client, localKeys, toServer, toClient, sketchTable, uncleared,
                   serverVars, history>>

(* The user that ends a whole upload: the process exits and closes its key    *)
(* recipe.                                                                    *)
Committed(c) == [committed EXCEPT ![c] = client[c].file]

Counters == Row \X (0 .. SKETCH_WIDTH - 1)

(* ReceiveData fails because the client closed its connection or was lost.   *)
(* The client learns of the end, and may come back, before the thread of the  *)
(* TED key manager has cleared the counters.  Two threads that clear them at  *)
(* the same time count as one.                                                *)
CloseKeyThread(c) ==
    /\ kmUp /\ km[c].pc \in {"recv", "sent"} /\ client[c].op \in {"closeKM", "dead"}
    /\ km' = [km EXCEPT ![c] = KMThread]
    /\ uncleared' = IF method = "TED" THEN Counters ELSE uncleared
    /\ IF client[c].op = "closeKM"
       THEN /\ committed' = Committed(c)
            /\ client' = [client EXCEPT ![c] = Process]
       ELSE UNCHANGED <<committed, client>>
    /\ UNCHANGED <<method, plan, localKeys, toServer, toClient, sketchTable, kmUp, serverVars,
                   aborts, uploaded, raced, settled>>

(* The counters are cleared one by one, in no particular order here.  No lock *)
(* is held: the zero is lost when another thread is just incrementing.        *)
ClearCounter(k) ==
    /\ kmUp /\ k \in uncleared
    /\ uncleared' = uncleared \ {k}
    /\ \/ sketchTable' = [sketchTable EXCEPT ![k[1]][k[2]] = 0]
       \/ /\ \E d \in Client : Counting(d) /\ ShortHash[NextChunk(d)][k[1]] = k[2]
          /\ UNCHANGED sketchTable
    /\ raced' = (raced \/ \E d \in Client : Counting(d))
    /\ UNCHANGED <<method, plan, client, localKeys, toServer, toClient, km, kmUp, serverVars,
                   aborts, uploaded, committed, settled>>
-----------------------------------------------------------------------------
(* The server: ServerOptThread, DataReceiver, PlainIndex, StorageCore,        *)
(* DataWriter.  One session of a client at a time (clientLockIndex_).         *)
Login(c, type) ==
    /\ serverUp /\ srv[c].pc = "none" /\ toServer[c] # <<>> /\ Head(toServer[c]).type = type
    /\ toServer' = [toServer EXCEPT ![c] = Tail(@)]

(* The response to a client that was lost may be reported as failed. *)
Responds(c, op) ==
    \/ /\ client' = IF client[c].op = "dead" THEN client ELSE [client EXCEPT ![c].op = op]
       /\ UNCHANGED serverUp
    \/ client[c].op = "dead" /\ serverUp' = FALSE /\ UNCHANGED client

OpenUploads == {c \in Client : srv[c].pc \notin {"none", "decode", "waitClose"}}

AdmitUpload(c) ==
    /\ Login(c, "CLIENT_LOGIN_UPLOAD")
    /\ uuids' = uuids + 1
    /\ srv' = [srv EXCEPT ![c] = [Session EXCEPT !.pc = "recv", !.cur.id = uuids + 1]]
    /\ recipe' = [recipe EXCEPT ![c] = BlankRecipe]
    /\ keyRecipe' = [keyRecipe EXCEPT ![c] = <<>>]
    /\ Responds(c, "pop")
    /\ settled' = (IF OpenUploads = {} THEN {d \in Client : committed[d] # NoFile} ELSE settled) \ {c}
    /\ UNCHANGED <<method, plan, localKeys, toClient, kmVars, index, disk,
                   aborts, uploaded, committed, raced>>

Receives(c, type) ==
    /\ serverUp /\ srv[c].pc = "recv" /\ toServer[c] # <<>> /\ Head(toServer[c]).type = type
    /\ toServer' = [toServer EXCEPT ![c] = Tail(@)]

ProcessRecipes(c) ==
    /\ Receives(c, "CLIENT_UPLOAD_RECIPE")
    /\ keyRecipe' = [keyRecipe EXCEPT ![c] = @ \o Head(toServer[c]).items]
    /\ UNCHANGED <<method, plan, client, localKeys, toClient, kmVars, srv, recipe, storeVars,
                   serverUp, history>>

ReceiveBatch(c) ==
    /\ Receives(c, "CLIENT_UPLOAD_CHUNK")
    /\ srv' = [srv EXCEPT ![c].rest = Head(toServer[c]).items, ![c].pc = "query"]
    /\ UNCHANGED <<method, plan, client, localKeys, toClient, kmVars, recipe, keyRecipe, storeVars,
                   serverUp, history>>

(* UpdateFileRecipe: a full recipe buffer goes to the file. *)
UpdateFileRecipe(c, s, addr) ==
    LET entries == Append(s.inRecipe, addr)
        full    == Len(entries) % sendRecipeBatchSize = 0
    IN /\ recipe' = IF full THEN [recipe EXCEPT ![c].entries = @ \o entries] ELSE recipe
       /\ srv' = [srv EXCEPT ![c] = [s EXCEPT !.inRecipe = IF full THEN <<>> ELSE entries,
                                              !.rest = Tail(@),
                                              !.pc = IF Len(s.rest) = 1 THEN "recv" ELSE "query"]]

(* ReadIndexStore: a known ciphertext only goes into the recipe. *)
QueryIndex(c) ==
    /\ serverUp /\ srv[c].pc = "query"
    /\ LET ct == Head(srv[c].rest) IN
         IF ct \in DOMAIN index
         THEN UpdateFileRecipe(c, srv[c], index[ct])
         ELSE srv' = [srv EXCEPT ![c].pc = "store"] /\ UNCHANGED recipe
    /\ UNCHANGED <<method, plan, client, localKeys, toServer, toClient, kmVars, keyRecipe, storeVars,
                   serverUp, history>>

(* Ocall_WriteContainer: pushed to the writer, and a new container begun. *)
WriteContainer(s) ==
    [s EXCEPT !.inputMQ = Append(@, s.cur), !.cur = [id |-> uuids + 1, body |-> <<>>]]

(* StorageCore::SaveChunk; a chunk that does not fit goes into a new container. *)
SaveChunk(s, ct) ==
    LET full == Len(s.cur.body) + 1 >= MAX_CONTAINER_SIZE
        u    == IF full THEN WriteContainer(s) ELSE s
    IN [session |-> [u EXCEPT !.cur.body = Append(@, ct)],
        addr |-> [id |-> u.cur.id, offset |-> Len(u.cur.body) + 1], new |-> full]

StoreChunk(c) ==
    /\ serverUp /\ srv[c].pc = "store"
    /\ LET ct == Head(srv[c].rest)
           r  == SaveChunk(srv[c], ct)
       IN /\ r.new => Len(srv[c].inputMQ) < CONTAINER_QUEUE_SIZE
          /\ uuids' = IF r.new THEN uuids + 1 ELSE uuids
          /\ index' = [x \in DOMAIN index \cup {ct} |-> IF x = ct THEN r.addr ELSE index[x]]
          /\ UpdateFileRecipe(c, r.session, r.addr)
    /\ UNCHANGED <<method, plan, client, localKeys, toServer, toClient, kmVars, keyRecipe, disk,
                   serverUp, history>>

(* ProcessTailBatch and FinalizeRecipe. *)
ProcessRecipeEnd(c) ==
    /\ Receives(c, "CLIENT_UPLOAD_RECIPE_END")
    /\ recipe' = [recipe EXCEPT ![c].entries = @ \o srv[c].inRecipe,
                                ![c].head = Head(Head(toServer[c]).items)]
    /\ srv' = [srv EXCEPT ![c].inRecipe = <<>>]
    /\ UNCHANGED <<method, plan, client, localKeys, toClient, kmVars, keyRecipe, storeVars, serverUp,
                   history>>

(* Seeded fault: only a lost connection ends the loop. *)
PeerGoneLost(c) == client[c].op = "dead"

PeerGone(c) == client[c].op \in {"finish", "dead"}

(* The receive fails: the client closed the connection, which its Finish     *)
(* learns from the server's alert, or was lost.                              *)
ConnectionClosed(c) ==
    /\ serverUp /\ srv[c].pc = "recv" /\ toServer[c] = <<>> /\ PeerGone(c)
    /\ srv' = [srv EXCEPT ![c].pc = "last"]
    /\ IF client[c].op = "dead" THEN UNCHANGED <<client, committed>>
       ELSE IF UsesKM
       THEN client' = [client EXCEPT ![c].op = "closeKM"] /\ UNCHANGED committed
       ELSE client' = [client EXCEPT ![c] = Process] /\ committed' = Committed(c)
    /\ UNCHANGED <<method, plan, localKeys, toServer, toClient, kmVars, recipe, keyRecipe, storeVars,
                   serverUp, aborts, uploaded, raced, settled>>

(* Seeded fault: the last container is only written when the upload was      *)
(* finished.                                                                 *)
LastToWriteIfFinal(c) == srv[c].cur.body # <<>> /\ recipe[c].head # Garbage

LastToWrite(c) == srv[c].cur.body # <<>>

(* "process the last container", then done_. *)
LastContainer(c) ==
    /\ serverUp /\ srv[c].pc = "last"
    /\ IF LastToWrite(c)
       THEN /\ Len(srv[c].inputMQ) < CONTAINER_QUEUE_SIZE
            /\ srv' = [srv EXCEPT ![c] = [WriteContainer(@) EXCEPT !.pc = "join"]]
            /\ uuids' = uuids + 1
       ELSE srv' = [srv EXCEPT ![c].pc = "join"] /\ UNCHANGED uuids
    /\ UNCHANGED <<method, plan, client, localKeys, toServer, toClient, kmVars, recipe, keyRecipe,
                   index, disk, serverUp, history>>

SaveToFile(c) ==
    /\ serverUp /\ srv[c].inputMQ # <<>>
    /\ LET k == Head(srv[c].inputMQ) IN
         disk' = [n \in DOMAIN disk \cup {k.id} |-> IF n = k.id THEN k.body ELSE disk[n]]
    /\ srv' = [srv EXCEPT ![c].inputMQ = Tail(@)]
    /\ UNCHANGED <<method, plan, client, localKeys, toServer, toClient, kmVars, recipe, keyRecipe,
                   index, uuids, serverUp, history>>

(* Both threads are joined and the client's lock is released. *)
EndSession(c) ==
    /\ serverUp /\ srv[c].pc = "join" /\ srv[c].inputMQ = <<>>
    /\ srv' = [srv EXCEPT ![c] = Session]
    /\ UNCHANGED <<method, plan, client, localKeys, toServer, toClient, kmVars, recipe, keyRecipe,
                   storeVars, serverUp, history>>
-----------------------------------------------------------------------------
(* A restore.  A client that has connected and finds no key recipe exits, and *)
(* the server that waits for its login exits too.                             *)
RestoreUnknown(c) ==
    /\ client[c].op = "idle" /\ serverUp /\ plan[c] # <<>> /\ Head(plan[c]) = <<>>
    /\ localKeys[c] = NoFile
    /\ plan' = [plan EXCEPT ![c] = Tail(@)]
    /\ serverUp' = FALSE
    /\ UNCHANGED <<method, client, localKeys, toServer, toClient, kmVars, srv, recipe, keyRecipe,
                   storeVars, history>>

StartRestore(c) ==
    /\ client[c].op = "idle" /\ serverUp /\ plan[c] # <<>> /\ Head(plan[c]) = <<>>
    /\ localKeys[c] # NoFile
    /\ client' = [client EXCEPT ![c] = [Process EXCEPT !.op = "loginRestore"]]
    /\ toServer' = [toServer EXCEPT ![c] = <<Message("CLIENT_LOGIN_DOWNLOAD", <<>>)>>]
    /\ plan' = [plan EXCEPT ![c] = Tail(@)]
    /\ UNCHANGED <<method, localKeys, toClient, kmVars, serverVars,
                   aborts, uploaded, committed, raced, settled>>

(* CheckFileStatus; the client that is told SERVER_FILE_NON_EXIST exits, and  *)
(* sends nothing more: the server's wait for this close, with the client's    *)
(* lock, is part of the step, and its exit on a further message cannot be.    *)
RejectRestore(c) ==
    /\ recipe[c] = NoFile /\ Login(c, "CLIENT_LOGIN_DOWNLOAD")
    /\ Responds(c, "idle")
    /\ UNCHANGED <<method, plan, localKeys, toClient, kmVars, srv, recipe, keyRecipe, storeVars, history>>

(* The head of the recipe for the client, the rest for the decoder. *)
AdmitRestore(c) ==
    /\ recipe[c] # NoFile /\ Login(c, "CLIENT_LOGIN_DOWNLOAD")
    /\ srv' = [srv EXCEPT ![c] = [Session EXCEPT !.pc = "decode", !.todo = recipe[c].entries]]
    /\ client' = IF client[c].op = "dead" THEN client
                 ELSE [client EXCEPT ![c].op = "receive", ![c].head = recipe[c].head]
    /\ toClient' = [toClient EXCEPT ![c] = <<>>]
    /\ UNCHANGED <<method, plan, localKeys, kmVars, recipe, keyRecipe, storeVars, serverUp, history>>

(* An entry gets the number of its container; numbers are looked up within   *)
(* the batch that was read from the recipe (map), and drawn across batches.  *)
ParseEntry(c, s) ==
    LET e    == Head(s.todo)
        done == Len(recipe[c].entries) - Len(s.todo)
        map  == IF done % sendRecipeBatchSize = 0 THEN {} ELSE s.map
        old  == {m \in map : m.id = e.id}
        n    == IF old = {} THEN Len(s.ids) + 1 ELSE (CHOOSE m \in old : TRUE).n
    IN [s EXCEPT !.todo = Tail(@),
                 !.ids = IF old = {} THEN Append(@, e.id) ELSE @,
                 !.map = IF old = {} THEN map \cup {[id |-> e.id, n |-> n]} ELSE map,
                 !.buf = Append(@, [n |-> n, offset |-> e.offset])]

(* The chunks of the buffered entries, behind those not yet sent. *)
Recovered(s) == s.send \o [k \in DOMAIN s.buf |-> disk[s.ids[s.buf[k].n]][s.buf[k].offset]]

FullBatches(chunks) ==
    [k \in 1 .. Len(chunks) \div sendChunkBatchSize |->
        Message("SERVER_RESTORE_CHUNK",
                SubSeq(chunks, (k - 1) * sendChunkBatchSize + 1, k * sendChunkBatchSize))]
Unsent(chunks) == SubSeq(chunks, (Len(chunks) \div sendChunkBatchSize) * sendChunkBatchSize + 1, Len(chunks))

(* GetReqContainers exits when a container cannot be opened. *)
Fetchable(s) == \A k \in DOMAIN s.ids : s.ids[k] \in DOMAIN disk

(* ProcessRecipeBatch, one entry; the group is sent at the capping value.    *)
DecodeEntry(c) ==
    /\ serverUp /\ srv[c].pc = "decode" /\ srv[c].todo # <<>>
    /\ LET s == ParseEntry(c, srv[c]) IN
         IF Len(s.ids) # CONTAINER_CAPPING_VALUE
         THEN srv' = [srv EXCEPT ![c] = s] /\ UNCHANGED <<toClient, serverUp>>
         ELSE IF ~Fetchable(s)
         THEN serverUp' = FALSE /\ UNCHANGED <<srv, toClient>>
         ELSE LET chunks == Recovered(s) IN
              /\ toClient' = [toClient EXCEPT ![c] = @ \o FullBatches(chunks)]
              /\ srv' = [srv EXCEPT ![c] = [s EXCEPT !.send = Unsent(chunks), !.ids = <<>>,
                                                     !.map = {}, !.buf = <<>>]]
              /\ UNCHANGED serverUp
    /\ UNCHANGED <<method, plan, client, localKeys, toServer, kmVars, recipe, keyRecipe, storeVars, history>>

(* The tail: the last message is the final one, full or not. *)
TailMessages(chunks) ==
    LET full == (Len(chunks) - 1) \div sendChunkBatchSize IN
    Append(SubSeq(FullBatches(chunks), 1, full),
           Message("SERVER_RESTORE_FINAL", SubSeq(chunks, full * sendChunkBatchSize + 1, Len(chunks))))

(* ProcessRecipeTailBatch: without buffered entries it sends nothing.        *)
DecodeTail(c) ==
    /\ serverUp /\ srv[c].pc = "decode" /\ srv[c].todo = <<>>
    /\ LET s == srv[c] IN
         IF s.buf # <<>> /\ ~Fetchable(s)
         THEN serverUp' = FALSE /\ UNCHANGED <<srv, toClient>>
         ELSE /\ toClient' = [toClient EXCEPT ![c] = @ \o IF s.buf = <<>> THEN <<>>
                                                          ELSE TailMessages(Recovered(s))]
              /\ srv' = [srv EXCEPT ![c] = [Session EXCEPT !.pc = "waitClose"]]
              /\ UNCHANGED serverUp
    /\ UNCHANGED <<method, plan, client, localKeys, toServer, kmVars, recipe, keyRecipe, storeVars, history>>

(* Seeded fault: the key recipe is read from its beginning for each message. *)
NextKeysFromStart(c, n) == SubSeq(localKeys[c], 1, n)

(* The next keys of the key recipe; at its end the buffer keeps old keys. *)
NextKeys(c, n) == SubSeq(localKeys[c], client[c].used + 1, client[c].used + n)

(* ProcessChunkBatch of the retriever: a key per chunk, and decrypt. *)
ReceiveChunks(c) ==
    /\ client[c].op = "receive" /\ toClient[c] # <<>> /\ serverUp
    /\ LET msg  == Head(toClient[c])
           n    == Len(msg.items)
           have == NextKeys(c, IF client[c].used + n <= Len(localKeys[c]) THEN n
                               ELSE Len(localKeys[c]) - client[c].used)
       IN client' = [client EXCEPT
            ![c].out = @ \o [k \in 1 .. n |-> IF k \in DOMAIN have THEN Decrypt(msg.items[k], have[k])
                                               ELSE Garbage],
            ![c].used = @ + Len(have),
            ![c].op = IF msg.type = "SERVER_RESTORE_FINAL" THEN "closing" ELSE @]
    /\ toClient' = [toClient EXCEPT ![c] = Tail(@)]
    /\ UNCHANGED <<method, plan, localKeys, toServer, kmVars, serverVars, history>>

(* The client was lost: a SendData to it is reported as failed, or its ready  *)
(* message does not come, and the server exits.                               *)
DecoderFails(c) ==
    /\ serverUp /\ srv[c].pc = "decode" /\ client[c].op = "dead"
    /\ serverUp' = FALSE
    /\ UNCHANGED <<method, plan, client, localKeys, toServer, toClient, kmVars, srv, recipe, keyRecipe,
                   storeVars, history>>

(* Finish of the client meets the server's wait for the end.  The number of  *)
(* chunks decides whether the restore succeeded.                             *)
CloseRestore(c) ==
    /\ serverUp /\ srv[c].pc = "waitClose" /\ client[c].op \in {"closing", "dead"}
    /\ srv' = [srv EXCEPT ![c] = Session]
    /\ client' = [client EXCEPT ![c].op =
                     IF @ = "dead" THEN @
                     ELSE IF client[c].head \in {Len(client[c].out), Garbage} THEN "restored" ELSE "idle"]
    /\ UNCHANGED <<method, plan, localKeys, toServer, toClient, kmVars, recipe, keyRecipe, storeVars,
                   serverUp, history>>

(* The restore has ended well. *)
ExitRestore(c) ==
    /\ client[c].op = "restored"
    /\ client' = [client EXCEPT ![c] = Process]
    /\ UNCHANGED <<method, plan, localKeys, toServer, toClient, kmVars, serverVars, history>>
-----------------------------------------------------------------------------
(* The server is started again when every client has noticed its exit.  The  *)
(* exits here skip the destructor that saves the index: it was only in memory, *)
(* and so were the open containers, the queues and what the streams of the    *)
(* recipes had not flushed.  (Ctrl-C between uploads, which saves the index    *)
(* for the next start to load, is left out, and with it an index file from an  *)
(* earlier run.)  A file is only safe from this if it was there before the     *)
(* first of the uploads that were open: its own session may not have ended     *)
(* when its client was told that it had, and it may share chunks with another  *)
(* open upload.                                                                *)
RestartServer ==
    /\ ~serverUp /\ \A c \in Client : client[c].op \notin Uploading \cup Restoring
    /\ \E lost \in SUBSET OpenUploads :
          /\ recipe' = [c \in Client |-> IF c \in lost THEN BlankRecipe ELSE recipe[c]]
          /\ keyRecipe' = [c \in Client |-> IF c \in lost THEN <<>> ELSE keyRecipe[c]]
    /\ committed' = [c \in Client |-> IF OpenUploads = {} \/ c \in settled THEN committed[c] ELSE NoFile]
    /\ srv' = [c \in Client |-> Session]
    /\ toServer' = [c \in Client |-> <<>>]
    /\ index' = <<>> /\ serverUp' = TRUE
    /\ UNCHANGED <<method, plan, client, localKeys, toClient, kmVars, disk, uuids,
                   aborts, uploaded, settled, raced>>
-----------------------------------------------------------------------------
Sender(c)     == FillBatch(c) \/ RequestKeys(c) \/ EncryptBatch(c) \/ EndUpload(c)
Retriever(c)  == ReceiveChunks(c) \/ ExitRestore(c)
KeyManager(c) == GenerateKeySeed(c) \/ ReplyKeys(c) \/ CloseKeyThread(c)
Receiver(c)   == \/ AdmitUpload(c) \/ ProcessRecipes(c) \/ ReceiveBatch(c) \/ QueryIndex(c)
                 \/ StoreChunk(c) \/ ProcessRecipeEnd(c) \/ ConnectionClosed(c)
                 \/ LastContainer(c) \/ EndSession(c)
Decoder(c)    == \/ RejectRestore(c) \/ AdmitRestore(c) \/ DecodeEntry(c) \/ DecodeTail(c)
                 \/ DecoderFails(c) \/ CloseRestore(c)
Ends(c)       == ClientFails(c) \/ Again(c)

Next ==
    \/ \E c \in Client :
          \/ StartUpload(c) \/ StartRestore(c) \/ RestoreUnknown(c) \/ Abort(c)
          \/ Sender(c) \/ Retriever(c) \/ KeyManager(c) \/ Receiver(c) \/ SaveToFile(c) \/ Decoder(c)
          \/ Ends(c)
    \/ \E k \in Counters : ClearCounter(k)
    \/ RestartServer

Spec == Init /\ [][Next]_vars

(* Every thread that can go on does; nobody has to start or lose a client, or *)
(* to start the server again.                                                 *)
FairSpec ==
    /\ Spec
    /\ \A c \in Client :
         /\ WF_vars(Sender(c)) /\ WF_vars(Retriever(c)) /\ WF_vars(KeyManager(c))
         /\ WF_vars(Receiver(c)) /\ WF_vars(SaveToFile(c)) /\ WF_vars(Decoder(c))
         /\ WF_vars(Ends(c))
    /\ WF_vars(\E k \in Counters : ClearCounter(k))
-----------------------------------------------------------------------------
(* The ciphertext at an address, on disk or still on its way there. *)
Held == {[id |-> n, body |-> disk[n]] : n \in DOMAIN disk}
        \cup UNION {{srv[c].cur} \cup {srv[c].inputMQ[k] : k \in DOMAIN srv[c].inputMQ} : c \in Client}
Holds(addr, ct) == \E k \in Held : k.id = addr.id /\ addr.offset \in DOMAIN k.body
                                   /\ k.body[addr.offset] = ct

(* Whatever the index refers to exists, on disk or in a session that still    *)
(* has to write it, and is the ciphertext with that hash: also when a client  *)
(* is lost in the middle of its upload, since the receiver writes the last    *)
(* container then too, when two clients store the same ciphertext at once,    *)
(* and when the server was started again.                                     *)
AddressesResolve ==
    \A ct \in DOMAIN index : Holds(index[ct], ct)

(* A file whose upload has ended well can be decrypted: for each of its       *)
(* chunks the recipe leads to a ciphertext that the key at the same place of  *)
(* the client's key recipe turns into that chunk, whatever the key manager    *)
(* answered, and the key recipe on the server has the same keys beside the    *)
(* same ciphertexts.                                                          *)
CommittedDecryptable ==
    \A c \in Client : committed[c] # NoFile =>
        LET f == committed[c] IN
        /\ recipe[c].head = Len(f) /\ Len(recipe[c].entries) = Len(f)
        /\ Len(localKeys[c]) = Len(f) /\ Len(keyRecipe[c]) = Len(f)
        /\ \A n \in DOMAIN f :
              /\ keyRecipe[c][n].key = localKeys[c][n]
              /\ Holds(recipe[c].entries[n], keyRecipe[c][n].hash)
              /\ Decrypt(keyRecipe[c][n].hash, localKeys[c][n]) = f[n]

(* A restore that ends well, of a file whose upload ended well, has written   *)
(* that file: every message is decrypted with the keys of its own chunks.     *)
RestoredExactly ==
    \A c \in Client : client[c].op = "restored" /\ committed[c] # NoFile
                        => client[c].out = committed[c]

(* How many chunks of f are counted by counter h of row r. *)
Hits(f, r, h) == Cardinality({n \in DOMAIN f : ShortHash[f[n]][r] = h})

(* What counter h of row r may have counted when each client is in one        *)
(* connection: as many elements as the sum over the clients of the hits of    *)
(* that one of their files which has most.                                    *)
Sendings(r, h) == UNION {UNION {{c} \X (1 .. Hits(f, r, h)) : f \in uploaded[c]} : c \in Client}

(* Deduplication survives encryption: a chunk has one ciphertext, and with    *)
(* TED at most one more for every t_ times that the clients sent it, or a     *)
(* chunk with the same word, in one connection each; this holds for every     *)
(* row of the sketch, so that the row with the fewest collisions counts.      *)
(* Every end of a connection resets the sketch: an earlier upload of the same *)
(* client does not count.  The condition is that the key manager served one   *)
(* batch at a time, and none while it cleared the sketch: beside another      *)
(* thread's increment the clearing of a counter can be lost, and an earlier   *)
(* upload then goes on counting.                                              *)
CiphertextsBounded ==
    ~raced => \A p \in Chunk :
        LET distinct == Cardinality({ct \in DOMAIN index : ct.plain = p}) IN
        IF method = "TED"
        THEN \A r \in Row : distinct <= 1 + Cardinality(Sendings(r, ShortHash[p][r])) \div t
        ELSE distinct <= 1

(* An upload ends: the client's closing of its two connections, the last      *)
(* container and the exit of a server or the key manager leave nobody         *)
(* waiting.                                                                   *)
UploadsEnd == \A c \in Client : client[c].op \in Uploading ~> client[c].op = "idle"

(* A restore ends, as Baseline/README.md describes it.                        *)
RestoresEnd == \A c \in Client : client[c].op \in Restoring ~> client[c].op = "idle"
=============================================================================
