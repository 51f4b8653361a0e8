---------------------------- MODULE ServerSession ----------------------------
(***************************************************************************)
(* The sessions of the storage server: the accept loop and the Ctrl-C       *)
(* handler of dbeServer.cc, the thread of ServerOptThread::Run behind every *)
(* connection, the worker thread it starts, and the client of dbeClient.cc  *)
(* at the other end, from the attestation decision and the session key      *)
(* exchange to the close of the connection.  What the worker does with      *)
(* chunk batches and recipe batches is FreqUpload's and Restore's subject.  *)
(***************************************************************************)
EXTENDS Naturals, Sequences, FiniteSets

CONSTANTS
    Conn,       \* the connections
    ClientID,   \* the client IDs
    Path,       \* the recipe paths: hashes of the file name with the client ID
    None,       \* no connection: a free lock, an empty slot
    Setups      \* what the clients ask for, what is stored at the start, and the
                \* bound: which of the clients may die before their session is over

Job == [opt : {"UPLOAD", "DOWNLOAD", "RA"}, client : ClientID, path : Path]

(* The containers of earlier runs are on disk; None stands for one that was  *)
(* lost.  dbeClient.cc:139 hashes the file name followed by the client ID;   *)
(* names are assumed such that two clients never get the same path.          *)
ASSUME SessionAssumption ==
    /\ None \notin Conn
    /\ Setups \subseteq [job : [Conn -> Job], files : SUBSET Path,
                         indexed : SUBSET {None}, mortal : SUBSET Conn]
    /\ \A s \in Setups : \A c, d \in Conn :
          s.job[c].path = s.job[d].path => s.job[c].client = s.job[d].client

Workloads == {s.job : s \in Setups}

VARIABLES
    job,               \* job[c]: chosen by the client of connection c
    server,            \* "running", "closing" (in CTRLC), "stopped" or "exited"
    main,              \* the connection whose thread is not yet in thList
    thList,            \* the connections whose threads CTRLC will join
    thread,            \* thread[c]: where ServerOptThread::Run stands
    worker,            \* worker[c]: the DataReceiver or EnclaveRecvDecoder thread
    recvBuf,           \* recvBuf[c]: the message it received last
    clientLockSetLock, \* the connection that holds it
    clientLock,        \* clientLockIndex_: client ID -> holder of its mutex
    sessionKeyIndex,   \* clientSessionKeyIndex_: client ID -> key
    sgxKey,            \* _sessionKey of the enclave's EnclaveClient
    recipe,            \* the recipe files: path -> [writer, head, refs]
    indexed            \* the sessions whose containers the index leads to
VARIABLES
    client,            \* client[c]: where the client stands
    clientKey,         \* the session key the client derived
    toServer,          \* messages on their way to the server
    toClient,          \* and to the client
    committed,         \* history: the uploads whose recipe was finalised
    mortal             \* the clients that may die

process == <<server, main, thList>>
locks   == <<clientLockSetLock, clientLock>>
keys    == <<sessionKeyIndex, sgxKey>>
store   == <<recipe, indexed>>
wires   == <<toServer, toClient>>
peer    == <<client, clientKey, mortal>>
vars    == <<job, process, thread, worker, recvBuf, locks, keys, store, peer, wires, committed>>

(* The secret both ends derive from one private and one public key. *)
DerivedShared(clientPart, serverPart) == [client |-> clientPart, server |-> serverPart]
NoKey == DerivedShared(None, None)
NoMsg == [type |-> "NONE"]

(* A message of which its sender's death cut off the end. *)
Torn == [type |-> "TORN"]

Init ==
    /\ \E s \in Setups :
          /\ job = s.job /\ indexed = s.indexed /\ mortal = s.mortal
          /\ recipe = [p \in s.files |-> [writer |-> None, head |-> "final", refs |-> s.indexed]]
    /\ server = "running" /\ main = None /\ thList = {}
    /\ thread = [c \in Conn |-> "none"]
    /\ worker = [c \in Conn |-> "none"]
    /\ recvBuf = [c \in Conn |-> NoMsg]
    /\ clientLockSetLock = None /\ clientLock = <<>>
    /\ sessionKeyIndex = <<>>
    /\ sgxKey = [c \in Conn |-> NoKey]
    /\ client = [c \in Conn |-> "none"]
    /\ clientKey = [c \in Conn |-> NoKey]
    /\ toServer = [c \in Conn |-> <<>>]
    /\ toClient = [c \in Conn |-> <<>>]
    /\ committed = {}
-----------------------------------------------------------------------------
Up   == server \in {"running", "closing"}
Over == {"finished", "failed", "crashed"}
Gone == Over \cup {"closing"}

Goto(c, from, to) ==
    /\ Up
    /\ thread[c] = from
    /\ thread' = [thread EXCEPT ![c] = to]

WorkerGoto(c, from, to) ==
    /\ Up
    /\ worker[c] = from
    /\ worker' = [worker EXCEPT ![c] = to]

ClientGoto(c, from, to) ==
    /\ Up
    /\ client[c] = from
    /\ client' = [client EXCEPT ![c] = to]

(* SSLConnection, as both sides use it: messages arrive in order, and a      *)
(* receive fails when the peer is gone and nothing is left to read.  Behind a *)
(* torn message it neither succeeds nor fails: the loop for the body goes on. *)
Sent(box, c, m) == [box EXCEPT ![c] = Append(@, m)]

Receives(box, c, type) ==
    /\ box[c] # <<>> /\ Head(box[c]).type = type
    /\ box' = [box EXCEPT ![c] = Tail(@)]

(* Seeded fault: a close seen before the messages that precede it. *)
ServerReceiveFailsEarly(c) == client[c] \in Gone

ServerReceiveFails(c) == toServer[c] = <<>> /\ client[c] \in Gone

(* ReceiveData answers an orderly close with a close alert of its own. *)
CloseAlert(c) ==
    toClient' = IF client[c] = "closing" THEN Sent(toClient, c, [type |-> "CLOSE"])
                                         ELSE toClient
-----------------------------------------------------------------------------
(* main: ListenSSL and the new thread; then, separately, thList.push_back. *)
Accept(c) ==
    /\ server = "running" /\ main = None
    /\ Goto(c, "none", "ra")
    /\ client' = [client EXCEPT ![c] = "connected"]
    /\ main' = c
    /\ UNCHANGED <<job, server, thList, worker, recvBuf, locks, keys, store,
                   clientKey, mortal, wires, committed>>

PushBack ==
    /\ server = "running" /\ main # None
    /\ thList' = thList \cup {main}
    /\ main' = None
    /\ UNCHANGED <<job, server, thread, worker, recvBuf, locks, keys, store,
                   peer, wires, committed>>

ServerBecomes(status) ==
    /\ server' = status
    /\ UNCHANGED <<job, main, thList, thread, worker, recvBuf, locks, keys, store,
                   peer, wires, committed>>

(* SIGINT interrupts main wherever it is; CTRLC joins the listed threads,    *)
(* destroys the server's objects and exits.                                  *)
Interrupt == server = "running" /\ ServerBecomes("closing")

(* Seeded fault: the handler does not wait for the sessions. *)
StopUnjoined == server = "closing" /\ ServerBecomes("stopped")

Stop ==
    /\ server = "closing"
    /\ \A c \in thList : thread[c] = "returned"
    /\ ServerBecomes("stopped")

-----------------------------------------------------------------------------
(* ServerOptThread::Run, in a build without SGX attestation. *)
ReceiveRA(c) ==
    /\ \/ Goto(c, "ra", "keyInit") /\ Receives(toServer, c, "SGX_RA_NOT_NEED")
       \/ Goto(c, "ra", "waitClose") /\ Receives(toServer, c, "SGX_RA_NOT_SUPPORT")
    /\ UNCHANGED <<job, process, worker, recvBuf, locks, keys, store, peer,
                   toClient, committed>>

ReceiveKeyInit(c) ==
    /\ Goto(c, "keyInit", "setLock")
    /\ Receives(toServer, c, "SESSION_KEY_INIT")
    /\ recvBuf' = [recvBuf EXCEPT ![c] = Head(toServer[c])]
    /\ UNCHANGED <<job, process, worker, locks, keys, store, peer, toClient, committed>>

(* The clientID in the headers of the connection's messages. *)
Id(c) == job[c].client

(* lock_guard on clientLockSetLock_ ... *)
LockSet(c) ==
    /\ Goto(c, "setLock", "clientLock")
    /\ clientLockSetLock = None
    /\ clientLockSetLock' = c
    /\ UNCHANGED <<job, process, worker, recvBuf, clientLock, keys, store, peer,
                   wires, committed>>

Owned(c) == [id \in DOMAIN clientLock \cup {Id(c)} |->
                IF id = Id(c) THEN c ELSE clientLock[id]]

(* Seeded fault: a mutex made anew for every session. *)
LockClientNewMutex(c) ==
    /\ Goto(c, "clientLock", "exchange")
    /\ clientLock' = Owned(c)
    /\ clientLockSetLock' = None
    /\ UNCHANGED <<job, process, worker, recvBuf, keys, store, peer, wires, committed>>

(* ... held until the mutex of this client, made if it is new, is locked. *)
LockClient(c) ==
    /\ Goto(c, "clientLock", "exchange")
    /\ Id(c) \in DOMAIN clientLock => clientLock[Id(c)] = None
    /\ clientLock' = Owned(c)
    /\ clientLockSetLock' = None
    /\ UNCHANGED <<job, process, worker, recvBuf, keys, store, peer, wires, committed>>

Unlock(c) == clientLock' = [clientLock EXCEPT ![Id(c)] = None]

(* Seeded fault: the client's mutex covers the key exchange only. *)
ExchangeKeysUnlock(c) ==
    /\ Goto(c, "exchange", "login")
    /\ sessionKeyIndex' = [id \in DOMAIN sessionKeyIndex \cup {Id(c)} |->
                             IF id = Id(c) THEN DerivedShared(recvBuf[c].part, c)
                                                         ELSE sessionKeyIndex[id]]
    /\ toClient' = Sent(toClient, c, [type |-> "SESSION_KEY_REPLY", part |-> c])
    /\ Unlock(c)
    /\ UNCHANGED <<job, process, worker, recvBuf, clientLockSetLock, sgxKey, store, peer,
                   toServer, committed>>

(* Ecall_Session_Key_Exchange draws the server's part and enters the key     *)
(* for the client ID; the part goes back to the client.                      *)
ExchangeKeys(c) ==
    /\ Goto(c, "exchange", "login")
    /\ sessionKeyIndex' = [id \in DOMAIN sessionKeyIndex \cup {Id(c)} |->
                             IF id = Id(c) THEN DerivedShared(recvBuf[c].part, c)
                                                         ELSE sessionKeyIndex[id]]
    /\ toClient' = Sent(toClient, c, [type |-> "SESSION_KEY_REPLY", part |-> c])
    /\ UNCHANGED <<job, process, worker, recvBuf, locks, sgxKey, store, peer,
                   toServer, committed>>

(* The login, and CheckFileStatus: only a restore can be refused. *)
ReceiveLogin(c) ==
    /\ \/ /\ Goto(c, "login", "initClient")
          /\ Receives(toServer, c, "CLIENT_LOGIN_UPLOAD")
       \/ /\ Receives(toServer, c, "CLIENT_LOGIN_DOWNLOAD")
          /\ Goto(c, "login", IF Head(toServer[c]).path \in DOMAIN recipe
                              THEN "initClient" ELSE "refuse")
    /\ recvBuf' = [recvBuf EXCEPT ![c] = Head(toServer[c])]
    /\ UNCHANGED <<job, process, worker, locks, keys, store, peer, toClient, committed>>

Refuse(c) ==
    /\ Goto(c, "refuse", "refused")
    /\ toClient' = Sent(toClient, c, [type |-> "SERVER_FILE_NON_EXIST"])
    /\ UNCHANGED <<job, process, worker, recvBuf, locks, keys, store, peer,
                   toServer, committed>>

(* Seeded fault: the refusal returns with the client's mutex locked. *)
ClientClosedLocked(c) ==
    /\ ServerReceiveFails(c)
    /\ Goto(c, "waitClose", "returned") \/ Goto(c, "refused", "returned")
    /\ CloseAlert(c)
    /\ UNCHANGED <<job, process, worker, recvBuf, locks, keys, store, peer, toServer, committed>>

(* The early returns: after an attestation request or a refused restore. *)
ClientClosed(c) ==
    /\ ServerReceiveFails(c)
    /\ \/ Goto(c, "waitClose", "returned") /\ UNCHANGED clientLock
       \/ Goto(c, "refused", "returned") /\ Unlock(c)
    /\ CloseAlert(c)
    /\ UNCHANGED <<job, process, worker, recvBuf, clientLockSetLock, keys, store, peer,
                   toServer, committed>>

Written(c, head, refs) == [p \in DOMAIN recipe \cup {job[c].path} |->
    IF p = job[c].path THEN [writer |-> c, head |-> head, refs |-> refs] ELSE recipe[p]]

(* ClientVar truncates the recipe of an upload and writes a virtual head, or *)
(* opens the recipe of a restore; Ecall_Init_Client looks the session key up *)
(* by client ID; the worker starts.                                          *)
InitClient(c) ==
    /\ Goto(c, "initClient", "respond")
    /\ sgxKey' = [sgxKey EXCEPT ![c] = sessionKeyIndex[Id(c)]]
    /\ \/ /\ job[c].opt = "UPLOAD"
          /\ recipe' = Written(c, "virtual", {})
          /\ WorkerGoto(c, "none", "receiving")
       \/ /\ job[c].opt = "DOWNLOAD"
          /\ job[c].path \in DOMAIN recipe
          /\ WorkerGoto(c, "none", "waitReady")
          /\ UNCHANGED recipe
    /\ UNCHANGED <<job, process, recvBuf, locks, sessionKeyIndex, indexed, peer, wires, committed>>

Respond(c) ==
    /\ Goto(c, "respond", "join")
    /\ toClient' = Sent(toClient, c, [type |-> "SERVER_LOGIN_RESPONSE"])
    /\ UNCHANGED <<job, process, worker, recvBuf, locks, keys, store, peer, toServer, committed>>

(* Join the worker, destroy both client variables, unlock. *)
Return(c) ==
    /\ Goto(c, "join", "returned")
    /\ worker[c] = "ended"
    /\ Unlock(c)
    /\ UNCHANGED <<job, process, worker, recvBuf, clientLockSetLock, keys, store, peer,
                   wires, committed>>

(* exit(EXIT_FAILURE) ends the whole server: a receive that fails during the *)
(* handshake, or a send to a client that is gone.                            *)
ThreadExit(c) ==
    /\ Up
    /\ \/ thread[c] \in {"ra", "keyInit", "login"} /\ ServerReceiveFails(c)
       \/ thread[c] \in {"exchange", "refuse", "respond"} /\ client[c] \in Gone
    /\ ServerBecomes("exited")
-----------------------------------------------------------------------------
(* DataReceiver::Run: the chunks of a batch are in containers of the session, *)
(* or in those of other sessions, open ones too, if the index knows them: the *)
(* recipe may lead to any of these.  One batch stands for all of an upload.   *)
ProcessBatch(c) ==
    /\ WorkerGoto(c, "receiving", "receiving")
    /\ Receives(toServer, c, "CLIENT_UPLOAD_CHUNK")
    /\ indexed' = indexed \cup {c}
    /\ recipe' = [recipe EXCEPT ![job[c].path].refs = indexed']
    /\ UNCHANGED <<job, process, thread, recvBuf, locks, keys, peer, toClient, committed>>

(* It finalises the recipe, and ends when the client closes. *)
FinalizeRecipe(c) ==
    /\ WorkerGoto(c, "receiving", "receiving")
    /\ Receives(toServer, c, "CLIENT_UPLOAD_RECIPE_END")
    /\ recipe' = Written(c, "final", recipe[job[c].path].refs)
    /\ committed' = committed \cup {c}
    /\ UNCHANGED <<job, process, thread, recvBuf, locks, keys, indexed, peer, toClient>>

WorkerEnds(c) ==
    /\ ServerReceiveFails(c)
    /\ WorkerGoto(c, "receiving", "ended") \/ WorkerGoto(c, "lastWait", "ended")
    /\ CloseAlert(c)
    /\ UNCHANGED <<job, process, thread, recvBuf, locks, keys, store, peer, toServer, committed>>

(* EnclaveRecvDecoder::Run. *)
RestoreReady(c) ==
    /\ WorkerGoto(c, "waitReady", "sending")
    /\ Receives(toServer, c, "CLIENT_RESTORE_READY")
    /\ UNCHANGED <<job, process, thread, recvBuf, locks, keys, store, peer, toClient, committed>>

RestoreFinal(c) ==
    /\ WorkerGoto(c, "sending", "lastWait")
    /\ toClient' = Sent(toClient, c, [type |-> "SERVER_RESTORE_FINAL"])
    /\ UNCHANGED <<job, process, thread, recvBuf, locks, keys, store, peer, toServer, committed>>

(* All containers of a session are on disk: it has ended, and the recipe end *)
(* came, without which the last container is dropped.                        *)
Kept(w) == w \in committed /\ thread[w] = "returned"

(* Seeded fault: the receiver, too, treats a failed receive as fatal. *)
WorkerExitAlways(c) ==
    /\ Up
    /\ \/ worker[c] \in {"waitReady", "receiving"} /\ ServerReceiveFails(c)
       \/ worker[c] = "sending" /\ client[c] \in Gone
       \/ worker[c] = "sending" /\ \E w \in recipe[job[c].path].refs : ~ Kept(w)
    /\ ServerBecomes("exited")

(* The decoder exits as well when its client is gone before the last chunk,  *)
(* and when the recipe leads to a container that it cannot open.             *)
WorkerExit(c) ==
    /\ Up
    /\ \/ worker[c] = "waitReady" /\ ServerReceiveFails(c)
       \/ worker[c] = "sending" /\ client[c] \in Gone
       \/ worker[c] = "sending" /\ \E w \in recipe[job[c].path].refs : ~ Kept(w)
    /\ ServerBecomes("exited")

Thread(c) ==
    \/ ReceiveRA(c) \/ ReceiveKeyInit(c) \/ LockSet(c) \/ LockClient(c)
    \/ ExchangeKeys(c) \/ ReceiveLogin(c) \/ Refuse(c) \/ ClientClosed(c)
    \/ InitClient(c) \/ Respond(c) \/ Return(c) \/ ThreadExit(c)

Worker(c) ==
    \/ ProcessBatch(c) \/ FinalizeRecipe(c) \/ WorkerEnds(c)
    \/ RestoreReady(c) \/ RestoreFinal(c) \/ WorkerExit(c)
-----------------------------------------------------------------------------
(* The client: dbeClient.cc, SessionKeyExchange, DataSender, DataRetriever.  *)
ClientSends(c, from, to, msgs) ==
    /\ ClientGoto(c, from, to)
    /\ toServer' = [toServer EXCEPT ![c] = @ \o msgs]

ServerSide == <<job, process, thread, worker, recvBuf, locks, keys, store, committed>>

(* The attestation decision; GeneratingSecret sends its part right after it. *)
SendRADecision(c) ==
    /\ \/ /\ job[c].opt # "RA"
          /\ ClientSends(c, "connected", "keyReply",
                <<[type |-> "SGX_RA_NOT_NEED"], [type |-> "SESSION_KEY_INIT", part |-> c]>>)
       \/ /\ job[c].opt = "RA"
          /\ ClientSends(c, "connected", "closing", <<[type |-> "SGX_RA_NOT_SUPPORT"]>>)
    /\ UNCHANGED <<ServerSide, clientKey, mortal, toClient>>

(* The client derives its key from the server's part and logs in. *)
SendLogin(c) ==
    /\ client[c] = "keyReply"
    /\ Receives(toClient, c, "SESSION_KEY_REPLY")
    /\ clientKey' = [clientKey EXCEPT ![c] = DerivedShared(c, Head(toClient[c]).part)]
    /\ ClientSends(c, "keyReply", "login",
          <<[type |-> IF job[c].opt = "UPLOAD" THEN "CLIENT_LOGIN_UPLOAD"
                                               ELSE "CLIENT_LOGIN_DOWNLOAD",
             path |-> job[c].path]>>)
    /\ UNCHANGED <<ServerSide, mortal>>

ReceiveLoginReply(c) ==
    /\ \/ /\ ClientGoto(c, "login", IF job[c].opt = "UPLOAD" THEN "upload" ELSE "restore")
          /\ Receives(toClient, c, "SERVER_LOGIN_RESPONSE")
       \/ /\ ClientGoto(c, "login", "failed")
          /\ Receives(toClient, c, "SERVER_FILE_NON_EXIST")
    /\ UNCHANGED <<ServerSide, clientKey, mortal, toServer>>

(* DataSender: the chunk batches, ProcessRecipeEnd, and Finish: a close alert *)
(* to the server, and a wait for the server's.                                *)
SendRecipeEnd(c) ==
    /\ ClientSends(c, "upload", "closing",
          <<[type |-> "CLIENT_UPLOAD_CHUNK"], [type |-> "CLIENT_UPLOAD_RECIPE_END"]>>)
    /\ UNCHANGED <<ServerSide, clientKey, mortal, toClient>>

(* DataRetriever::Run. *)
SendRestoreReady(c) ==
    /\ ClientSends(c, "restore", "receive", <<[type |-> "CLIENT_RESTORE_READY"]>>)
    /\ UNCHANGED <<ServerSide, clientKey, mortal, toClient>>

ReceiveRestoreFinal(c) ==
    /\ ClientGoto(c, "receive", "closing")
    /\ Receives(toClient, c, "SERVER_RESTORE_FINAL")
    /\ UNCHANGED <<ServerSide, clientKey, mortal, toServer>>

Finished(c) ==
    /\ ClientGoto(c, "closing", "finished")
    /\ Receives(toClient, c, "CLOSE")
    /\ UNCHANGED <<ServerSide, clientKey, mortal, toServer>>

(* Every send and receive of a client whose server is gone ends in exit; no   *)
(* one is left to see in which order the clients notice.                      *)
Live == {c \in Conn : client[c] \notin Over \cup {"none"}}

ClientsFail ==
    /\ ~Up /\ Live # {}
    /\ client' = [c \in Conn |-> IF c \in Live THEN "failed" ELSE client[c]]
    /\ UNCHANGED <<ServerSide, clientKey, mortal, wires>>

(* The client may be within the sending of its next message. *)
MaySend(c) == \/ client[c] \in {"connected", "upload", "restore"}
              \/ client[c] = "keyReply" /\ toClient[c] # <<>>

(* The client's process dies, and with it what the server has not read yet,  *)
(* or the end of it, be it between two messages or within one.               *)
Crash(c) ==
    /\ Up /\ c \in Live \cap mortal
    /\ client' = [client EXCEPT ![c] = "crashed"]
    /\ \E n \in 0 .. Len(toServer[c]) :
          \/ toServer' = [toServer EXCEPT ![c] = SubSeq(@, 1, n)]
          \/ /\ n < Len(toServer[c]) \/ MaySend(c)
             /\ toServer' = [toServer EXCEPT ![c] = Append(SubSeq(@, 1, n), Torn)]
    /\ mortal' = mortal \ {c}
    /\ UNCHANGED <<ServerSide, clientKey, toClient>>

Client(c) ==
    \/ SendRADecision(c) \/ SendLogin(c) \/ ReceiveLoginReply(c)
    \/ SendRecipeEnd(c) \/ SendRestoreReady(c) \/ ReceiveRestoreFinal(c)
    \/ Finished(c)
-----------------------------------------------------------------------------
Next ==
    \/ PushBack \/ Interrupt \/ Stop \/ ClientsFail
    \/ \E c \in Conn : \/ Accept(c) \/ Crash(c)
                       \/ Thread(c) \/ Worker(c) \/ Client(c)

(* A send to a client that died may fail, may end in a buffer, or may fail   *)
(* after the length was written, and then the loop for the body goes on.     *)
SendSpins(c) == /\ client[c] = "crashed"
                /\ thread[c] \in {"exchange", "refuse", "respond"} \/ worker[c] = "sending"

(* Threads run, unless they spin, and clients that do not die keep going.    *)
Fairness == \A c \in Conn :
    /\ WF_vars(Thread(c) /\ ~ (SendSpins(c) /\ thread[c] \in {"exchange", "refuse", "respond"}))
    /\ WF_vars(Worker(c) /\ ~ (SendSpins(c) /\ worker[c] = "sending"))
    /\ WF_vars(Client(c))

Spec == Init /\ [][Next]_vars
FairSpec == Spec /\ Fairness
-----------------------------------------------------------------------------
Serving(c) == thread[c] \in {"respond", "join"}

Message == [type : {"SGX_RA_NOT_NEED", "SGX_RA_NOT_SUPPORT", "CLIENT_UPLOAD_CHUNK",
                    "CLIENT_UPLOAD_RECIPE_END", "TORN", "CLIENT_RESTORE_READY",
                    "SERVER_FILE_NON_EXIST", "SERVER_LOGIN_RESPONSE",
                    "SERVER_RESTORE_FINAL", "CLOSE", "NONE"}]
      \cup [type : {"SESSION_KEY_INIT", "SESSION_KEY_REPLY"}, part : Conn]
      \cup [type : {"CLIENT_LOGIN_UPLOAD", "CLIENT_LOGIN_DOWNLOAD"}, path : Path]
Key    == [client : Conn \cup {None}, server : Conn \cup {None}]
Recipe == [writer : Conn \cup {None}, head : {"virtual", "final"},
           refs : SUBSET (Conn \cup {None})]

(* Every variable has the type its code declares: locks are held by          *)
(* connections, the indexes are keyed by client ID, the recipes by path.     *)
TypeOK ==
    /\ job \in Workloads
    /\ server \in {"running", "closing", "stopped", "exited"}
    /\ main \in Conn \cup {None} /\ thList \subseteq Conn
    /\ thread \in [Conn -> {"none", "ra", "waitClose", "keyInit", "setLock", "clientLock",
          "exchange", "login", "refuse", "refused", "initClient", "respond", "join", "returned"}]
    /\ worker \in [Conn -> {"none", "receiving", "waitReady", "sending", "lastWait", "ended"}]
    /\ recvBuf \in [Conn -> Message]
    /\ clientLockSetLock \in Conn \cup {None}
    /\ DOMAIN clientLock \subseteq ClientID
    /\ \A id \in DOMAIN clientLock : clientLock[id] \in Conn \cup {None}
    /\ DOMAIN sessionKeyIndex \subseteq ClientID
    /\ \A id \in DOMAIN sessionKeyIndex : sessionKeyIndex[id] \in Key
    /\ sgxKey \in [Conn -> Key]
    /\ DOMAIN recipe \subseteq Path
    /\ \A p \in DOMAIN recipe : recipe[p] \in Recipe
    /\ indexed \subseteq Conn \cup {None}
    /\ client \in [Conn -> {"none", "connected", "keyReply", "login", "upload",
          "restore", "receive", "closing", "finished", "failed", "crashed"}]
    /\ clientKey \in [Conn -> Key]
    /\ toServer \in [Conn -> Seq(Message)]
    /\ toClient \in [Conn -> Seq(Message)]
    /\ committed \subseteq Conn
    /\ mortal \subseteq Conn

(* The key the enclave uses in a session is the key its client derived, even *)
(* when another connection logs in under the same client ID: the key index   *)
(* has one slot per ID (storeECall.cc:137), and a wrong key would make the   *)
(* master key, and with it the recipe, unreadable.                           *)
SessionKeyAgreed == \A c \in Conn : Serving(c) => sgxKey[c] = clientKey[c]

(* A recipe is left without its head (clientVar.cc:108) only while it is     *)
(* being uploaded or when the upload was cut short: its client died, the     *)
(* server exited, or Ctrl-C came before main had listed the thread.          *)
PartialExplained ==
    \A p \in DOMAIN recipe : recipe[p].head = "virtual" =>
        LET w == recipe[p].writer IN
        \/ Up /\ Serving(w)
        \/ client[w] = "crashed"
        \/ server = "exited"
        \/ server = "stopped" /\ main = w

(* A client whose upload returns from Finish has its recipe finalised: the   *)
(* server's close alert is sent after everything before it was processed.    *)
FinishedMeansCommitted ==
    \A c \in Conn : client[c] = "finished" /\ job[c].opt = "UPLOAD" => c \in committed

(* The server goes down by itself only when a client dies in its handshake   *)
(* or in a restore, or when a restore needs a container that is not on disk: *)
(* one of an upload that still goes on, that its client's death cut short,   *)
(* or that an earlier run of the server lost.                                *)
ExitExplained ==
    server = "exited" => \E c \in Conn :
        \/ /\ client[c] = "crashed"
           /\ \/ thread[c] \in {"ra", "keyInit", "exchange", "login", "refuse", "respond"}
              \/ worker[c] \in {"waitReady", "sending"}
        \/ /\ worker[c] = "sending"
           /\ \E w \in recipe[job[c].path].refs :
                 w = None \/ Serving(w) \/ client[w] = "crashed"

(* Locks, threads and messages implement sessions that exclude each other    *)
(* per client: an upload never overlaps another session of its client.       *)
FS == INSTANCE FileSessions WITH
    Sessions <- Conn,
    Files    <- Path,
    open     <- {c \in Conn : Up /\ Serving(c)},
    file     <- [p \in Path |-> IF p \notin DOMAIN recipe THEN "absent"
                                ELSE IF recipe[p].head = "virtual" THEN "partial"
                                ELSE "complete"]

ImplementsFileSessions == FS!Spec

(* The thread or the worker of a client that died is in an endless send, or  *)
(* will not get past what the client sent last.                              *)
Stuck(c) ==
    SendSpins(c) \/ (toServer[c] # <<>> /\ toServer[c][Len(toServer[c])] = Torn)

(* No connection waits for ever, whoever holds which lock: once sessions are *)
(* accepted, a time comes when all have ended, or the server has, unless     *)
(* a thread is stuck for good.  Even then those end that got their lock.     *)
Settled == ~Up \/ \A c \in Conn : thread[c] \in {"none", "returned"}
EverySessionEnds ==
    /\ (\A c \in Conn : []<>(~ Stuck(c))) => ((\E c \in Conn : thread[c] = "ra") ~> Settled)
    /\ \A c \in Conn : []<>(~ Stuck(c)) =>
          (thread[c] = "exchange" ~> ~Up \/ thread[c] = "returned")
=============================================================================
