------------------------- MODULE ServerSessionProofs -------------------------
(***************************************************************************)
(* Proofs about ServerSession, for any connections, client IDs, paths,      *)
(* workloads and dying clients: its type invariant, the four     *)
(* safety invariants of its run, mutual exclusion of the sessions of a      *)
(* client, and the refinement of FileSessions.                              *)
(***************************************************************************)
EXTENDS ServerSession, TLAPS

(* The messages of a sequence, in no order. *)
Mail(s) == {s[i] : i \in DOMAIN s}

(* From LockClient to the unlock of Return or ClientClosed. *)
Holds(c) == thread[c] \in {"exchange", "login", "refuse", "refused", "initClient",
                           "respond", "join"}

(* A session that is past the key exchange. *)
Exchanged(c) == Holds(c) /\ thread[c] # "exchange"

(* A session that holds its client's mutex is the owner the index names.     *)
Locked(c) == Holds(c) => Id(c) \in DOMAIN clientLock /\ clientLock[Id(c)] = c

(* Both parts of a key come from one connection: in the message received, in *)
(* the slot of the index while the mutex is held, and in the enclave.        *)
KeyOf(c) == DerivedShared(c, c)

Keyed(c) ==
    /\ thread[c] \in {"setLock", "clientLock", "exchange"} => recvBuf[c].part = c
    /\ Exchanged(c) => /\ Id(c) \in DOMAIN sessionKeyIndex
                       /\ sessionKeyIndex[Id(c)] = KeyOf(c)
    /\ Exchanged(c) /\ thread[c] # "login" => clientKey[c] = KeyOf(c)
    /\ Serving(c) => sgxKey[c] = KeyOf(c)

(* What a session does is what its client asked for. *)
Asked(c) ==
    /\ thread[c] = "waitClose" => job[c].opt = "RA"
    /\ thread[c] = "ra" /\ client[c] = "closing" => job[c].opt = "RA"
    /\ thread[c] \in {"keyInit", "setLock", "clientLock"} \/ Holds(c) => job[c].opt # "RA"
    /\ thread[c] \in {"refuse", "refused"} => job[c].opt = "DOWNLOAD"
    /\ client[c] \in {"keyReply", "login", "upload", "restore", "receive"} => job[c].opt # "RA"
    /\ worker[c] = "receiving" => job[c].opt = "UPLOAD"
    /\ worker[c] \in {"waitReady", "sending", "lastWait"} => job[c].opt = "DOWNLOAD"

(* A worker runs between InitClient and the join. *)
Attended(c) ==
    /\ ~ Serving(c) => worker[c] \in {"none", "ended"}
    /\ Serving(c) => worker[c] # "none"
    /\ worker[c] = "ended" => thread[c] \in {"respond", "join", "returned"}

(* Where the client can be, seen from the server, while the server is up. *)
Abreast(c) == Up =>
    /\ thread[c] = "none" => client[c] = "none"
    /\ thread[c] = "ra" => client[c] \in {"connected", "keyReply", "closing", "crashed"}
    /\ thread[c] = "waitClose" => client[c] \in {"closing", "crashed"}
    /\ thread[c] \in {"keyInit", "setLock", "clientLock", "exchange"}
          => client[c] \in {"keyReply", "crashed"}
    /\ thread[c] = "login" => client[c] \in {"keyReply", "login", "crashed"}
    /\ thread[c] \in {"refuse", "initClient", "respond"} => client[c] \in {"login", "crashed"}
    /\ thread[c] = "refused" => client[c] \in {"login", "failed", "crashed"}
    /\ thread[c] = "returned" => client[c] \in Gone
    /\ worker[c] = "receiving" => client[c] \in {"login", "upload", "closing", "crashed"}
    /\ worker[c] = "waitReady" => client[c] \in {"login", "restore", "receive", "crashed"}
    /\ worker[c] = "sending" => client[c] \in {"receive", "crashed"}
    /\ worker[c] = "lastWait" => client[c] \in {"receive", "closing", "crashed"}
    /\ worker[c] = "ended" => client[c] \in {"closing", "finished", "crashed"}

(* A message on its way says something that stays true until it is read. *)
Announced(c) == \A m \in Mail(toServer[c]) :
    /\ m.type = "SGX_RA_NOT_NEED" => job[c].opt # "RA"
    /\ m.type = "SGX_RA_NOT_SUPPORT" => job[c].opt = "RA"
    /\ m.type = "SESSION_KEY_INIT" => m.part = c
    /\ m.type \in {"CLIENT_LOGIN_UPLOAD", "CLIENT_LOGIN_DOWNLOAD"} =>
          /\ clientKey[c] = KeyOf(c)
          /\ client[c] \notin {"none", "connected", "keyReply"}
    /\ m.type = "CLIENT_LOGIN_DOWNLOAD" => job[c].opt = "DOWNLOAD"
    /\ m.type = "CLIENT_RESTORE_READY" =>
          client[c] \notin {"none", "connected", "keyReply", "login", "restore"}

Answered(c) == \A m \in Mail(toClient[c]) :
    /\ m.type = "SESSION_KEY_REPLY" =>
          m.part = c /\ (Exchanged(c) \/ thread[c] = "returned")
    /\ m.type = "SERVER_LOGIN_RESPONSE" => thread[c] \in {"join", "returned"}
    /\ m.type = "SERVER_FILE_NON_EXIST" =>
          thread[c] \in {"refused", "returned"} /\ worker[c] = "none"
    /\ m.type = "SERVER_RESTORE_FINAL" => worker[c] \in {"lastWait", "ended"}
    /\ m.type = "CLOSE" => /\ thread[c] = "returned" \/ worker[c] = "ended"
                           /\ job[c].opt = "UPLOAD" => c \in committed

(* Nothing is sent before the connection is up, and what a client sent last  *)
(* before it closed is still there if the server has not acted on it.        *)
Unread(c) ==
    /\ client[c] \in {"none", "connected"} => toServer[c] = <<>>
    /\ thread[c] = "ra" /\ client[c] = "closing" => toServer[c] # <<>>
    /\ worker[c] = "receiving" /\ client[c] = "closing" =>
          c \in committed \/ [type |-> "CLIENT_UPLOAD_RECIPE_END"] \in Mail(toServer[c])

Decided(c) ==
    /\ c \in committed => worker[c] \in {"receiving", "ended"}
    /\ worker[c] = "ended" /\ job[c].opt = "UPLOAD" =>
          c \in committed \/ client[c] = "crashed"
    /\ client[c] = "finished" /\ job[c].opt = "UPLOAD" => c \in committed

(* CTRLC joins every thread but the one main has not listed yet. *)
Listed(c) == thread[c] # "none" => c \in thList \/ main = c

SessionOK(c) ==
    /\ Locked(c) /\ Keyed(c) /\ Asked(c) /\ Attended(c) /\ Abreast(c)
    /\ Announced(c) /\ Answered(c) /\ Unread(c) /\ Decided(c) /\ Listed(c)

(* A recipe without its head is the work of an upload that has not committed. *)
Unfinished ==
    \A p \in DOMAIN recipe : recipe[p].head = "virtual" =>
        LET w == recipe[p].writer IN
        /\ w \in Conn \ committed
        /\ job[w].opt = "UPLOAD" /\ job[w].path = p
        /\ worker[w] # "none"

(* What recipes lead to is what uploads have put into the index, or what was *)
(* there at the start; a session that has a worker has a recipe.             *)
Traced ==
    /\ \A p \in DOMAIN recipe : recipe[p].refs \subseteq indexed
    /\ \A w \in indexed \ {None} : job[w].opt = "UPLOAD" /\ worker[w] # "none"
    /\ \A c \in Conn : worker[c] # "none" => job[c].path \in DOMAIN recipe

RecipesOK == Unfinished /\ Traced /\ PartialExplained /\ ExitExplained

Inv ==
    /\ TypeOK
    /\ \A c \in Conn : SessionOK(c)
    /\ RecipesOK
-----------------------------------------------------------------------------
(* Sequences of messages.                                                    *)
LEMMA MailOfAppend ==
    ASSUME NEW S, NEW s \in Seq(S), NEW m \in S
    PROVE  /\ Append(s, m) \in Seq(S) /\ Append(s, m) # <<>>
           /\ Mail(Append(s, m)) = Mail(s) \cup {m}
<1>1. Append(s, m) \in Seq(S) /\ Len(Append(s, m)) = Len(s) + 1
    OBVIOUS
<1>2. \A i \in 1 .. Len(s) : Append(s, m)[i] = s[i]
    OBVIOUS
<1>3. Append(s, m)[Len(s) + 1] = m
    OBVIOUS
<1>4. DOMAIN s = 1 .. Len(s) /\ DOMAIN Append(s, m) = 1 .. (Len(s) + 1) /\ Len(s) \in Nat
    BY <1>1
<1>5. Mail(Append(s, m)) \subseteq Mail(s) \cup {m}
    BY <1>2, <1>3, <1>4 DEF Mail
<1>6. Mail(s) \subseteq Mail(Append(s, m)) /\ m \in Mail(Append(s, m))
    BY <1>2, <1>3, <1>4 DEF Mail
<1> QED
    BY <1>1, <1>4, <1>5, <1>6

LEMMA MailOfTail ==
    ASSUME NEW S, NEW s \in Seq(S), s # <<>>
    PROVE  /\ Tail(s) \in Seq(S) /\ Mail(Tail(s)) \subseteq Mail(s)
           /\ Head(s) \in S /\ Head(s) \in Mail(s)
           /\ Mail(s) \subseteq {Head(s)} \cup Mail(Tail(s))
<1>1. Tail(s) \in Seq(S) /\ Len(Tail(s)) = Len(s) - 1 /\ Len(s) \in Nat \ {0}
    OBVIOUS
<1>2. \A i \in 1 .. Len(s) - 1 : Tail(s)[i] = s[i + 1]
    OBVIOUS
<1>3. DOMAIN s = 1 .. Len(s) /\ DOMAIN Tail(s) = 1 .. (Len(s) - 1)
    BY <1>1
<1>4. Mail(Tail(s)) \subseteq Mail(s)
    BY <1>1, <1>2, <1>3 DEF Mail
<1>5. Head(s) = s[1] /\ 1 \in DOMAIN s
    BY <1>1, <1>3
<1>6. ASSUME NEW i \in DOMAIN s, i # 1 PROVE s[i] \in Mail(Tail(s))
    <2>1. i - 1 \in DOMAIN Tail(s) /\ Tail(s)[i - 1] = s[i]
        BY <1>1, <1>2, <1>3, <1>6
    <2> QED
        BY <2>1 DEF Mail
<1>7. Mail(s) \subseteq {Head(s)} \cup Mail(Tail(s))
    BY <1>5, <1>6 DEF Mail
<1> QED
    BY <1>1, <1>4, <1>5, <1>7 DEF Mail

LEMMA MailOfPrefix ==
    ASSUME NEW S, NEW s \in Seq(S), NEW n \in 0 .. Len(s)
    PROVE  SubSeq(s, 1, n) \in Seq(S) /\ Mail(SubSeq(s, 1, n)) \subseteq Mail(s)
<1>1. SubSeq(s, 1, n) \in Seq(S) /\ Len(SubSeq(s, 1, n)) = n
    OBVIOUS
<1>2. \A i \in 1 .. n : SubSeq(s, 1, n)[i] = s[i]
    OBVIOUS
<1>3. DOMAIN s = 1 .. Len(s) /\ DOMAIN SubSeq(s, 1, n) = 1 .. n
    BY <1>1
<1> QED
    BY <1>1, <1>2, <1>3 DEF Mail

(* Appending, as ClientSends does, one message or two. *)
LEMMA MailOfOne ==
    ASSUME NEW S, NEW s \in Seq(S), NEW m \in S
    PROVE  s \o <<m>> = Append(s, m)
    OBVIOUS

LEMMA MailOfTwo ==
    ASSUME NEW S, NEW s \in Seq(S), NEW m \in S, NEW n \in S
    PROVE  s \o <<m, n>> = Append(Append(s, m), n)
    OBVIOUS

Wires == [Conn -> Seq(Message)]

LEMMA WireSent ==
    ASSUME NEW box \in Wires, NEW c \in Conn, NEW m \in Message
    PROVE  /\ Sent(box, c, m) \in Wires
           /\ \A d \in Conn \ {c} : Sent(box, c, m)[d] = box[d]
           /\ Mail(Sent(box, c, m)[c]) = Mail(box[c]) \cup {m}
           /\ Sent(box, c, m)[c] # <<>>
BY MailOfAppend DEF Sent, Wires

(* What is left of the messages after a receive. *)
LEMMA WireReceived ==
    ASSUME NEW box \in Wires, NEW c \in Conn, box[c] # <<>>,
           NEW rest, rest = [box EXCEPT ![c] = Tail(@)]
    PROVE  /\ rest \in Wires
           /\ \A d \in Conn \ {c} : rest[d] = box[d]
           /\ Mail(rest[c]) \subseteq Mail(box[c])
           /\ Head(box[c]) \in Message /\ Head(box[c]) \in Mail(box[c])
BY MailOfTail DEF Wires

LEMMA WireKeeps ==
    ASSUME NEW box \in Wires, NEW c \in Conn, box[c] # <<>>,
           NEW rest, rest = [box EXCEPT ![c] = Tail(@)]
    PROVE  Mail(box[c]) \subseteq {Head(box[c])} \cup Mail(rest[c])
BY MailOfTail DEF Wires
-----------------------------------------------------------------------------
(* What a step leaves alone: a session no variable of which it changes. *)
SameSession(d) ==
    /\ thread'[d] = thread[d] /\ worker'[d] = worker[d] /\ recvBuf'[d] = recvBuf[d]
    /\ sgxKey'[d] = sgxKey[d] /\ client'[d] = client[d] /\ clientKey'[d] = clientKey[d]
    /\ toServer'[d] = toServer[d] /\ toClient'[d] = toClient[d]
    /\ d \in committed' <=> d \in committed

(* What no step does: change a job, start the server again, forget a thread, *)
(* or touch the mutex and the key slot of a session that holds its mutex.    *)
Steady(d) ==
    /\ job' = job
    /\ Up' => Up
    /\ thList \subseteq thList'
    /\ main = d => main' = d \/ d \in thList'
    /\ Holds(d) => /\ Id(d) \in DOMAIN clientLock'
                   /\ clientLock'[Id(d)] = clientLock[Id(d)]
    /\ Exchanged(d) => /\ Id(d) \in DOMAIN sessionKeyIndex'
                       /\ sessionKeyIndex'[Id(d)] = sessionKeyIndex[Id(d)]

LEMMA Untouched ==
    ASSUME NEW d \in Conn, SessionOK(d), SameSession(d), Steady(d)
    PROVE  SessionOK(d)'
<1> USE DEF SameSession, Steady, SessionOK
<1>1. Locked(d)' /\ Keyed(d)'
    BY DEF Locked, Keyed, Holds, Exchanged, Serving, Id
<1>2. Asked(d)' /\ Attended(d)' /\ Abreast(d)'
    BY DEF Asked, Attended, Abreast, Holds, Serving
<1>3. Announced(d)' /\ Answered(d)'
    BY DEF Announced, Answered, Exchanged, Holds
<1>4. Unread(d)' /\ Decided(d)' /\ Listed(d)'
    BY DEF Unread, Decided, Listed
<1> QED
    BY <1>1, <1>2, <1>3, <1>4

LEMMA TypesOfJobs ==
    ASSUME TypeOK, NEW c \in Conn
    PROVE  /\ job[c] \in Job /\ Id(c) \in ClientID /\ job[c].path \in Path
           /\ \A d \in Conn : job[c].path = job[d].path => Id(c) = Id(d)
<1>1. PICK s \in Setups : job = s.job
    BY DEF TypeOK, Workloads
<1>2. /\ job \in [Conn -> Job]
      /\ \A d, e \in Conn : job[d].path = job[e].path => job[d].client = job[e].client
    BY <1>1, SessionAssumption
<1> QED
    BY <1>2 DEF Job, Id

USE DEF process, locks, keys, store, wires, peer, ServerSide

(* A step that leaves the recipes, the server's status and the history alone, *)
(* and moves no session out of service.                                      *)
LEMMA RecipesKept ==
    ASSUME Inv, Up, UNCHANGED <<job, process, store, committed>>,
           \A d \in Conn : /\ worker[d] # "none" <=> worker'[d] # "none"
                           /\ Serving(d) => Serving(d)'
                           /\ client[d] = "crashed" => client'[d] = "crashed"
    PROVE  RecipesOK'
<1>1. Unfinished' /\ PartialExplained'
    BY DEF Inv, RecipesOK, Unfinished, PartialExplained, Up
<1>2. Traced'
    <2>1. indexed \ {None} \subseteq Conn /\ Traced
        BY DEF Inv, TypeOK, RecipesOK
    <2>2. UNCHANGED <<job, recipe, indexed>>
        OBVIOUS
    <2>3. \A d \in Conn : worker[d] # "none" <=> worker'[d] # "none"
        BY DEF Inv
    <2> QED
        BY <2>1, <2>2, <2>3 DEF Traced
<1>3. ExitExplained'
    BY DEF ExitExplained, Up
<1> QED
    BY <1>1, <1>2, <1>3 DEF RecipesOK

(* A step of one session. *)
LEMMA OneSession ==
    ASSUME Inv, TypeOK', NEW c \in Conn, SessionOK(c)',
           \A d \in Conn \ {c} : SameSession(d) /\ Steady(d),
           RecipesOK'
    PROVE  Inv'
BY Untouched DEF Inv

(* The wires after ClientSends. *)
SentAll(box, c, msgs) == [box EXCEPT ![c] = @ \o msgs]

LEMMA ClientSent ==
    ASSUME NEW box \in Wires, NEW c \in Conn, NEW m \in Message
    PROVE  /\ SentAll(box, c, <<m>>) \in Wires
           /\ \A d \in Conn \ {c} : SentAll(box, c, <<m>>)[d] = box[d]
           /\ Mail(SentAll(box, c, <<m>>)[c]) = Mail(box[c]) \cup {m}
           /\ SentAll(box, c, <<m>>)[c] # <<>>
<1>1. SentAll(box, c, <<m>>) = Sent(box, c, m)
    BY MailOfOne DEF Wires, Sent, SentAll
<1>2. /\ Sent(box, c, m) \in Wires
      /\ \A d \in Conn \ {c} : Sent(box, c, m)[d] = box[d]
      /\ Mail(Sent(box, c, m)[c]) = Mail(box[c]) \cup {m} /\ Sent(box, c, m)[c] # <<>>
    BY WireSent
<1> QED
    BY <1>1, <1>2, Zenon

LEMMA ClientSentTwo ==
    ASSUME NEW box \in Wires, NEW c \in Conn, NEW m \in Message, NEW n \in Message
    PROVE  /\ SentAll(box, c, <<m, n>>) \in Wires
           /\ \A d \in Conn \ {c} : SentAll(box, c, <<m, n>>)[d] = box[d]
           /\ Mail(SentAll(box, c, <<m, n>>)[c]) = Mail(box[c]) \cup {m, n}
           /\ SentAll(box, c, <<m, n>>)[c] # <<>>
<1> DEFINE after == SentAll(box, c, <<m, n>>)
           s == Append(box[c], m)
<1>1. box[c] \in Seq(Message) /\ s \in Seq(Message) /\ Mail(s) = Mail(box[c]) \cup {m}
    BY MailOfAppend DEF Wires
<1>2. after = [d \in Conn |-> IF d = c THEN Append(s, n) ELSE box[d]]
    <2>1. box[c] \o <<m, n>> = Append(s, n)
        BY <1>1, MailOfTwo
    <2> QED
        BY <2>1 DEF Wires, SentAll
<1> HIDE DEF s
<1>3. /\ Append(s, n) \in Seq(Message) /\ Append(s, n) # <<>>
      /\ Mail(Append(s, n)) = Mail(s) \cup {n}
    BY <1>1, MailOfAppend
<1> HIDE DEF after
<1>4. /\ after \in Wires /\ after[c] = Append(s, n)
      /\ \A d \in Conn \ {c} : after[d] = box[d]
    BY <1>2, <1>3 DEF Wires
<1>5. Mail(after[c]) = Mail(box[c]) \cup {m, n} /\ after[c] # <<>>
    BY <1>1, <1>3, <1>4
<1> QED
    BY <1>4, <1>5 DEF after

(* A worker or a thread that answers the client's close. *)
LEMMA CloseAlerted ==
    ASSUME TypeOK, NEW c \in Conn, CloseAlert(c)
    PROVE  /\ toClient' \in Wires /\ \A d \in Conn \ {c} : toClient'[d] = toClient[d]
           /\ Mail(toClient'[c]) \subseteq Mail(toClient[c]) \cup {[type |-> "CLOSE"]}
           /\ client[c] # "closing" => toClient' = toClient
<1>1. toClient \in Wires /\ [type |-> "CLOSE"] \in Message
    BY DEF TypeOK, Wires, Message
<1>2. toClient' = toClient \/ toClient' = Sent(toClient, c, [type |-> "CLOSE"])
    BY DEF CloseAlert
<1>3. client[c] # "closing" => toClient' = toClient
    BY DEF CloseAlert
<1> QED
    BY <1>1, <1>2, <1>3, WireSent

LEMMA ReceiveRAInv ==
    ASSUME Inv, NEW c \in Conn, ReceiveRA(c)
    PROVE  Inv'
<1> USE DEF Inv, ReceiveRA, Goto, Receives
<1>1. TypeOK /\ TypeOK'
    BY WireReceived DEF TypeOK, Wires
<1>2. \A d \in Conn \ {c} : SameSession(d) /\ Steady(d)
    BY WireReceived DEF TypeOK, Wires, SameSession, Steady, SessionOK, Locked, Keyed, Up
<1>3. SessionOK(c)'
    <2>1. /\ SessionOK(c)
          /\ Head(toServer[c]) \in Mail(toServer[c])
          /\ Mail(toServer'[c]) \subseteq Mail(toServer[c])
        BY WireReceived DEF TypeOK, Wires
    <2>2. /\ thread[c] = "ra" /\ worker[c] = "none"
          /\ \/ thread'[c] = "keyInit" /\ job[c].opt # "RA" /\ client[c] \in {"keyReply", "crashed"}
             \/ thread'[c] = "waitClose" /\ job[c].opt = "RA" /\ client[c] \in {"closing", "crashed"}
        BY <2>1, TypesOfJobs DEF TypeOK, Job, SessionOK, Announced, Answered, Asked, Attended, Abreast,
              Unread, Keyed, Decided, Serving, Holds, Exchanged, Up, Gone, Over
    <2>3. UNCHANGED <<job, process, worker, recvBuf, locks, keys, store, peer, toClient, committed>>
        OBVIOUS
    <2> HIDE DEF Inv, ReceiveRA, Goto, Receives
    <2> USE DEF SessionOK
    <2>4. Locked(c)' /\ Keyed(c)'
        BY <2>1, <2>2, <2>3 DEF Locked, Keyed, Holds, Exchanged, Serving, Id
    <2>5. Asked(c)' /\ Attended(c)' /\ Abreast(c)'
        BY <2>1, <2>2, <2>3 DEF Asked, Attended, Abreast, Holds, Serving, Up, Gone, Over
    <2>6. Announced(c)' /\ Answered(c)'
        BY <2>1, <2>2, <2>3 DEF Announced, Answered, Holds, Exchanged
    <2>7. Unread(c)' /\ Decided(c)' /\ Listed(c)'
        BY <2>1, <2>2, <2>3 DEF Unread, Decided, Listed, Serving
    <2> QED
        BY <2>4, <2>5, <2>6, <2>7
<1>4. RecipesOK'
    BY <1>1, RecipesKept DEF TypeOK, Serving
<1> QED
    BY <1>1, <1>2, <1>3, <1>4, OneSession

LEMMA ReceiveKeyInitInv ==
    ASSUME Inv, NEW c \in Conn, ReceiveKeyInit(c)
    PROVE  Inv'
<1> USE DEF Inv, ReceiveKeyInit, Goto, Receives
<1>1. TypeOK /\ TypeOK'
    BY WireReceived DEF TypeOK, Wires
<1>2. \A d \in Conn \ {c} : SameSession(d) /\ Steady(d)
    BY WireReceived DEF TypeOK, Wires, SameSession, Steady, SessionOK, Locked, Keyed, Up
<1>3. SessionOK(c)'
    <2>1. /\ SessionOK(c)
          /\ Head(toServer[c]) \in Mail(toServer[c])
          /\ Mail(toServer'[c]) \subseteq Mail(toServer[c])
        BY WireReceived DEF TypeOK, Wires
    <2>2. /\ thread[c] = "keyInit" /\ thread'[c] = "setLock" /\ worker[c] = "none"
          /\ recvBuf'[c].part = c /\ client[c] \in {"keyReply", "crashed"}
        BY <2>1, TypesOfJobs DEF TypeOK, Job, SessionOK, Announced, Answered, Asked, Attended, Abreast,
              Unread, Keyed, Decided, Serving, Holds, Exchanged, Up, Gone, Over
    <2>3. UNCHANGED <<job, process, worker, locks, keys, store, peer, toClient, committed>>
        OBVIOUS
    <2> HIDE DEF Inv, ReceiveKeyInit, Goto, Receives
    <2> USE DEF SessionOK
    <2>4. Locked(c)' /\ Keyed(c)'
        BY <2>1, <2>2, <2>3 DEF Locked, Keyed, Holds, Exchanged, Serving, Id
    <2>5. Asked(c)' /\ Attended(c)' /\ Abreast(c)'
        BY <2>1, <2>2, <2>3 DEF Asked, Attended, Abreast, Holds, Serving, Up, Gone, Over
    <2>6. Announced(c)' /\ Answered(c)'
        BY <2>1, <2>2, <2>3 DEF Announced, Answered, Holds, Exchanged
    <2>7. Unread(c)' /\ Decided(c)' /\ Listed(c)'
        BY <2>1, <2>2, <2>3 DEF Unread, Decided, Listed, Serving
    <2> QED
        BY <2>4, <2>5, <2>6, <2>7
<1>4. RecipesOK'
    BY <1>1, RecipesKept DEF TypeOK, Serving
<1> QED
    BY <1>1, <1>2, <1>3, <1>4, OneSession

LEMMA LockSetInv ==
    ASSUME Inv, NEW c \in Conn, LockSet(c)
    PROVE  Inv'
<1> USE DEF Inv, LockSet, Goto
<1>1. TypeOK /\ TypeOK'
    BY DEF TypeOK, Wires
<1>2. \A d \in Conn \ {c} : SameSession(d) /\ Steady(d)
    BY DEF TypeOK, Wires, SameSession, Steady, SessionOK, Locked, Keyed, Up
<1>3. SessionOK(c)'
    <2>1. SessionOK(c)
        OBVIOUS
    <2>2. thread[c] = "setLock" /\ thread'[c] = "clientLock" /\ worker[c] = "none"
        BY <2>1, TypesOfJobs DEF TypeOK, Job, SessionOK, Announced, Answered, Asked, Attended, Abreast,
              Unread, Keyed, Decided, Serving, Holds, Exchanged, Up, Gone, Over
    <2>3. UNCHANGED <<job, process, worker, recvBuf, clientLock, keys, store, peer, wires, committed>>
        OBVIOUS
    <2> HIDE DEF Inv, LockSet, Goto
    <2> USE DEF SessionOK
    <2>4. Locked(c)' /\ Keyed(c)'
        BY <2>1, <2>2, <2>3 DEF Locked, Keyed, Holds, Exchanged, Serving, Id
    <2>5. Asked(c)' /\ Attended(c)' /\ Abreast(c)'
        BY <2>1, <2>2, <2>3 DEF Asked, Attended, Abreast, Holds, Serving, Up, Gone, Over
    <2>6. Announced(c)' /\ Answered(c)'
        BY <2>1, <2>2, <2>3 DEF Announced, Answered, Holds, Exchanged
    <2>7. Unread(c)' /\ Decided(c)' /\ Listed(c)'
        BY <2>1, <2>2, <2>3 DEF Unread, Decided, Listed, Serving
    <2> QED
        BY <2>4, <2>5, <2>6, <2>7
<1>4. RecipesOK'
    BY <1>1, RecipesKept DEF TypeOK, Serving
<1> QED
    BY <1>1, <1>2, <1>3, <1>4, OneSession

LEMMA LockClientInv ==
    ASSUME Inv, NEW c \in Conn, LockClient(c)
    PROVE  Inv'
<1> USE DEF Inv, LockClient, Goto
<1>1. TypeOK /\ TypeOK'
    BY TypesOfJobs DEF TypeOK, Wires, Owned, Holds, Exchanged, Id
<1>2. \A d \in Conn \ {c} : SameSession(d) /\ Steady(d)
    BY TypesOfJobs, SessionAssumption DEF TypeOK, Wires, SameSession, Steady, SessionOK, Locked, Keyed, Up, Owned, Holds, Exchanged, Id
<1>3. SessionOK(c)'
    <2>1. SessionOK(c)
        OBVIOUS
    <2>2. /\ thread[c] = "clientLock" /\ thread'[c] = "exchange" /\ worker[c] = "none"
          /\ Id(c) \in DOMAIN clientLock' /\ clientLock'[Id(c)] = c
        BY <2>1, TypesOfJobs DEF TypeOK, Job, SessionOK, Announced, Answered, Asked, Attended, Abreast,
              Unread, Keyed, Decided, Serving, Holds, Exchanged, Up, Gone, Over, Owned
    <2>3. UNCHANGED <<job, process, worker, recvBuf, keys, store, peer, wires, committed>>
        OBVIOUS
    <2> HIDE DEF Inv, LockClient, Goto
    <2> USE DEF SessionOK
    <2>4. Locked(c)' /\ Keyed(c)'
        BY <2>1, <2>2, <2>3 DEF Locked, Keyed, Holds, Exchanged, Serving, Id
    <2>5. Asked(c)' /\ Attended(c)' /\ Abreast(c)'
        BY <2>1, <2>2, <2>3 DEF Asked, Attended, Abreast, Holds, Serving, Up, Gone, Over
    <2>6. Announced(c)' /\ Answered(c)'
        BY <2>1, <2>2, <2>3 DEF Announced, Answered, Holds, Exchanged
    <2>7. Unread(c)' /\ Decided(c)' /\ Listed(c)'
        BY <2>1, <2>2, <2>3 DEF Unread, Decided, Listed, Serving
    <2> QED
        BY <2>4, <2>5, <2>6, <2>7
<1>4. RecipesOK'
    BY <1>1, RecipesKept DEF TypeOK, Serving
<1> QED
    BY <1>1, <1>2, <1>3, <1>4, OneSession

LEMMA ExchangeKeysInv ==
    ASSUME Inv, NEW c \in Conn, ExchangeKeys(c)
    PROVE  Inv'
<1> USE DEF Inv, ExchangeKeys, Goto
<1>0. /\ toClient' \in Wires /\ \A d \in Conn \ {c} : toClient'[d] = toClient[d]
      /\ Mail(toClient'[c]) = Mail(toClient[c]) \cup {[type |-> "SESSION_KEY_REPLY", part |-> c]}
    <2>1. toClient \in Wires /\ [type |-> "SESSION_KEY_REPLY", part |-> c] \in Message
        BY DEF TypeOK, Wires, Message
    <2>2. toClient' = Sent(toClient, c, [type |-> "SESSION_KEY_REPLY", part |-> c])
        OBVIOUS
    <2> QED
        BY <2>1, <2>2, WireSent
<1>1. TypeOK /\ TypeOK'
    BY <1>0, TypesOfJobs DEF TypeOK, Wires, Keyed, Key, SessionOK, DerivedShared, Holds, Exchanged, Id
<1>2. \A d \in Conn \ {c} : SameSession(d) /\ Steady(d)
    BY <1>0, TypesOfJobs, SessionAssumption DEF TypeOK, Wires, SameSession, Steady, SessionOK, Locked, Keyed, Up, Keyed, Key, SessionOK, DerivedShared, Holds, Exchanged, Id
<1>3. SessionOK(c)'
    <2>1. /\ SessionOK(c)
          /\ Mail(toClient'[c]) = Mail(toClient[c]) \cup {[type |-> "SESSION_KEY_REPLY", part |-> c]}
        BY <1>0
    <2>2. /\ thread[c] = "exchange" /\ thread'[c] = "login" /\ worker[c] = "none"
          /\ Id(c) \in DOMAIN sessionKeyIndex' /\ sessionKeyIndex'[Id(c)] = KeyOf(c)
        BY <2>1, TypesOfJobs DEF TypeOK, Job, SessionOK, Announced, Answered, Asked, Attended, Abreast,
              Unread, Keyed, Decided, Serving, Holds, Exchanged, Up, Gone, Over, KeyOf
    <2>3. UNCHANGED <<job, process, worker, recvBuf, locks, sgxKey, store, peer, toServer, committed>>
        OBVIOUS
    <2> HIDE DEF Inv, ExchangeKeys, Goto
    <2> USE DEF SessionOK
    <2>4. Locked(c)' /\ Keyed(c)'
        BY <2>1, <2>2, <2>3 DEF Locked, Keyed, Holds, Exchanged, Serving, Id
    <2>5. Asked(c)' /\ Attended(c)' /\ Abreast(c)'
        BY <2>1, <2>2, <2>3 DEF Asked, Attended, Abreast, Holds, Serving, Up, Gone, Over
    <2>6. Announced(c)' /\ Answered(c)'
        BY <2>1, <2>2, <2>3 DEF Announced, Answered, Holds, Exchanged
    <2>7. Unread(c)' /\ Decided(c)' /\ Listed(c)'
        BY <2>1, <2>2, <2>3 DEF Unread, Decided, Listed, Serving
    <2> QED
        BY <2>4, <2>5, <2>6, <2>7
<1>4. RecipesOK'
    BY <1>1, RecipesKept DEF TypeOK, Serving
<1> QED
    BY <1>1, <1>2, <1>3, <1>4, OneSession

LEMMA ReceiveLoginInv ==
    ASSUME Inv, NEW c \in Conn, ReceiveLogin(c)
    PROVE  Inv'
<1> USE DEF Inv, ReceiveLogin, Goto, Receives
<1>1. TypeOK /\ TypeOK'
    BY WireReceived DEF TypeOK, Wires
<1>2. \A d \in Conn \ {c} : SameSession(d) /\ Steady(d)
    BY WireReceived DEF TypeOK, Wires, SameSession, Steady, SessionOK, Locked, Keyed, Up
<1>3. SessionOK(c)'
    <2>1. /\ SessionOK(c)
          /\ Head(toServer[c]) \in Mail(toServer[c])
          /\ Mail(toServer'[c]) \subseteq Mail(toServer[c])
        BY WireReceived DEF TypeOK, Wires
    <2>2. /\ thread[c] = "login" /\ worker[c] = "none"
          /\ thread'[c] \in {"initClient", "refuse"}
          /\ thread'[c] = "refuse" => job[c].opt = "DOWNLOAD"
          /\ client[c] \in {"login", "crashed"} /\ clientKey[c] = KeyOf(c)
        BY <2>1, TypesOfJobs DEF TypeOK, Job, SessionOK, Announced, Answered, Asked, Attended, Abreast,
              Unread, Keyed, Decided, Serving, Holds, Exchanged, Up, Gone, Over
    <2>3. UNCHANGED <<job, process, worker, locks, keys, store, peer, toClient, committed>>
        OBVIOUS
    <2> HIDE DEF Inv, ReceiveLogin, Goto, Receives
    <2> USE DEF SessionOK
    <2>4. Locked(c)' /\ Keyed(c)'
        BY <2>1, <2>2, <2>3 DEF Locked, Keyed, Holds, Exchanged, Serving, Id
    <2>5. Asked(c)' /\ Attended(c)' /\ Abreast(c)'
        BY <2>1, <2>2, <2>3 DEF Asked, Attended, Abreast, Holds, Serving, Up, Gone, Over
    <2>6. Announced(c)' /\ Answered(c)'
        BY <2>1, <2>2, <2>3 DEF Announced, Answered, Holds, Exchanged
    <2>7. Unread(c)' /\ Decided(c)' /\ Listed(c)'
        BY <2>1, <2>2, <2>3 DEF Unread, Decided, Listed, Serving
    <2> QED
        BY <2>4, <2>5, <2>6, <2>7
<1>4. RecipesOK'
    BY <1>1, RecipesKept DEF TypeOK, Serving
<1> QED
    BY <1>1, <1>2, <1>3, <1>4, OneSession

LEMMA RefuseInv ==
    ASSUME Inv, NEW c \in Conn, Refuse(c)
    PROVE  Inv'
<1> USE DEF Inv, Refuse, Goto
<1>0. /\ toClient' \in Wires /\ \A d \in Conn \ {c} : toClient'[d] = toClient[d]
      /\ Mail(toClient'[c]) = Mail(toClient[c]) \cup {[type |-> "SERVER_FILE_NON_EXIST"]}
    <2>1. toClient \in Wires /\ [type |-> "SERVER_FILE_NON_EXIST"] \in Message
        BY DEF TypeOK, Wires, Message
    <2>2. toClient' = Sent(toClient, c, [type |-> "SERVER_FILE_NON_EXIST"])
        OBVIOUS
    <2> QED
        BY <2>1, <2>2, WireSent
<1>1. TypeOK /\ TypeOK'
    BY <1>0 DEF TypeOK, Wires
<1>2. \A d \in Conn \ {c} : SameSession(d) /\ Steady(d)
    BY <1>0 DEF TypeOK, Wires, SameSession, Steady, SessionOK, Locked, Keyed, Up
<1>3. SessionOK(c)'
    <2>1. /\ SessionOK(c)
          /\ Mail(toClient'[c]) = Mail(toClient[c]) \cup {[type |-> "SERVER_FILE_NON_EXIST"]}
        BY <1>0
    <2>2. thread[c] = "refuse" /\ thread'[c] = "refused" /\ worker[c] = "none"
        BY <2>1, TypesOfJobs DEF TypeOK, Job, SessionOK, Announced, Answered, Asked, Attended, Abreast,
              Unread, Keyed, Decided, Serving, Holds, Exchanged, Up, Gone, Over
    <2>3. UNCHANGED <<job, process, worker, recvBuf, locks, keys, store, peer, toServer, committed>>
        OBVIOUS
    <2> HIDE DEF Inv, Refuse, Goto
    <2> USE DEF SessionOK
    <2>4. Locked(c)' /\ Keyed(c)'
        BY <2>1, <2>2, <2>3 DEF Locked, Keyed, Holds, Exchanged, Serving, Id
    <2>5. Asked(c)' /\ Attended(c)' /\ Abreast(c)'
        BY <2>1, <2>2, <2>3 DEF Asked, Attended, Abreast, Holds, Serving, Up, Gone, Over
    <2>6. Announced(c)' /\ Answered(c)'
        BY <2>1, <2>2, <2>3 DEF Announced, Answered, Holds, Exchanged
    <2>7. Unread(c)' /\ Decided(c)' /\ Listed(c)'
        BY <2>1, <2>2, <2>3 DEF Unread, Decided, Listed, Serving
    <2> QED
        BY <2>4, <2>5, <2>6, <2>7
<1>4. RecipesOK'
    BY <1>1, RecipesKept DEF TypeOK, Serving
<1> QED
    BY <1>1, <1>2, <1>3, <1>4, OneSession

LEMMA ClientClosedInv ==
    ASSUME Inv, NEW c \in Conn, ClientClosed(c)
    PROVE  Inv'
<1> USE DEF Inv, ClientClosed, Goto, ServerReceiveFails, Unlock
<1>0. /\ toClient' \in Wires /\ \A d \in Conn \ {c} : toClient'[d] = toClient[d]
      /\ Mail(toClient'[c]) \subseteq Mail(toClient[c]) \cup {[type |-> "CLOSE"]}
      /\ client[c] # "closing" => toClient' = toClient
    BY CloseAlerted
<1>1. TypeOK /\ TypeOK'
    <2>1. clientLock' = clientLock \/ clientLock' = [clientLock EXCEPT ![Id(c)] = None]
        OBVIOUS
    <2>2. /\ DOMAIN clientLock' \subseteq ClientID
          /\ \A id \in DOMAIN clientLock' : clientLock'[id] \in Conn \cup {None}
        BY <2>1 DEF TypeOK
    <2> QED
        BY <1>0, <2>2 DEF TypeOK, Wires
<1>2. ASSUME NEW d \in Conn \ {c} PROVE SameSession(d) /\ Steady(d)
    <2>1. SameSession(d)
        BY <1>0 DEF TypeOK, SameSession
    <2>2. Locked(c) /\ Locked(d) /\ Keyed(d)
        BY DEF SessionOK
    <2>3. /\ \/ clientLock' = clientLock
             \/ Holds(c) /\ clientLock' = [clientLock EXCEPT ![Id(c)] = None]
          /\ UNCHANGED <<job, process, sessionKeyIndex>>
        BY DEF Holds
    <2> HIDE DEF Inv, ClientClosed, Goto, ServerReceiveFails, Unlock
    <2>4. Holds(d) => Id(d) \in DOMAIN clientLock' /\ clientLock'[Id(d)] = clientLock[Id(d)]
        BY <2>2, <2>3 DEF Locked
    <2> QED
        BY <2>1, <2>2, <2>3, <2>4 DEF Steady, Keyed, Up
<1>3. SessionOK(c)'
    <2>1. /\ SessionOK(c)
          /\ Mail(toClient'[c]) \subseteq Mail(toClient[c]) \cup {[type |-> "CLOSE"]}
          /\ client[c] # "closing" => toClient' = toClient
        BY <1>0
    <2>2. /\ \/ thread[c] = "waitClose" /\ job[c].opt = "RA"
             \/ thread[c] = "refused" /\ job[c].opt = "DOWNLOAD"
          /\ thread'[c] = "returned" /\ worker[c] = "none" /\ client[c] \in Gone
        BY <2>1, TypesOfJobs DEF TypeOK, Job, SessionOK, Announced, Answered, Asked, Attended, Abreast,
              Unread, Keyed, Decided, Serving, Holds, Exchanged, Up, Gone, Over
    <2>3. UNCHANGED <<job, process, worker, recvBuf, clientLockSetLock, keys, store, peer, toServer, committed>>
        OBVIOUS
    <2> HIDE DEF Inv, ClientClosed, Goto, ServerReceiveFails, Unlock
    <2> USE DEF SessionOK
    <2>4. Locked(c)' /\ Keyed(c)'
        BY <2>1, <2>2, <2>3 DEF Locked, Keyed, Holds, Exchanged, Serving, Id
    <2>5. Asked(c)' /\ Attended(c)' /\ Abreast(c)'
        BY <2>1, <2>2, <2>3 DEF Asked, Attended, Abreast, Holds, Serving, Up, Gone, Over
    <2>6. Announced(c)' /\ Answered(c)'
        BY <2>1, <2>2, <2>3 DEF Announced, Answered, Holds, Exchanged
    <2>7. Unread(c)' /\ Decided(c)' /\ Listed(c)'
        BY <2>1, <2>2, <2>3 DEF Unread, Decided, Listed, Serving
    <2> QED
        BY <2>4, <2>5, <2>6, <2>7
<1>4. RecipesOK'
    BY <1>1, RecipesKept DEF TypeOK, Serving
<1> QED
    BY <1>1, <1>2, <1>3, <1>4, OneSession

LEMMA InitClientInv ==
    ASSUME Inv, NEW c \in Conn, InitClient(c)
    PROVE  Inv'
<1> USE DEF Inv, InitClient, Goto, WorkerGoto
<1>1. TypeOK /\ TypeOK'
    <2>1. sessionKeyIndex[Id(c)] \in Key
        BY DEF TypeOK, SessionOK, Keyed, Holds, Exchanged
    <2>2. Written(c, "virtual", {})[job[c].path] \in Recipe
        BY TypesOfJobs DEF Written, Recipe
    <2>3. DOMAIN recipe' \subseteq Path /\ \A p \in DOMAIN recipe' : recipe'[p] \in Recipe
        <3>1. job[c].path \in Path /\ DOMAIN recipe \subseteq Path
              /\ \A p \in DOMAIN recipe : recipe[p] \in Recipe
            BY TypesOfJobs DEF TypeOK
        <3>2. recipe' = recipe \/ recipe' = Written(c, "virtual", {})
            OBVIOUS
        <3> HIDE DEF Inv, InitClient, Goto, WorkerGoto
        <3> QED
            BY <2>2, <3>1, <3>2 DEF Written
    <2> QED
        BY <2>1, <2>3 DEF TypeOK
<1>2. \A d \in Conn \ {c} : SameSession(d) /\ Steady(d)
    BY DEF TypeOK, Wires, SameSession, Steady, SessionOK, Locked, Keyed, Up, Written, Keyed, SessionOK, Holds, Exchanged, Id, Recipe
<1>3. SessionOK(c)'
    <2>1. SessionOK(c)
        OBVIOUS
    <2>2. /\ thread[c] = "initClient" /\ thread'[c] = "respond" /\ worker[c] = "none"
          /\ \/ job[c].opt = "UPLOAD" /\ worker'[c] = "receiving"
             \/ job[c].opt = "DOWNLOAD" /\ worker'[c] = "waitReady"
          /\ client[c] \in {"login", "crashed"}
          /\ sgxKey'[c] = KeyOf(c) /\ c \notin committed
        BY <2>1, TypesOfJobs DEF TypeOK, Job, SessionOK, Announced, Answered, Asked, Attended, Abreast,
              Unread, Keyed, Decided, Serving, Holds, Exchanged, Up, Gone, Over, Id
    <2>3. UNCHANGED <<job, process, recvBuf, locks, sessionKeyIndex, indexed, peer, wires, committed>>
        OBVIOUS
    <2> HIDE DEF Inv, InitClient, Goto, WorkerGoto
    <2> USE DEF SessionOK
    <2>4. Locked(c)' /\ Keyed(c)'
        BY <2>1, <2>2, <2>3 DEF Locked, Keyed, Holds, Exchanged, Serving, Id
    <2>5. Asked(c)' /\ Attended(c)' /\ Abreast(c)'
        BY <2>1, <2>2, <2>3 DEF Asked, Attended, Abreast, Holds, Serving, Up, Gone, Over
    <2>6. Announced(c)' /\ Answered(c)'
        BY <2>1, <2>2, <2>3 DEF Announced, Answered, Holds, Exchanged
    <2>7. Unread(c)' /\ Decided(c)' /\ Listed(c)'
        BY <2>1, <2>2, <2>3 DEF Unread, Decided, Listed, Serving
    <2> QED
        BY <2>4, <2>5, <2>6, <2>7
<1>4. RecipesOK'
    <2>1. Unfinished' /\ PartialExplained'
        BY <1>1, <1>3, TypesOfJobs DEF TypeOK, Serving, RecipesOK, Unfinished, PartialExplained, Written, Up, SessionOK, Decided
    <2>2. Traced'
        <3>1. /\ indexed \ {None} \subseteq Conn /\ Traced /\ worker[c] = "none"
              /\ UNCHANGED <<job, indexed>>
              /\ worker'[c] # "none" /\ \A d \in Conn \ {c} : worker'[d] = worker[d]
            BY DEF TypeOK, RecipesOK
        <3>2. /\ DOMAIN recipe' = DOMAIN recipe \cup {job[c].path}
              /\ \A p \in DOMAIN recipe : recipe'[p].refs \subseteq recipe[p].refs
              /\ recipe'[job[c].path].refs \subseteq indexed
            <4>1. CASE recipe' = Written(c, "virtual", {})
                BY <4>1 DEF Written
            <4>2. CASE recipe' = recipe /\ job[c].path \in DOMAIN recipe
                BY <3>1, <4>2 DEF Traced
            <4> QED
                BY <4>1, <4>2
        <3> HIDE DEF Inv, InitClient, Goto, WorkerGoto
        <3>3. \A p \in DOMAIN recipe' : recipe'[p].refs \subseteq indexed
            BY <3>1, <3>2 DEF Traced
        <3> QED
            BY <3>1, <3>2, <3>3 DEF Traced
    <2>3. ExitExplained'
        BY DEF ExitExplained, Up
    <2> QED
        BY <2>1, <2>2, <2>3 DEF RecipesOK
<1> QED
    BY <1>1, <1>2, <1>3, <1>4, OneSession

LEMMA RespondInv ==
    ASSUME Inv, NEW c \in Conn, Respond(c)
    PROVE  Inv'
<1> USE DEF Inv, Respond, Goto
<1>0. /\ toClient' \in Wires /\ \A d \in Conn \ {c} : toClient'[d] = toClient[d]
      /\ Mail(toClient'[c]) = Mail(toClient[c]) \cup {[type |-> "SERVER_LOGIN_RESPONSE"]}
    <2>1. toClient \in Wires /\ [type |-> "SERVER_LOGIN_RESPONSE"] \in Message
        BY DEF TypeOK, Wires, Message
    <2>2. toClient' = Sent(toClient, c, [type |-> "SERVER_LOGIN_RESPONSE"])
        OBVIOUS
    <2> QED
        BY <2>1, <2>2, WireSent
<1>1. TypeOK /\ TypeOK'
    BY <1>0 DEF TypeOK, Wires
<1>2. \A d \in Conn \ {c} : SameSession(d) /\ Steady(d)
    BY <1>0 DEF TypeOK, Wires, SameSession, Steady, SessionOK, Locked, Keyed, Up
<1>3. SessionOK(c)'
    <2>1. /\ SessionOK(c)
          /\ Mail(toClient'[c]) = Mail(toClient[c]) \cup {[type |-> "SERVER_LOGIN_RESPONSE"]}
        BY <1>0
    <2>2. thread[c] = "respond" /\ thread'[c] = "join"
        BY <2>1, TypesOfJobs DEF TypeOK, Job, SessionOK, Announced, Answered, Asked, Attended, Abreast,
              Unread, Keyed, Decided, Serving, Holds, Exchanged, Up, Gone, Over
    <2>3. UNCHANGED <<job, process, worker, recvBuf, locks, keys, store, peer, toServer, committed>>
        OBVIOUS
    <2> HIDE DEF Inv, Respond, Goto
    <2> USE DEF SessionOK
    <2>4. Locked(c)' /\ Keyed(c)'
        BY <2>1, <2>2, <2>3 DEF Locked, Keyed, Holds, Exchanged, Serving, Id
    <2>5. Asked(c)' /\ Attended(c)' /\ Abreast(c)'
        BY <2>1, <2>2, <2>3 DEF Asked, Attended, Abreast, Holds, Serving, Up, Gone, Over
    <2>6. Announced(c)' /\ Answered(c)'
        BY <2>1, <2>2, <2>3 DEF Announced, Answered, Holds, Exchanged
    <2>7. Unread(c)' /\ Decided(c)' /\ Listed(c)'
        BY <2>1, <2>2, <2>3 DEF Unread, Decided, Listed, Serving
    <2> QED
        BY <2>4, <2>5, <2>6, <2>7
<1>4. RecipesOK'
    BY <1>1, RecipesKept DEF TypeOK, Serving
<1> QED
    BY <1>1, <1>2, <1>3, <1>4, OneSession

LEMMA ReturnInv ==
    ASSUME Inv, NEW c \in Conn, Return(c)
    PROVE  Inv'
<1> USE DEF Inv, Return, Goto, Unlock
<1>1. TypeOK /\ TypeOK'
    BY TypesOfJobs DEF TypeOK, Wires, Holds, Exchanged, Id
<1>2. \A d \in Conn \ {c} : SameSession(d) /\ Steady(d)
    BY TypesOfJobs DEF TypeOK, Wires, SameSession, Steady, SessionOK, Locked, Keyed, Up, Holds, Exchanged, Id
<1>3. SessionOK(c)'
    <2>1. SessionOK(c)
        OBVIOUS
    <2>2. /\ thread[c] = "join" /\ thread'[c] = "returned" /\ worker[c] = "ended"
          /\ client[c] \in {"closing", "finished", "crashed"}
        BY <2>1, TypesOfJobs DEF TypeOK, Job, SessionOK, Announced, Answered, Asked, Attended, Abreast,
              Unread, Keyed, Decided, Serving, Holds, Exchanged, Up, Gone, Over
    <2>3. UNCHANGED <<job, process, worker, recvBuf, clientLockSetLock, keys, store, peer, wires, committed>>
        OBVIOUS
    <2> HIDE DEF Inv, Return, Goto, Unlock
    <2> USE DEF SessionOK
    <2>4. Locked(c)' /\ Keyed(c)'
        BY <2>1, <2>2, <2>3 DEF Locked, Keyed, Holds, Exchanged, Serving, Id
    <2>5. Asked(c)' /\ Attended(c)' /\ Abreast(c)'
        BY <2>1, <2>2, <2>3 DEF Asked, Attended, Abreast, Holds, Serving, Up, Gone, Over
    <2>6. Announced(c)' /\ Answered(c)'
        BY <2>1, <2>2, <2>3 DEF Announced, Answered, Holds, Exchanged
    <2>7. Unread(c)' /\ Decided(c)' /\ Listed(c)'
        BY <2>1, <2>2, <2>3 DEF Unread, Decided, Listed, Serving
    <2> QED
        BY <2>4, <2>5, <2>6, <2>7
<1>4. RecipesOK'
    <2>1. Unfinished' /\ Traced' /\ ExitExplained'
        BY <1>1 DEF TypeOK, RecipesOK, Unfinished, Traced, ExitExplained, Up
    <2>2. job[c].opt = "UPLOAD" => c \in committed \/ client[c] = "crashed"
        BY DEF SessionOK, Decided
    <2>3. PartialExplained'
        BY <1>1, <2>2 DEF TypeOK, Serving, RecipesOK, Unfinished, PartialExplained, Up
    <2> QED
        BY <2>1, <2>3 DEF RecipesOK
<1> QED
    BY <1>1, <1>2, <1>3, <1>4, OneSession

LEMMA ProcessBatchInv ==
    ASSUME Inv, NEW c \in Conn, ProcessBatch(c)
    PROVE  Inv'
<1> USE DEF Inv, ProcessBatch, WorkerGoto, Receives
<1>0. /\ DOMAIN recipe' = DOMAIN recipe /\ indexed' \subseteq Conn \cup {None}
      /\ \A p \in DOMAIN recipe :
            /\ recipe'[p].writer = recipe[p].writer /\ recipe'[p].head = recipe[p].head
            /\ recipe'[p].refs \subseteq recipe[p].refs \cup indexed'
            /\ recipe'[p] \in Recipe
    <2>1. /\ recipe' = [recipe EXCEPT ![job[c].path].refs = indexed']
          /\ indexed' \subseteq Conn \cup {None}
          /\ \A p \in DOMAIN recipe : recipe[p] \in Recipe
        BY DEF TypeOK
    <2> HIDE DEF Inv, ProcessBatch, WorkerGoto, Receives
    <2>2. ASSUME NEW p \in DOMAIN recipe
          PROVE  /\ recipe'[p].writer = recipe[p].writer /\ recipe'[p].head = recipe[p].head
                 /\ recipe'[p].refs \subseteq recipe[p].refs \cup indexed'
                 /\ recipe'[p] \in Recipe
        <3>1. CASE p = job[c].path
            <4>1. PICK r \in Recipe : r = recipe[p]
                BY <2>1
            <4>2. recipe'[p] = [r EXCEPT !.refs = indexed']
                BY <2>1, <3>1, <4>1
            <4> QED
                BY <2>1, <4>1, <4>2 DEF Recipe
        <3>2. CASE p # job[c].path
            BY <2>1, <3>2
        <3> QED
            BY <3>1, <3>2
    <2> QED
        BY <2>1, <2>2
<1>1. TypeOK /\ TypeOK'
    BY <1>0, WireReceived DEF TypeOK, Wires
<1>2. \A d \in Conn \ {c} : SameSession(d) /\ Steady(d)
    BY WireReceived DEF TypeOK, Wires, SameSession, Steady, SessionOK, Locked, Keyed, Up
<1>3. SessionOK(c)'
    <2>1. /\ SessionOK(c)
          /\ Mail(toServer'[c]) \subseteq Mail(toServer[c])
          /\ Mail(toServer[c]) \subseteq {Head(toServer[c])} \cup Mail(toServer'[c])
        <3>1. toServer \in Wires /\ toServer[c] # <<>>
            BY DEF TypeOK, Wires
        <3>2. toServer' = [toServer EXCEPT ![c] = Tail(@)] /\ SessionOK(c)
            OBVIOUS
        <3> QED
            BY <3>1, <3>2, WireReceived, WireKeeps, Zenon
    <2>2. /\ worker[c] = "receiving" /\ worker'[c] = "receiving" /\ Serving(c)
          /\ client[c] \notin {"none", "connected"}
          /\ Head(toServer[c]).type = "CLIENT_UPLOAD_CHUNK"
        BY <2>1 DEF TypeOK, SessionOK, Attended, Unread, Serving
    <2>3. UNCHANGED <<job, process, thread, recvBuf, locks, keys, peer, toClient, committed>>
        OBVIOUS
    <2> HIDE DEF Inv, ProcessBatch, WorkerGoto, Receives
    <2> USE DEF SessionOK
    <2>4. Locked(c)' /\ Keyed(c)'
        BY <2>1, <2>2, <2>3 DEF Locked, Keyed, Holds, Exchanged, Serving, Id
    <2>5. Asked(c)' /\ Attended(c)' /\ Abreast(c)'
        BY <2>1, <2>2, <2>3 DEF Asked, Attended, Abreast, Holds, Serving, Up, Gone, Over
    <2>6. Announced(c)' /\ Answered(c)'
        BY <2>1, <2>2, <2>3 DEF Announced, Answered, Holds, Exchanged
    <2>7. Unread(c)' /\ Decided(c)' /\ Listed(c)'
        BY <2>1, <2>2, <2>3 DEF Unread, Decided, Listed, Serving
    <2> QED
        BY <2>4, <2>5, <2>6, <2>7
<1>4. RecipesOK'
    <2>0. /\ UNCHANGED <<job, server, main, thread, client, committed>> /\ worker' = worker
          /\ job[c].opt = "UPLOAD" /\ worker[c] = "receiving" /\ indexed' = indexed \cup {c} /\ Up
        BY DEF SessionOK, Asked, TypeOK
    <2> HIDE DEF ProcessBatch, WorkerGoto, Receives
    <2>1. Unfinished' /\ PartialExplained'
        BY <1>0, <2>0 DEF Serving, RecipesOK, Unfinished, PartialExplained, Up
    <2>3. ExitExplained'
        BY <2>0 DEF ExitExplained, Up
    <2>4. Traced'
        BY <1>0, <2>0 DEF RecipesOK, Traced
    <2> QED
        BY <2>1, <2>3, <2>4 DEF RecipesOK
<1> QED
    BY <1>1, <1>2, <1>3, <1>4, OneSession

LEMMA FinalizeRecipeInv ==
    ASSUME Inv, NEW c \in Conn, FinalizeRecipe(c)
    PROVE  Inv'
<1> USE DEF Inv, FinalizeRecipe, WorkerGoto, Receives
<1>0. /\ job[c].path \in DOMAIN recipe /\ job[c].path \in Path
      /\ [writer |-> c, head |-> "final", refs |-> recipe[job[c].path].refs] \in Recipe
    BY TypesOfJobs DEF RecipesOK, Traced, TypeOK, Recipe
<1>1. TypeOK /\ TypeOK'
    BY <1>0, WireReceived DEF TypeOK, Wires, Written
<1>2. \A d \in Conn \ {c} : SameSession(d) /\ Steady(d)
    BY WireReceived DEF TypeOK, Wires, SameSession, Steady, SessionOK, Locked, Keyed, Up, Written, Recipe
<1>3. SessionOK(c)'
    <2>1. /\ SessionOK(c)
          /\ Head(toServer[c]) \in Mail(toServer[c])
          /\ Mail(toServer'[c]) \subseteq Mail(toServer[c])
        BY WireReceived DEF TypeOK, Wires
    <2>2. /\ worker[c] = "receiving" /\ worker'[c] = "receiving" /\ Serving(c)
          /\ client[c] \notin {"none", "connected"} /\ committed' = committed \cup {c}
        BY <2>1, TypesOfJobs DEF TypeOK, Job, SessionOK, Announced, Answered, Asked, Attended, Abreast,
              Unread, Keyed, Decided, Serving, Holds, Exchanged, Up, Gone, Over
    <2>3. UNCHANGED <<job, process, thread, recvBuf, locks, keys, indexed, peer, toClient>>
        OBVIOUS
    <2> HIDE DEF Inv, FinalizeRecipe, WorkerGoto, Receives
    <2> USE DEF SessionOK
    <2>4. Locked(c)' /\ Keyed(c)'
        BY <2>1, <2>2, <2>3 DEF Locked, Keyed, Holds, Exchanged, Serving, Id
    <2>5. Asked(c)' /\ Attended(c)' /\ Abreast(c)'
        BY <2>1, <2>2, <2>3 DEF Asked, Attended, Abreast, Holds, Serving, Up, Gone, Over
    <2>6. Announced(c)' /\ Answered(c)'
        BY <2>1, <2>2, <2>3 DEF Announced, Answered, Holds, Exchanged
    <2>7. Unread(c)' /\ Decided(c)' /\ Listed(c)'
        BY <2>1, <2>2, <2>3 DEF Unread, Decided, Listed, Serving
    <2> QED
        BY <2>4, <2>5, <2>6, <2>7
<1>4. RecipesOK'
    <2>1. Unfinished'
        <3>1. ASSUME NEW p \in DOMAIN recipe', recipe'[p].head = "virtual"
              PROVE  /\ recipe'[p].writer \in Conn \ committed'
                     /\ job[recipe'[p].writer].opt = "UPLOAD" /\ job[recipe'[p].writer].path = p
                     /\ worker[recipe'[p].writer] # "none"
            <4>1. p # job[c].path
                BY <3>1 DEF Written
            <4>2. p \in DOMAIN recipe /\ recipe'[p] = recipe[p]
                BY <4>1 DEF Written
            <4>3. /\ recipe[p].writer \in Conn \ committed
                  /\ job[recipe[p].writer].opt = "UPLOAD" /\ job[recipe[p].writer].path = p
                  /\ worker[recipe[p].writer] # "none"
                BY <3>1, <4>2 DEF RecipesOK, Unfinished
            <4> QED
                BY <4>1, <4>2, <4>3
        <3>2. job' = job /\ worker' = worker
            BY DEF TypeOK
        <3> HIDE DEF Inv, FinalizeRecipe, WorkerGoto, Receives
        <3> QED
            BY <3>1, <3>2 DEF Unfinished
    <2>2. PartialExplained'
        BY <1>1, TypesOfJobs, SMTT(30) DEF TypeOK, Serving, RecipesOK, Unfinished, PartialExplained, Written, Up
    <2>3. ExitExplained'
        BY <1>1, SMTT(30) DEF TypeOK, ExitExplained, Up
    <2>4. Traced'
        BY <1>0, <1>1 DEF TypeOK, RecipesOK, Traced, Written
    <2> QED
        BY <2>1, <2>2, <2>3, <2>4 DEF RecipesOK
<1> QED
    BY <1>1, <1>2, <1>3, <1>4, OneSession

LEMMA WorkerEndsInv ==
    ASSUME Inv, NEW c \in Conn, WorkerEnds(c)
    PROVE  Inv'
<1> USE DEF Inv, WorkerEnds, WorkerGoto, ServerReceiveFails
<1>0. /\ toClient' \in Wires /\ \A d \in Conn \ {c} : toClient'[d] = toClient[d]
      /\ Mail(toClient'[c]) \subseteq Mail(toClient[c]) \cup {[type |-> "CLOSE"]}
      /\ client[c] # "closing" => toClient' = toClient
    BY CloseAlerted
<1>1. TypeOK /\ TypeOK'
    BY <1>0 DEF TypeOK, Wires
<1>2. \A d \in Conn \ {c} : SameSession(d) /\ Steady(d)
    BY <1>0 DEF TypeOK, Wires, SameSession, Steady, SessionOK, Locked, Keyed, Up
<1>3. SessionOK(c)'
    <2>1. /\ SessionOK(c)
          /\ Mail(toClient'[c]) \subseteq Mail(toClient[c]) \cup {[type |-> "CLOSE"]}
          /\ client[c] # "closing" => toClient' = toClient
          /\ Mail(toServer[c]) = {}
        BY <1>0 DEF Mail
    <2>2. /\ worker[c] \in {"receiving", "lastWait"} /\ worker'[c] = "ended" /\ Serving(c)
          /\ client[c] \in {"closing", "crashed"}
          /\ job[c].opt = "UPLOAD" /\ client[c] = "closing" => c \in committed
          /\ c \in committed => worker[c] = "receiving"
        BY <2>1, TypesOfJobs DEF TypeOK, Job, SessionOK, Announced, Answered, Asked, Attended, Abreast,
              Unread, Keyed, Decided, Serving, Holds, Exchanged, Up, Gone, Over, Gone, Over
    <2>3. UNCHANGED <<job, process, thread, recvBuf, locks, keys, store, peer, toServer, committed>>
        OBVIOUS
    <2> HIDE DEF Inv, WorkerEnds, WorkerGoto, ServerReceiveFails
    <2> USE DEF SessionOK
    <2>4. Locked(c)' /\ Keyed(c)'
        BY <2>1, <2>2, <2>3 DEF Locked, Keyed, Holds, Exchanged, Serving, Id
    <2>5. Asked(c)' /\ Attended(c)' /\ Abreast(c)'
        BY <2>1, <2>2, <2>3 DEF Asked, Attended, Abreast, Holds, Serving, Up, Gone, Over
    <2>6. Announced(c)' /\ Answered(c)'
        BY <2>1, <2>2, <2>3 DEF Announced, Answered, Holds, Exchanged
    <2>7. Unread(c)' /\ Decided(c)' /\ Listed(c)'
        BY <2>1, <2>2, <2>3 DEF Unread, Decided, Listed, Serving
    <2> QED
        BY <2>4, <2>5, <2>6, <2>7
<1>4. RecipesOK'
    BY <1>1, RecipesKept DEF TypeOK, Serving
<1> QED
    BY <1>1, <1>2, <1>3, <1>4, OneSession

LEMMA RestoreReadyInv ==
    ASSUME Inv, NEW c \in Conn, RestoreReady(c)
    PROVE  Inv'
<1> USE DEF Inv, RestoreReady, WorkerGoto, Receives
<1>1. TypeOK /\ TypeOK'
    BY WireReceived DEF TypeOK, Wires
<1>2. \A d \in Conn \ {c} : SameSession(d) /\ Steady(d)
    BY WireReceived DEF TypeOK, Wires, SameSession, Steady, SessionOK, Locked, Keyed, Up
<1>3. SessionOK(c)'
    <2>1. /\ SessionOK(c)
          /\ Head(toServer[c]) \in Mail(toServer[c])
          /\ Mail(toServer'[c]) \subseteq Mail(toServer[c])
        BY WireReceived DEF TypeOK, Wires
    <2>2. /\ worker[c] = "waitReady" /\ worker'[c] = "sending" /\ Serving(c) /\ c \notin committed
          /\ client[c] \in {"receive", "crashed"} /\ job[c].opt = "DOWNLOAD"
        BY <2>1, TypesOfJobs DEF TypeOK, Job, SessionOK, Announced, Answered, Asked, Attended, Abreast,
              Unread, Keyed, Decided, Serving, Holds, Exchanged, Up, Gone, Over
    <2>3. UNCHANGED <<job, process, thread, recvBuf, locks, keys, store, peer, toClient, committed>>
        OBVIOUS
    <2> HIDE DEF Inv, RestoreReady, WorkerGoto, Receives
    <2> USE DEF SessionOK
    <2>4. Locked(c)' /\ Keyed(c)'
        BY <2>1, <2>2, <2>3 DEF Locked, Keyed, Holds, Exchanged, Serving, Id
    <2>5. Asked(c)' /\ Attended(c)' /\ Abreast(c)'
        BY <2>1, <2>2, <2>3 DEF Asked, Attended, Abreast, Holds, Serving, Up, Gone, Over
    <2>6. Announced(c)' /\ Answered(c)'
        BY <2>1, <2>2, <2>3 DEF Announced, Answered, Holds, Exchanged
    <2>7. Unread(c)' /\ Decided(c)' /\ Listed(c)'
        BY <2>1, <2>2, <2>3 DEF Unread, Decided, Listed, Serving
    <2> QED
        BY <2>4, <2>5, <2>6, <2>7
<1>4. RecipesOK'
    BY <1>1, RecipesKept DEF TypeOK, Serving
<1> QED
    BY <1>1, <1>2, <1>3, <1>4, OneSession

LEMMA RestoreFinalInv ==
    ASSUME Inv, NEW c \in Conn, RestoreFinal(c)
    PROVE  Inv'
<1> USE DEF Inv, RestoreFinal, WorkerGoto
<1>0. /\ toClient' \in Wires /\ \A d \in Conn \ {c} : toClient'[d] = toClient[d]
      /\ Mail(toClient'[c]) = Mail(toClient[c]) \cup {[type |-> "SERVER_RESTORE_FINAL"]}
    <2>1. toClient \in Wires /\ [type |-> "SERVER_RESTORE_FINAL"] \in Message
        BY DEF TypeOK, Wires, Message
    <2>2. toClient' = Sent(toClient, c, [type |-> "SERVER_RESTORE_FINAL"])
        OBVIOUS
    <2> QED
        BY <2>1, <2>2, WireSent
<1>1. TypeOK /\ TypeOK'
    BY <1>0 DEF TypeOK, Wires
<1>2. \A d \in Conn \ {c} : SameSession(d) /\ Steady(d)
    BY <1>0 DEF TypeOK, Wires, SameSession, Steady, SessionOK, Locked, Keyed, Up
<1>3. SessionOK(c)'
    <2>1. /\ SessionOK(c)
          /\ Mail(toClient'[c]) = Mail(toClient[c]) \cup {[type |-> "SERVER_RESTORE_FINAL"]}
        BY <1>0
    <2>2. /\ worker[c] = "sending" /\ worker'[c] = "lastWait" /\ Serving(c) /\ c \notin committed
          /\ client[c] \in {"receive", "crashed"} /\ job[c].opt = "DOWNLOAD"
        BY <2>1, TypesOfJobs DEF TypeOK, Job, SessionOK, Announced, Answered, Asked, Attended, Abreast,
              Unread, Keyed, Decided, Serving, Holds, Exchanged, Up, Gone, Over
    <2>3. UNCHANGED <<job, process, thread, recvBuf, locks, keys, store, peer, toServer, committed>>
        OBVIOUS
    <2> HIDE DEF Inv, RestoreFinal, WorkerGoto
    <2> USE DEF SessionOK
    <2>4. Locked(c)' /\ Keyed(c)'
        BY <2>1, <2>2, <2>3 DEF Locked, Keyed, Holds, Exchanged, Serving, Id
    <2>5. Asked(c)' /\ Attended(c)' /\ Abreast(c)'
        BY <2>1, <2>2, <2>3 DEF Asked, Attended, Abreast, Holds, Serving, Up, Gone, Over
    <2>6. Announced(c)' /\ Answered(c)'
        BY <2>1, <2>2, <2>3 DEF Announced, Answered, Holds, Exchanged
    <2>7. Unread(c)' /\ Decided(c)' /\ Listed(c)'
        BY <2>1, <2>2, <2>3 DEF Unread, Decided, Listed, Serving
    <2> QED
        BY <2>4, <2>5, <2>6, <2>7
<1>4. RecipesOK'
    BY <1>1, RecipesKept DEF TypeOK, Serving
<1> QED
    BY <1>1, <1>2, <1>3, <1>4, OneSession

LEMMA SendRADecisionInv ==
    ASSUME Inv, NEW c \in Conn, SendRADecision(c)
    PROVE  Inv'
<1> USE DEF Inv, SendRADecision, ClientGoto, ClientSends
<1> DEFINE need == [type |-> "SGX_RA_NOT_NEED"]
           init == [type |-> "SESSION_KEY_INIT", part |-> c]
           refuse == [type |-> "SGX_RA_NOT_SUPPORT"]
<1>5. /\ toServer \in Wires /\ need \in Message /\ init \in Message /\ refuse \in Message
      /\ \/ job[c].opt # "RA" /\ toServer' = SentAll(toServer, c, <<need, init>>)
         \/ job[c].opt = "RA" /\ toServer' = SentAll(toServer, c, <<refuse>>)
    BY DEF TypeOK, Wires, Message, SentAll
<1>0. /\ toServer' \in Wires /\ \A d \in Conn \ {c} : toServer'[d] = toServer[d]
      /\ toServer'[c] # <<>>
      /\ \/ job[c].opt # "RA" /\ Mail(toServer'[c]) = Mail(toServer[c]) \cup {need, init}
         \/ job[c].opt = "RA" /\ Mail(toServer'[c]) = Mail(toServer[c]) \cup {refuse}
    <2> HIDE DEF need, init, refuse, Inv, SendRADecision, ClientGoto, ClientSends
    <2>1. CASE toServer' = SentAll(toServer, c, <<need, init>>) /\ job[c].opt # "RA"
        <3>1. /\ SentAll(toServer, c, <<need, init>>) \in Wires
              /\ \A d \in Conn \ {c} : SentAll(toServer, c, <<need, init>>)[d] = toServer[d]
              /\ Mail(SentAll(toServer, c, <<need, init>>)[c]) = Mail(toServer[c]) \cup {need, init}
              /\ SentAll(toServer, c, <<need, init>>)[c] # <<>>
            BY <1>5, ClientSentTwo, ZenonT(60)
        <3> QED BY <2>1, <3>1, Zenon
    <2>2. CASE toServer' = SentAll(toServer, c, <<refuse>>) /\ job[c].opt = "RA"
        <3>1. /\ SentAll(toServer, c, <<refuse>>) \in Wires
              /\ \A d \in Conn \ {c} : SentAll(toServer, c, <<refuse>>)[d] = toServer[d]
              /\ Mail(SentAll(toServer, c, <<refuse>>)[c]) = Mail(toServer[c]) \cup {refuse}
              /\ SentAll(toServer, c, <<refuse>>)[c] # <<>>
            BY <1>5, ClientSent, Zenon
        <3> QED BY <2>2, <3>1, Zenon
    <2> QED BY <1>5, <2>1, <2>2
<1>1. TypeOK /\ TypeOK'
    BY <1>0 DEF TypeOK, Wires
<1>2. \A d \in Conn \ {c} : SameSession(d) /\ Steady(d)
    BY <1>0 DEF TypeOK, Wires, SameSession, Steady, SessionOK, Locked, Keyed, Up
<1>3. SessionOK(c)'
    <2>1. /\ SessionOK(c)
          /\ toServer'[c] # <<>>
          /\ \/ job[c].opt # "RA" /\ Mail(toServer'[c]) = Mail(toServer[c]) \cup {need, init}
             \/ job[c].opt = "RA" /\ Mail(toServer'[c]) = Mail(toServer[c]) \cup {refuse}
        BY <1>0
    <2>2. /\ client[c] = "connected" /\ thread[c] = "ra" /\ worker[c] = "none"
          /\ \/ job[c].opt # "RA" /\ client'[c] = "keyReply"
             \/ job[c].opt = "RA" /\ client'[c] = "closing"
        BY <2>1, TypesOfJobs DEF TypeOK, Job, SessionOK, Announced, Answered, Asked, Attended, Abreast,
              Unread, Keyed, Decided, Serving, Holds, Exchanged, Up, Gone, Over
    <2>3. UNCHANGED <<job, process, thread, worker, recvBuf, locks, keys, store, clientKey, mortal, toClient, committed>>
        OBVIOUS
    <2> HIDE DEF Inv, SendRADecision, ClientGoto, ClientSends
    <2> USE DEF SessionOK
    <2>4. Locked(c)' /\ Keyed(c)'
        BY <2>1, <2>2, <2>3 DEF Locked, Keyed, Holds, Exchanged, Serving, Id
    <2>5. Asked(c)' /\ Attended(c)' /\ Abreast(c)'
        BY <2>1, <2>2, <2>3 DEF Asked, Attended, Abreast, Holds, Serving, Up, Gone, Over
    <2>6. Announced(c)' /\ Answered(c)'
        BY <2>1, <2>2, <2>3 DEF Announced, Answered, Holds, Exchanged
    <2>7. Unread(c)' /\ Decided(c)' /\ Listed(c)'
        BY <2>1, <2>2, <2>3 DEF Unread, Decided, Listed, Serving
    <2> QED
        BY <2>4, <2>5, <2>6, <2>7
<1>4. RecipesOK'
    BY <1>1, RecipesKept DEF TypeOK, Serving
<1> QED
    BY <1>1, <1>2, <1>3, <1>4, OneSession

LEMMA SendLoginInv ==
    ASSUME Inv, NEW c \in Conn, SendLogin(c)
    PROVE  Inv'
<1> USE DEF Inv, SendLogin, ClientGoto, ClientSends, Receives
<1>6. /\ toClient' \in Wires /\ \A d \in Conn \ {c} : toClient'[d] = toClient[d]
      /\ Mail(toClient'[c]) \subseteq Mail(toClient[c])
      /\ Head(toClient[c]) \in Mail(toClient[c]) /\ Head(toClient[c]).type = "SESSION_KEY_REPLY"
    BY WireReceived DEF TypeOK, Wires
<1>8. Head(toClient[c]).part = c
    BY <1>6 DEF SessionOK, Answered
<1> DEFINE up == job[c].opt = "UPLOAD"
           type == IF up THEN "CLIENT_LOGIN_UPLOAD" ELSE "CLIENT_LOGIN_DOWNLOAD"
           m == [type |-> type, path |-> job[c].path]
<1>5. toServer \in Wires /\ m \in Message
    BY TypesOfJobs DEF TypeOK, Wires, Message
<1>7. /\ toServer' \in Wires /\ \A d \in Conn \ {c} : toServer'[d] = toServer[d]
      /\ Mail(toServer'[c]) = Mail(toServer[c]) \cup {m} /\ toServer'[c] # <<>>
    <2>1. toServer' = SentAll(toServer, c, <<m>>)
        BY DEF SentAll
    <2> HIDE DEF m, Inv, SendLogin, ClientGoto, ClientSends, Receives
    <2>2. /\ SentAll(toServer, c, <<m>>) \in Wires
          /\ \A d \in Conn \ {c} : SentAll(toServer, c, <<m>>)[d] = toServer[d]
          /\ Mail(SentAll(toServer, c, <<m>>)[c]) = Mail(toServer[c]) \cup {m}
          /\ SentAll(toServer, c, <<m>>)[c] # <<>>
        BY <1>5, ClientSent, Zenon
    <2> QED BY <2>1, <2>2, Zenon
<1>1. TypeOK /\ TypeOK'
    BY <1>6, <1>7, <1>8, SMTT(40) DEF TypeOK, Wires, DerivedShared, Key
<1>2. \A d \in Conn \ {c} : SameSession(d) /\ Steady(d)
    BY <1>6, <1>7, <1>8 DEF TypeOK, Wires, SameSession, Steady, SessionOK, Locked, Keyed, Up, DerivedShared, Key
<1>3. SessionOK(c)'
    <2>1. /\ SessionOK(c)
          /\ Mail(toClient'[c]) \subseteq Mail(toClient[c])
          /\ Head(toClient[c]) \in Mail(toClient[c]) /\ Head(toClient[c]).part = c
          /\ Mail(toServer'[c]) = Mail(toServer[c]) \cup {m} /\ toServer'[c] # <<>>
        BY <1>6, <1>7, <1>8
    <2>2. /\ client[c] = "keyReply" /\ client'[c] = "login" /\ thread[c] = "login" /\ worker[c] = "none"
          /\ job[c].opt \in {"UPLOAD", "DOWNLOAD"} /\ clientKey'[c] = KeyOf(c)
        BY <2>1, TypesOfJobs DEF TypeOK, Job, SessionOK, Announced, Answered, Asked, Attended, Abreast,
              Unread, Keyed, Decided, Serving, Holds, Exchanged, Up, Gone, Over, KeyOf
    <2>3. UNCHANGED <<job, process, thread, worker, recvBuf, locks, keys, store, mortal, committed>>
        OBVIOUS
    <2> HIDE DEF Inv, SendLogin, ClientGoto, ClientSends, Receives
    <2> USE DEF SessionOK
    <2>4. Locked(c)' /\ Keyed(c)'
        BY <2>1, <2>2, <2>3 DEF Locked, Keyed, Holds, Exchanged, Serving, Id
    <2>5. Asked(c)' /\ Attended(c)' /\ Abreast(c)'
        BY <2>1, <2>2, <2>3 DEF Asked, Attended, Abreast, Holds, Serving, Up, Gone, Over
    <2>6. Announced(c)' /\ Answered(c)'
        BY <2>1, <2>2, <2>3 DEF Announced, Answered, Holds, Exchanged
    <2>7. Unread(c)' /\ Decided(c)' /\ Listed(c)'
        BY <2>1, <2>2, <2>3 DEF Unread, Decided, Listed, Serving
    <2> QED
        BY <2>4, <2>5, <2>6, <2>7
<1>4. RecipesOK'
    BY <1>1, RecipesKept DEF TypeOK, Serving
<1> QED
    BY <1>1, <1>2, <1>3, <1>4, OneSession

LEMMA ReceiveLoginReplyInv ==
    ASSUME Inv, NEW c \in Conn, ReceiveLoginReply(c)
    PROVE  Inv'
<1> USE DEF Inv, ReceiveLoginReply, ClientGoto, Receives
<1>1. TypeOK /\ TypeOK'
    BY WireReceived DEF TypeOK, Wires
<1>2. \A d \in Conn \ {c} : SameSession(d) /\ Steady(d)
    BY WireReceived DEF TypeOK, Wires, SameSession, Steady, SessionOK, Locked, Keyed, Up
<1>3. SessionOK(c)'
    <2>1. /\ SessionOK(c)
          /\ Head(toClient[c]) \in Mail(toClient[c])
          /\ Mail(toClient'[c]) \subseteq Mail(toClient[c])
        BY WireReceived DEF TypeOK, Wires
    <2>2. /\ client[c] = "login" /\ job[c].opt # "RA"
          /\ \/ /\ thread[c] = "join"
                /\ \/ worker[c] = "receiving" /\ client'[c] = "upload"
                   \/ worker[c] = "waitReady" /\ client'[c] = "restore"
             \/ /\ thread[c] = "refused" /\ worker[c] = "none" /\ client'[c] = "failed"
        BY <2>1, TypesOfJobs DEF TypeOK, Job, SessionOK, Announced, Answered, Asked, Attended, Abreast,
              Unread, Keyed, Decided, Serving, Holds, Exchanged, Up, Gone, Over
    <2>3. UNCHANGED <<job, process, thread, worker, recvBuf, locks, keys, store, clientKey, mortal, toServer, committed>>
        OBVIOUS
    <2> HIDE DEF Inv, ReceiveLoginReply, ClientGoto, Receives
    <2> USE DEF SessionOK
    <2>4. Locked(c)' /\ Keyed(c)'
        BY <2>1, <2>2, <2>3 DEF Locked, Keyed, Holds, Exchanged, Serving, Id
    <2>5. Asked(c)' /\ Attended(c)' /\ Abreast(c)'
        BY <2>1, <2>2, <2>3 DEF Asked, Attended, Abreast, Holds, Serving, Up, Gone, Over
    <2>6. Announced(c)' /\ Answered(c)'
        BY <2>1, <2>2, <2>3 DEF Announced, Answered, Holds, Exchanged
    <2>7. Unread(c)' /\ Decided(c)' /\ Listed(c)'
        BY <2>1, <2>2, <2>3 DEF Unread, Decided, Listed, Serving
    <2> QED
        BY <2>4, <2>5, <2>6, <2>7
<1>4. RecipesOK'
    BY <1>1, RecipesKept DEF TypeOK, Serving
<1> QED
    BY <1>1, <1>2, <1>3, <1>4, OneSession

LEMMA SendRecipeEndInv ==
    ASSUME Inv, NEW c \in Conn, SendRecipeEnd(c)
    PROVE  Inv'
<1> USE DEF Inv, SendRecipeEnd, ClientGoto, ClientSends
<1> DEFINE chunk == [type |-> "CLIENT_UPLOAD_CHUNK"]
           end == [type |-> "CLIENT_UPLOAD_RECIPE_END"]
<1>5. /\ toServer \in Wires /\ chunk \in Message /\ end \in Message
      /\ toServer' = SentAll(toServer, c, <<chunk, end>>)
    BY DEF TypeOK, Wires, Message, SentAll
<1>0. /\ toServer' \in Wires /\ \A d \in Conn \ {c} : toServer'[d] = toServer[d]
      /\ Mail(toServer'[c]) = Mail(toServer[c]) \cup {chunk, end}
      /\ toServer'[c] # <<>>
    <2> HIDE DEF chunk, end, Inv, SendRecipeEnd, ClientGoto, ClientSends
    <2>2. /\ SentAll(toServer, c, <<chunk, end>>) \in Wires
          /\ \A d \in Conn \ {c} : SentAll(toServer, c, <<chunk, end>>)[d] = toServer[d]
          /\ Mail(SentAll(toServer, c, <<chunk, end>>)[c]) = Mail(toServer[c]) \cup {chunk, end}
          /\ SentAll(toServer, c, <<chunk, end>>)[c] # <<>>
        BY <1>5, ClientSentTwo, ZenonT(60)
    <2> QED
        BY <1>5, <2>2, Zenon
<1>1. TypeOK /\ TypeOK'
    BY <1>0 DEF TypeOK, Wires
<1>2. \A d \in Conn \ {c} : SameSession(d) /\ Steady(d)
    BY <1>0 DEF TypeOK, Wires, SameSession, Steady, SessionOK, Locked, Keyed, Up
<1>3. SessionOK(c)'
    <2>1. /\ SessionOK(c)
          /\ Mail(toServer'[c]) = Mail(toServer[c]) \cup {chunk, end}
          /\ toServer'[c] # <<>>
        BY <1>0
    <2>2. /\ client[c] = "upload" /\ client'[c] = "closing"
          /\ thread[c] = "join" /\ worker[c] = "receiving"
        BY <2>1, TypesOfJobs DEF TypeOK, Job, SessionOK, Announced, Answered, Asked, Attended, Abreast,
              Unread, Keyed, Decided, Serving, Holds, Exchanged, Up, Gone, Over
    <2>3. UNCHANGED <<job, process, thread, worker, recvBuf, locks, keys, store, clientKey, mortal, toClient, committed>>
        OBVIOUS
    <2> HIDE DEF Inv, SendRecipeEnd, ClientGoto, ClientSends
    <2> USE DEF SessionOK
    <2>4. Locked(c)' /\ Keyed(c)'
        BY <2>1, <2>2, <2>3 DEF Locked, Keyed, Holds, Exchanged, Serving, Id
    <2>5. Asked(c)' /\ Attended(c)' /\ Abreast(c)'
        BY <2>1, <2>2, <2>3 DEF Asked, Attended, Abreast, Holds, Serving, Up, Gone, Over
    <2>6. Announced(c)' /\ Answered(c)'
        BY <2>1, <2>2, <2>3 DEF Announced, Answered, Holds, Exchanged
    <2>7. Unread(c)' /\ Decided(c)' /\ Listed(c)'
        BY <2>1, <2>2, <2>3 DEF Unread, Decided, Listed, Serving
    <2> QED
        BY <2>4, <2>5, <2>6, <2>7
<1>4. RecipesOK'
    BY <1>1, RecipesKept DEF TypeOK, Serving
<1> QED
    BY <1>1, <1>2, <1>3, <1>4, OneSession

LEMMA SendRestoreReadyInv ==
    ASSUME Inv, NEW c \in Conn, SendRestoreReady(c)
    PROVE  Inv'
<1> USE DEF Inv, SendRestoreReady, ClientGoto, ClientSends
<1>0. /\ toServer' \in Wires /\ \A d \in Conn \ {c} : toServer'[d] = toServer[d]
      /\ Mail(toServer'[c]) = Mail(toServer[c]) \cup {[type |-> "CLIENT_RESTORE_READY"]}
      /\ toServer'[c] # <<>>
    <2> DEFINE m == [type |-> "CLIENT_RESTORE_READY"]
    <2>1. toServer \in Wires /\ m \in Message /\ toServer' = SentAll(toServer, c, <<m>>)
        BY DEF TypeOK, Wires, Message, SentAll
    <2> HIDE DEF m
    <2>2. /\ SentAll(toServer, c, <<m>>) \in Wires
          /\ \A d \in Conn \ {c} : SentAll(toServer, c, <<m>>)[d] = toServer[d]
          /\ Mail(SentAll(toServer, c, <<m>>)[c]) = Mail(toServer[c]) \cup {m}
          /\ SentAll(toServer, c, <<m>>)[c] # <<>>
        BY <2>1, ClientSent, Zenon
    <2> QED
        BY <2>1, <2>2, Zenon DEF m
<1>1. TypeOK /\ TypeOK'
    BY <1>0 DEF TypeOK, Wires
<1>2. \A d \in Conn \ {c} : SameSession(d) /\ Steady(d)
    BY <1>0 DEF TypeOK, Wires, SameSession, Steady, SessionOK, Locked, Keyed, Up
<1>3. SessionOK(c)'
    <2>1. /\ SessionOK(c)
          /\ Mail(toServer'[c]) = Mail(toServer[c]) \cup {[type |-> "CLIENT_RESTORE_READY"]}
          /\ toServer'[c] # <<>>
        BY <1>0
    <2>2. /\ client[c] = "restore" /\ client'[c] = "receive"
          /\ thread[c] = "join" /\ worker[c] = "waitReady"
        BY <2>1, TypesOfJobs DEF TypeOK, Job, SessionOK, Announced, Answered, Asked, Attended, Abreast,
              Unread, Keyed, Decided, Serving, Holds, Exchanged, Up, Gone, Over
    <2>3. UNCHANGED <<job, process, thread, worker, recvBuf, locks, keys, store, clientKey, mortal, toClient, committed>>
        OBVIOUS
    <2> HIDE DEF Inv, SendRestoreReady, ClientGoto, ClientSends
    <2> USE DEF SessionOK
    <2>4. Locked(c)' /\ Keyed(c)'
        BY <2>1, <2>2, <2>3 DEF Locked, Keyed, Holds, Exchanged, Serving, Id
    <2>5. Asked(c)' /\ Attended(c)' /\ Abreast(c)'
        BY <2>1, <2>2, <2>3 DEF Asked, Attended, Abreast, Holds, Serving, Up, Gone, Over
    <2>6. Announced(c)' /\ Answered(c)'
        BY <2>1, <2>2, <2>3 DEF Announced, Answered, Holds, Exchanged
    <2>7. Unread(c)' /\ Decided(c)' /\ Listed(c)'
        BY <2>1, <2>2, <2>3 DEF Unread, Decided, Listed, Serving
    <2> QED
        BY <2>4, <2>5, <2>6, <2>7
<1>4. RecipesOK'
    BY <1>1, RecipesKept DEF TypeOK, Serving
<1> QED
    BY <1>1, <1>2, <1>3, <1>4, OneSession

LEMMA ReceiveRestoreFinalInv ==
    ASSUME Inv, NEW c \in Conn, ReceiveRestoreFinal(c)
    PROVE  Inv'
<1> USE DEF Inv, ReceiveRestoreFinal, ClientGoto, Receives
<1>1. TypeOK /\ TypeOK'
    BY WireReceived DEF TypeOK, Wires
<1>2. \A d \in Conn \ {c} : SameSession(d) /\ Steady(d)
    BY WireReceived DEF TypeOK, Wires, SameSession, Steady, SessionOK, Locked, Keyed, Up
<1>3. SessionOK(c)'
    <2>1. /\ SessionOK(c)
          /\ Head(toClient[c]) \in Mail(toClient[c])
          /\ Mail(toClient'[c]) \subseteq Mail(toClient[c])
        BY WireReceived DEF TypeOK, Wires
    <2>2. /\ client[c] = "receive" /\ client'[c] = "closing"
          /\ Serving(c) /\ worker[c] = "lastWait"
        BY <2>1, TypesOfJobs DEF TypeOK, Job, SessionOK, Announced, Answered, Asked, Attended, Abreast,
              Unread, Keyed, Decided, Serving, Holds, Exchanged, Up, Gone, Over
    <2>3. UNCHANGED <<job, process, thread, worker, recvBuf, locks, keys, store, clientKey, mortal, toServer, committed>>
        OBVIOUS
    <2> HIDE DEF Inv, ReceiveRestoreFinal, ClientGoto, Receives
    <2> USE DEF SessionOK
    <2>4. Locked(c)' /\ Keyed(c)'
        BY <2>1, <2>2, <2>3 DEF Locked, Keyed, Holds, Exchanged, Serving, Id
    <2>5. Asked(c)' /\ Attended(c)' /\ Abreast(c)'
        BY <2>1, <2>2, <2>3 DEF Asked, Attended, Abreast, Holds, Serving, Up, Gone, Over
    <2>6. Announced(c)' /\ Answered(c)'
        BY <2>1, <2>2, <2>3 DEF Announced, Answered, Holds, Exchanged
    <2>7. Unread(c)' /\ Decided(c)' /\ Listed(c)'
        BY <2>1, <2>2, <2>3 DEF Unread, Decided, Listed, Serving
    <2> QED
        BY <2>4, <2>5, <2>6, <2>7
<1>4. RecipesOK'
    BY <1>1, RecipesKept DEF TypeOK, Serving
<1> QED
    BY <1>1, <1>2, <1>3, <1>4, OneSession

LEMMA FinishedInv ==
    ASSUME Inv, NEW c \in Conn, Finished(c)
    PROVE  Inv'
<1> USE DEF Inv, Finished, ClientGoto, Receives
<1>1. TypeOK /\ TypeOK'
    BY WireReceived DEF TypeOK, Wires
<1>2. \A d \in Conn \ {c} : SameSession(d) /\ Steady(d)
    BY WireReceived DEF TypeOK, Wires, SameSession, Steady, SessionOK, Locked, Keyed, Up
<1>3. SessionOK(c)'
    <2>1. /\ SessionOK(c)
          /\ Head(toClient[c]) \in Mail(toClient[c])
          /\ Mail(toClient'[c]) \subseteq Mail(toClient[c])
        BY WireReceived DEF TypeOK, Wires
    <2>2. /\ client[c] = "closing" /\ client'[c] = "finished"
          /\ thread[c] = "returned" \/ worker[c] = "ended"
          /\ job[c].opt = "UPLOAD" => c \in committed
        BY <2>1, TypesOfJobs DEF TypeOK, Job, SessionOK, Announced, Answered, Asked, Attended, Abreast,
              Unread, Keyed, Decided, Serving, Holds, Exchanged, Up, Gone, Over
    <2>3. UNCHANGED <<job, process, thread, worker, recvBuf, locks, keys, store, clientKey, mortal, toServer, committed>>
        OBVIOUS
    <2> HIDE DEF Inv, Finished, ClientGoto, Receives
    <2> USE DEF SessionOK
    <2>4. Locked(c)' /\ Keyed(c)'
        BY <2>1, <2>2, <2>3 DEF Locked, Keyed, Holds, Exchanged, Serving, Id
    <2>5. Asked(c)' /\ Attended(c)' /\ Abreast(c)'
        BY <2>1, <2>2, <2>3 DEF Asked, Attended, Abreast, Holds, Serving, Up, Gone, Over
    <2>6. Announced(c)' /\ Answered(c)'
        BY <2>1, <2>2, <2>3 DEF Announced, Answered, Holds, Exchanged
    <2>7. Unread(c)' /\ Decided(c)' /\ Listed(c)'
        BY <2>1, <2>2, <2>3 DEF Unread, Decided, Listed, Serving
    <2> QED
        BY <2>4, <2>5, <2>6, <2>7
<1>4. RecipesOK'
    BY <1>1, RecipesKept DEF TypeOK, Serving
<1> QED
    BY <1>1, <1>2, <1>3, <1>4, OneSession

(* A client that dies takes the end of its messages with it, and may leave a *)
(* part of one behind.                                                        *)
LEMMA CrashInv ==
    ASSUME Inv, NEW c \in Conn, Crash(c)
    PROVE  Inv'
<1> USE DEF Inv, Crash, Live
<1>0. /\ toServer' \in Wires /\ \A d \in Conn \ {c} : toServer'[d] = toServer[d]
      /\ Mail(toServer'[c]) \subseteq Mail(toServer[c]) \cup {Torn}
    <2>1. PICK n \in 0 .. Len(toServer[c]) :
             \/ toServer' = [toServer EXCEPT ![c] = SubSeq(@, 1, n)]
             \/ toServer' = [toServer EXCEPT ![c] = Append(SubSeq(@, 1, n), Torn)]
        OBVIOUS
    <2> DEFINE s == SubSeq(toServer[c], 1, n)
    <2>2. toServer \in Wires /\ toServer[c] \in Seq(Message) /\ Torn \in Message
        BY DEF TypeOK, Wires, Message, Torn
    <2>3. s \in Seq(Message) /\ Mail(s) \subseteq Mail(toServer[c])
        BY <2>2, MailOfPrefix
    <2>4. toServer' = [toServer EXCEPT ![c] = s] \/ toServer' = [toServer EXCEPT ![c] = Append(s, Torn)]
        BY <2>1
    <2> HIDE DEF s
    <2>5. Append(s, Torn) \in Seq(Message) /\ Mail(Append(s, Torn)) = Mail(s) \cup {Torn}
        BY <2>2, <2>3, MailOfAppend
    <2> HIDE DEF Inv, Crash, Live
    <2> QED
        BY <2>2, <2>3, <2>4, <2>5 DEF Wires
<1>1. TypeOK /\ TypeOK'
    BY <1>0 DEF TypeOK, Wires
<1>2. \A d \in Conn \ {c} : SameSession(d) /\ Steady(d)
    BY <1>0 DEF TypeOK, Wires, SameSession, Steady, SessionOK, Locked, Keyed, Up
<1>3. SessionOK(c)'
    <2>1. /\ SessionOK(c) /\ Mail(toServer'[c]) \subseteq Mail(toServer[c]) \cup {Torn}
          /\ Torn.type = "TORN"
        BY <1>0 DEF Torn
    <2>2. /\ client'[c] = "crashed" /\ client[c] \notin Over /\ thread[c] # "none"
        BY <2>1 DEF TypeOK, SessionOK, Abreast, Over
    <2>3. UNCHANGED <<job, process, thread, worker, recvBuf, locks, keys, store, clientKey,
                      toClient, committed>>
        OBVIOUS
    <2> HIDE DEF Inv, Crash, Live
    <2> USE DEF SessionOK
    <2>4. Locked(c)' /\ Keyed(c)'
        BY <2>1, <2>2, <2>3 DEF Locked, Keyed, Holds, Exchanged, Serving, Id
    <2>5. Asked(c)' /\ Attended(c)' /\ Abreast(c)'
        BY <2>1, <2>2, <2>3 DEF Asked, Attended, Abreast, Holds, Serving, Up, Gone, Over
    <2>6. Announced(c)' /\ Answered(c)'
        BY <2>1, <2>2, <2>3 DEF Announced, Answered, Holds, Exchanged
    <2>7. Unread(c)' /\ Decided(c)' /\ Listed(c)'
        BY <2>1, <2>2, <2>3 DEF Unread, Decided, Listed, Serving
    <2> QED
        BY <2>4, <2>5, <2>6, <2>7
<1>4. RecipesOK'
    BY <1>1, RecipesKept DEF TypeOK, Serving
<1> QED
    BY <1>1, <1>2, <1>3, <1>4, OneSession

(* The accept loop. *)
LEMMA AcceptInv ==
    ASSUME Inv, NEW c \in Conn, Accept(c)
    PROVE  Inv'
<1> USE DEF Inv, Accept, Goto
<1>1. TypeOK /\ TypeOK'
    BY DEF TypeOK
<1>2. \A d \in Conn \ {c} : SameSession(d) /\ Steady(d)
    BY SessionAssumption DEF TypeOK, SameSession, Steady, SessionOK, Locked, Keyed, Up
<1>3. SessionOK(c)'
    <2>1. SessionOK(c)
        OBVIOUS
    <2>2. /\ thread[c] = "none" /\ thread'[c] = "ra" /\ worker[c] = "none"
          /\ client[c] = "none" /\ client'[c] = "connected" /\ main' = c
        BY <2>1 DEF TypeOK, SessionOK, Abreast, Attended, Serving
    <2>3. UNCHANGED <<job, server, thList, worker, recvBuf, locks, keys, store,
                      clientKey, mortal, wires, committed>>
        OBVIOUS
    <2> HIDE DEF Inv, Accept, Goto
    <2> USE DEF SessionOK
    <2>4. Locked(c)' /\ Keyed(c)'
        BY <2>1, <2>2, <2>3 DEF Locked, Keyed, Holds, Exchanged, Serving, Id
    <2>5. Asked(c)' /\ Attended(c)' /\ Abreast(c)'
        BY <2>1, <2>2, <2>3 DEF Asked, Attended, Abreast, Holds, Serving, Up, Gone, Over
    <2>6. Announced(c)' /\ Answered(c)'
        BY <2>1, <2>2, <2>3 DEF Announced, Answered, Holds, Exchanged
    <2>7. Unread(c)' /\ Decided(c)' /\ Listed(c)'
        BY <2>1, <2>2, <2>3 DEF Unread, Decided, Listed, Serving
    <2> QED
        BY <2>4, <2>5, <2>6, <2>7
<1>4. RecipesOK'
    <2>1. client[c] # "crashed"
        BY DEF SessionOK, Abreast
    <2> QED
        BY <1>1, <2>1 DEF TypeOK, Serving, RecipesOK, Unfinished, Traced, PartialExplained, ExitExplained, Up
<1> QED
    BY <1>1, <1>2, <1>3, <1>4, OneSession

(* Steps of the process as a whole leave every session as it is. *)
LEMMA AllSessions ==
    ASSUME Inv, TypeOK', \A d \in Conn : SameSession(d) /\ Steady(d),
           RecipesOK'
    PROVE  Inv'
BY Untouched DEF Inv

LEMMA PushBackInv ==
    ASSUME Inv, PushBack
    PROVE  Inv'
<1> USE DEF Inv, PushBack
<1>1. TypeOK /\ TypeOK'
    BY DEF TypeOK
<1>2. \A d \in Conn : SameSession(d) /\ Steady(d)
    BY DEF TypeOK, SameSession, Steady, SessionOK, Locked, Keyed, Up
<1>3. RecipesOK'
    BY DEF Serving, RecipesOK, Unfinished, Traced, PartialExplained, ExitExplained, Up
<1> QED
    BY <1>1, <1>2, <1>3, AllSessions

LEMMA InterruptInv ==
    ASSUME Inv, Interrupt
    PROVE  Inv'
<1> USE DEF Inv, Interrupt, ServerBecomes
<1>1. TypeOK /\ TypeOK'
    BY DEF TypeOK
<1>2. \A d \in Conn : SameSession(d) /\ Steady(d)
    BY DEF TypeOK, SameSession, Steady, SessionOK, Locked, Keyed, Up
<1>3. RecipesOK'
    BY DEF Serving, RecipesOK, Unfinished, Traced, PartialExplained, ExitExplained, Up
<1> QED
    BY <1>1, <1>2, <1>3, AllSessions

(* CTRLC has joined every listed thread: what is still being uploaded is the *)
(* session main had not listed.                                              *)
LEMMA StopInv ==
    ASSUME Inv, Stop
    PROVE  Inv'
<1> USE DEF Inv, Stop, ServerBecomes
<1>1. TypeOK /\ TypeOK'
    BY DEF TypeOK
<1>2. \A d \in Conn : SameSession(d) /\ Steady(d)
    BY DEF TypeOK, SameSession, Steady, SessionOK, Locked, Keyed, Up
<1>3. \A d \in Conn : Serving(d) => main = d
    BY DEF SessionOK, Listed, Serving
<1>4. Unfinished' /\ Traced' /\ ExitExplained'
    BY DEF RecipesOK, Unfinished, Traced, ExitExplained
<1>5. PartialExplained'
    BY <1>3 DEF RecipesOK, Unfinished, PartialExplained, Up
<1> QED
    BY <1>1, <1>2, <1>4, <1>5, AllSessions DEF RecipesOK

(* exit in a thread or in a worker: its client has died, or a container of   *)
(* its recipe is one of an upload that goes on or whose client has died.      *)
LEMMA ExitInv ==
    ASSUME Inv, NEW c \in Conn, ThreadExit(c) \/ WorkerExit(c)
    PROVE  Inv'
<1> USE DEF Inv, ThreadExit, WorkerExit, ServerBecomes
<1>1. TypeOK /\ TypeOK'
    BY DEF TypeOK
<1>2. \A d \in Conn : SameSession(d) /\ Steady(d)
    BY DEF TypeOK, SameSession, Steady, SessionOK, Locked, Keyed, Up
<1>0. UNCHANGED <<job, thread, worker, client, recipe>> /\ server' = "exited"
    OBVIOUS
<1>4. ASSUME NEW w \in recipe[job[c].path].refs, worker[c] = "sending", ~ Kept(w)
      PROVE  ExitExplained'
    <2>1. w \in indexed /\ (w # None => w \in Conn)
        BY <1>4 DEF RecipesOK, Traced, TypeOK
    <2>2. ASSUME w # None PROVE Serving(w) \/ client[w] = "crashed"
        <3>1. w \in Conn /\ job[w].opt = "UPLOAD" /\ worker[w] # "none"
            BY <2>1, <2>2 DEF RecipesOK, Traced
        <3>2. Serving(w) \/ (thread[w] = "returned" /\ worker[w] = "ended")
            BY <3>1 DEF SessionOK, Attended, Serving
        <3> QED
            BY <1>4, <3>1, <3>2 DEF SessionOK, Decided, Kept
    <2> HIDE DEF Inv, ThreadExit, WorkerExit, ServerBecomes
    <2> QED
        BY <1>0, <1>4, <2>2 DEF ExitExplained, Serving
<1>5. ExitExplained'
    <2>1. CASE ThreadExit(c)
        <3>1. thread[c] \in {"ra", "keyInit", "exchange", "login", "refuse", "respond"}
            BY <2>1
        <3>2. client[c] = "crashed"
            BY <2>1 DEF SessionOK, Abreast, Unread, ServerReceiveFails, Gone, Over
        <3> HIDE DEF Inv, ThreadExit, WorkerExit, ServerBecomes
        <3> QED
            BY <1>0, <3>1, <3>2 DEF ExitExplained
    <2>2. CASE worker[c] \in {"waitReady", "sending"} /\ client[c] \in Gone
        <3>1. client[c] = "crashed"
            BY <2>2 DEF SessionOK, Abreast, Gone, Over
        <3> HIDE DEF Inv, ThreadExit, WorkerExit, ServerBecomes
        <3> QED
            BY <1>0, <2>2, <3>1 DEF ExitExplained
    <2> QED
        BY <1>4, <2>1, <2>2 DEF ServerReceiveFails
<1>6. Unfinished' /\ Traced' /\ PartialExplained'
    BY DEF RecipesOK, Unfinished, Traced, PartialExplained
<1> QED
    BY <1>1, <1>2, <1>5, <1>6, AllSessions DEF RecipesOK

(* Clients that notice that the server is gone. *)
LEMMA ClientsFailInv ==
    ASSUME Inv, ClientsFail
    PROVE  Inv'
<1> USE DEF Inv, ClientsFail, Live
<1>1. TypeOK /\ TypeOK'
    BY DEF TypeOK
<1>2. UNCHANGED <<job, process, thread, worker, recvBuf, locks, keys, store, clientKey,
                  mortal, toServer, toClient, committed>> /\ ~ Up
    OBVIOUS
<1>3. ASSUME NEW d \in Conn PROVE SessionOK(d)'
    <2>1. client'[d] = client[d] \/ client'[d] = "failed"
        OBVIOUS
    <2>2. client[d] \in Over => client'[d] = client[d]
        OBVIOUS
    <2>3. SessionOK(d)
        OBVIOUS
    <2> HIDE DEF Inv, ClientsFail, Live
    <2> USE DEF SessionOK
    <2>4. Locked(d)' /\ Keyed(d)'
        BY <1>2, <2>3 DEF Locked, Keyed, Holds, Exchanged, Serving, Id
    <2>5. Asked(d)' /\ Attended(d)' /\ Abreast(d)'
        BY <1>2, <2>1, <2>3 DEF Asked, Attended, Abreast, Holds, Serving, Up
    <2>6. Announced(d)' /\ Answered(d)'
        BY <1>2, <2>1, <2>3 DEF Announced, Answered, Holds, Exchanged
    <2>7. Unread(d)' /\ Decided(d)' /\ Listed(d)'
        BY <1>2, <2>1, <2>2, <2>3 DEF Unread, Decided, Listed, Over
    <2> QED
        BY <2>4, <2>5, <2>6, <2>7
<1>4. \A d \in Conn : client[d] = "crashed" => client'[d] = "crashed"
    BY DEF Over, TypeOK
<1>5. RecipesOK'
    <2>1. RecipesOK
        OBVIOUS
    <2> HIDE DEF Inv, ClientsFail, Live
    <2>2. Unfinished' /\ Traced'
        BY <1>2, <2>1 DEF RecipesOK, Unfinished, Traced
    <2>3. PartialExplained'
        BY <1>1, <1>2, <1>4, <2>1 DEF RecipesOK, Unfinished, PartialExplained, Serving, Up
    <2>4. ExitExplained'
        BY <1>1, <1>2, <1>4, <2>1 DEF RecipesOK, Traced, TypeOK, ExitExplained, Serving
    <2> QED
        BY <2>2, <2>3, <2>4 DEF RecipesOK
<1> QED
    BY <1>1, <1>3, <1>5
-----------------------------------------------------------------------------
LEMMA InitInv ==
    ASSUME Init
    PROVE  Inv
<1> USE DEF Init
<1>0. PICK s \in Setups :
         /\ job = s.job /\ indexed = s.indexed /\ mortal = s.mortal
         /\ recipe = [p \in s.files |-> [writer |-> None, head |-> "final", refs |-> s.indexed]]
    OBVIOUS
<1>4. /\ job \in Workloads /\ indexed \subseteq {None} /\ mortal \subseteq Conn
      /\ DOMAIN recipe \subseteq Path
      /\ \A p \in DOMAIN recipe : recipe[p] = [writer |-> None, head |-> "final", refs |-> indexed]
    BY <1>0, SessionAssumption DEF Workloads
<1>1. TypeOK
    <2>1. [writer |-> None, head |-> "final", refs |-> indexed] \in Recipe
        BY <1>4 DEF Recipe
    <2> QED
        BY <1>4, <2>1 DEF TypeOK, Message, NoMsg, Key, NoKey, DerivedShared
<1>2. ASSUME NEW c \in Conn PROVE SessionOK(c)
    <2>1. Mail(toServer[c]) = {} /\ Mail(toClient[c]) = {}
        BY DEF Mail
    <2> QED
        BY <2>1 DEF SessionOK, Locked, Keyed, Asked, Attended, Abreast, Announced, Answered,
              Unread, Decided, Listed, Holds, Exchanged, Serving
<1>3. RecipesOK
    BY <1>4 DEF RecipesOK, Unfinished, Traced, PartialExplained, ExitExplained
<1> QED
    BY <1>1, <1>2, <1>3 DEF Inv

LEMMA NextInv ==
    ASSUME Inv, [Next]_vars
    PROVE  Inv'
<1>1. CASE Next
    <2>1. ASSUME NEW c \in Conn, Thread(c) PROVE Inv'
        BY <2>1, ReceiveRAInv, ReceiveKeyInitInv, LockSetInv, LockClientInv, ExchangeKeysInv,
           ReceiveLoginInv, RefuseInv, ClientClosedInv, InitClientInv, RespondInv, ReturnInv,
           ExitInv DEF Thread
    <2>2. ASSUME NEW c \in Conn, Worker(c) PROVE Inv'
        BY <2>2, ProcessBatchInv, FinalizeRecipeInv, WorkerEndsInv, RestoreReadyInv, RestoreFinalInv, ExitInv
           DEF Worker
    <2>3. ASSUME NEW c \in Conn, Client(c) PROVE Inv'
        BY <2>3, SendRADecisionInv, SendLoginInv, ReceiveLoginReplyInv, SendRecipeEndInv,
           SendRestoreReadyInv, ReceiveRestoreFinalInv, FinishedInv DEF Client
    <2> QED
        BY <1>1, <2>1, <2>2, <2>3, AcceptInv, CrashInv, PushBackInv, InterruptInv, StopInv,
           ClientsFailInv DEF Next
<1>2. CASE UNCHANGED vars
    <2>1. TypeOK'
        BY <1>2 DEF Inv, TypeOK, vars
    <2>2. \A d \in Conn : SameSession(d) /\ Steady(d)
        BY <1>2 DEF Inv, SameSession, Steady, SessionOK, Locked, Keyed, vars, Up
    <2>3. RecipesOK'
        BY <1>2 DEF Inv, RecipesOK, Unfinished, Traced, PartialExplained, ExitExplained, Serving, Up, vars
    <2> QED
        BY <2>1, <2>2, <2>3, AllSessions
<1> QED
    BY <1>1, <1>2

LEMMA SpecInv == Spec => []Inv
<1> QED
    BY InitInv, NextInv, PTL DEF Spec
-----------------------------------------------------------------------------
(* Every variable of the server keeps the type its code declares; the key    *)
(* looked up by Ecall_Init_Client is always in the index.                    *)
THEOREM SessionTypes == Spec => []TypeOK
<1>1. Inv => TypeOK
    BY DEF Inv
<1> QED
    BY <1>1, SpecInv, PTL

(* The mutex of a client, taken under clientLockSetLock_ and released on     *)
(* every return path, is held by one connection from the key exchange to the *)
(* end of the session.                                                       *)
OneHolder == \A c, d \in Conn : Holds(c) /\ Holds(d) /\ Id(c) = Id(d) => c = d

THEOREM ClientMutex == Spec => []OneHolder
<1>1. Inv => OneHolder
    BY DEF Inv, SessionOK, Locked, OneHolder
<1> QED
    BY <1>1, SpecInv, PTL

(* The enclave serves every session with the key its own client derived,     *)
(* however many connections log in under one client ID.                      *)
THEOREM KeyAgreement == Spec => []SessionKeyAgreed
<1>1. Inv => SessionKeyAgreed
    BY DEF Inv, SessionOK, Keyed, SessionKeyAgreed, Serving, Holds, Exchanged
<1> QED
    BY <1>1, SpecInv, PTL

(* A recipe without its head belongs to an upload that is running, whose     *)
(* client died, or that went down with the server.                           *)
THEOREM PartialUploads == Spec => []PartialExplained
<1>1. Inv => PartialExplained
    BY DEF Inv, RecipesOK
<1> QED
    BY <1>1, SpecInv, PTL

(* No client takes the server's close alert for a commit that did not happen. *)
THEOREM FinishedUploads == Spec => []FinishedMeansCommitted
<1>1. Inv => FinishedMeansCommitted
    BY DEF Inv, SessionOK, Decided, FinishedMeansCommitted
<1> QED
    BY <1>1, SpecInv, PTL

(* The server exits only when a client died in its handshake or its restore, *)
(* or when a restore needs a container that is not on disk, because its       *)
(* upload still goes on or was cut short by a client's death, or an earlier   *)
(* run of the server lost it.                                                 *)
THEOREM ServerExits == Spec => []ExitExplained
<1>1. Inv => ExitExplained
    BY DEF Inv, RecipesOK
<1> QED
    BY <1>1, SpecInv, PTL
-----------------------------------------------------------------------------
(* Refinement: what FileSessions sees of a state. *)
Open == {c \in Conn : Up /\ Serving(c)}
StatusOf(p) == IF p \notin DOMAIN recipe THEN "absent"
               ELSE IF recipe[p].head = "virtual" THEN "partial" ELSE "complete"
File == [p \in Path |-> StatusOf(p)]

LEMMA InitRefines ==
    ASSUME Init
    PROVE  job \in Workloads /\ Open = {} /\ File \in [Path -> {"absent", "complete"}]
<1>1. PICK s \in Setups : /\ job = s.job
                          /\ recipe = [p \in s.files |->
                                [writer |-> None, head |-> "final", refs |-> s.indexed]]
    BY DEF Init
<1>2. job \in Workloads /\ \A p \in DOMAIN recipe : recipe[p].head = "final"
    BY <1>1 DEF Workloads
<1> QED
    BY <1>2 DEF Init, Open, Serving, File, StatusOf

(* A session that begins is alone: both would hold the client's mutex. *)
LEMMA BeginAlone ==
    ASSUME Inv, NEW c \in Conn, Holds(c), ~ Serving(c)
    PROVE  c \notin Open /\ \A d \in Open : job[d].client # job[c].client
BY DEF Inv, SessionOK, Locked, Open, Holds, Serving, Id

LEMMA WrittenFile ==
    ASSUME Inv, NEW c \in Conn, NEW head \in {"virtual", "final"}, NEW refs,
           recipe' = Written(c, head, refs)
    PROVE  File' = [File EXCEPT ![job[c].path] =
                       IF head = "virtual" THEN "partial" ELSE "complete"]
<1> DEFINE path == job[c].path
           status == IF head = "virtual" THEN "partial" ELSE "complete"
<1>1. /\ DOMAIN recipe' = DOMAIN recipe \cup {path}
      /\ recipe'[path] = [writer |-> c, head |-> head, refs |-> refs]
      /\ \A p \in DOMAIN recipe \ {path} : recipe'[p] = recipe[p]
    BY DEF Written
<1> HIDE DEF path
<1>2. recipe'[path].head = head
    BY <1>1
<1>3. ASSUME NEW p \in Path, p = path PROVE StatusOf(p)' = status
    BY <1>1, <1>2, <1>3 DEF StatusOf
<1>4. ASSUME NEW p \in Path, p # path PROVE StatusOf(p)' = StatusOf(p)
    BY <1>1, <1>4 DEF StatusOf
<1>5. File' = [p \in Path |-> IF p = path THEN status ELSE StatusOf(p)]
    BY <1>3, <1>4 DEF File
<1> QED
    BY <1>5 DEF File, path

LEMMA InitClientBegins ==
    ASSUME Inv, NEW c \in Conn, InitClient(c)
    PROVE  FS!BeginUpload(c) \/ FS!BeginRestore(c)
<1> USE DEF InitClient, Goto, WorkerGoto
<1>1. c \notin Open /\ \A d \in Open : job[d].client # job[c].client
    BY BeginAlone DEF Holds, Serving
<1>2. Open' = Open \cup {c} /\ job' = job
    BY DEF Inv, TypeOK, Open, Up, Serving
<1>3. CASE job[c].opt = "UPLOAD"
    <2>1. job[c].path \in Path /\ recipe' = Written(c, "virtual", {})
        BY <1>3, TypesOfJobs DEF Inv
    <2>2. File' = [File EXCEPT ![job[c].path] = "partial"]
        BY <2>1, WrittenFile
    <2> QED
        BY <1>1, <1>2, <1>3, <2>2 DEF FS!BeginUpload, FS!Begin, FS!Alone, Open, File, StatusOf
<1>4. CASE job[c].opt = "DOWNLOAD"
    <2>1. job[c].path \in Path /\ job[c].path \in DOMAIN recipe /\ recipe' = recipe
        BY <1>4, TypesOfJobs DEF Inv
    <2>2. File' = File /\ File[job[c].path] # "absent"
        BY <2>1 DEF File, StatusOf
    <2> QED
        BY <1>1, <1>2, <1>4, <2>2 DEF FS!BeginRestore, FS!Begin, FS!Alone, Open, File, StatusOf
<1> QED
    BY <1>3, <1>4

LEMMA FinalizeCommits ==
    ASSUME Inv, NEW c \in Conn, FinalizeRecipe(c)
    PROVE  FS!CommitUpload(c)
<1> USE DEF FinalizeRecipe, WorkerGoto
<1>1. c \in Open /\ job[c].opt = "UPLOAD"
    BY DEF Inv, SessionOK, Attended, Asked, Open
<1>2. job[c].path \in Path /\ recipe' = Written(c, "final", recipe[job[c].path].refs)
    BY TypesOfJobs DEF Inv
<1>3. File' = [File EXCEPT ![job[c].path] = "complete"]
    BY <1>2, WrittenFile
<1>4. Open' = Open /\ job' = job
    BY DEF Open, Up, Serving
<1> QED
    BY <1>1, <1>3, <1>4 DEF FS!CommitUpload, Open, File, StatusOf

LEMMA ReturnEnds ==
    ASSUME Inv, NEW c \in Conn, Return(c)
    PROVE  FS!End(c)
<1>1. c \in Open /\ Open' = Open \ {c}
    BY DEF Inv, TypeOK, Return, Goto, Open, Up, Serving
<1>2. File' = File /\ job' = job
    BY DEF Return, File, StatusOf
<1> QED
    BY <1>1, <1>2 DEF FS!End, Open, File, StatusOf

LEMMA ServerStops ==
    ASSUME Stop \/ \E c \in Conn : ThreadExit(c) \/ WorkerExit(c)
    PROVE  FS!Stop
<1>1. Open' = {} /\ File' = File /\ job' = job
    BY DEF Stop, ThreadExit, WorkerExit, ServerBecomes, Open, Up, File, StatusOf
<1> QED
    BY <1>1 DEF FS!Stop, Open, File, StatusOf

(* Every other step keeps what is being served and what is stored. *)
Unseen == UNCHANGED <<job, Open, File>>

LEMMA ThreadUnseen ==
    ASSUME Inv, NEW c \in Conn,
           \/ ReceiveRA(c) \/ ReceiveKeyInit(c) \/ LockSet(c) \/ LockClient(c)
           \/ ExchangeKeys(c) \/ ReceiveLogin(c) \/ Refuse(c) \/ ClientClosed(c) \/ Respond(c)
    PROVE  Unseen
<1>1. UNCHANGED <<job, server, store>>
    BY DEF ReceiveRA, ReceiveKeyInit, LockSet, LockClient, ExchangeKeys, ReceiveLogin, Refuse,
           ClientClosed, Respond
<1>2. \E from, to : /\ Goto(c, from, to)
                    /\ from \in {"respond", "join"} <=> to \in {"respond", "join"}
    BY DEF ReceiveRA, ReceiveKeyInit, LockSet, LockClient, ExchangeKeys, ReceiveLogin, Refuse,
           ClientClosed, Respond
<1>3. Open' = Open
    BY <1>1, <1>2 DEF Inv, TypeOK, Goto, Open, Up, Serving
<1> QED
    BY <1>1, <1>3 DEF Unseen, File, StatusOf

(* A batch lengthens a recipe and leaves its head alone. *)
LEMMA BatchUnseen ==
    ASSUME Inv, NEW c \in Conn, ProcessBatch(c)
    PROVE  Unseen
<1>1. UNCHANGED <<job, server, thread>>
    BY DEF ProcessBatch
<1>2. DOMAIN recipe' = DOMAIN recipe /\ \A p \in DOMAIN recipe : recipe'[p].head = recipe[p].head
    BY DEF ProcessBatch, Inv, TypeOK, Recipe
<1>3. \A p \in Path : StatusOf(p)' = StatusOf(p)
    BY <1>2 DEF StatusOf
<1> QED
    BY <1>1, <1>3 DEF Unseen, File, Open, Up, Serving

LEMMA OthersUnseen ==
    ASSUME Inv,
           \/ PushBack \/ Interrupt \/ ClientsFail \/ UNCHANGED vars
           \/ \E c \in Conn : \/ Accept(c) \/ Crash(c) \/ Client(c)
                              \/ WorkerEnds(c) \/ RestoreReady(c) \/ RestoreFinal(c)
    PROVE  Unseen
<1>1. job' = job /\ recipe' = recipe /\ (Up' <=> Up)
    BY DEF PushBack, Interrupt, ServerBecomes, ClientsFail, Accept, Crash, Client, WorkerEnds,
           RestoreReady, RestoreFinal, SendRADecision, SendLogin, ReceiveLoginReply,
           SendRecipeEnd, SendRestoreReady, ReceiveRestoreFinal, Finished, vars, Up
<1>2. thread' = thread \/ \E c \in Conn : Accept(c)
    BY DEF PushBack, Interrupt, ServerBecomes, ClientsFail, Crash, Client,
           WorkerEnds, RestoreReady, RestoreFinal, SendRADecision, SendLogin,
           ReceiveLoginReply, SendRecipeEnd, SendRestoreReady, ReceiveRestoreFinal, Finished,
           vars
<1>3. \A d \in Conn : Serving(d)' <=> Serving(d)
    BY <1>2 DEF Accept, Goto, Serving, Inv, TypeOK
<1> QED
    BY <1>1, <1>3 DEF Unseen, Open, File, StatusOf

LEMMA NextRefines ==
    ASSUME Inv, [Next]_vars
    PROVE  FS!Next \/ Unseen
<1>1. ASSUME NEW c \in Conn, InitClient(c) PROVE FS!Next
    BY <1>1, InitClientBegins DEF FS!Next
<1>2. ASSUME NEW c \in Conn, FinalizeRecipe(c) PROVE FS!Next
    BY <1>2, FinalizeCommits DEF FS!Next
<1>3. ASSUME NEW c \in Conn, Return(c) PROVE FS!Next
    BY <1>3, ReturnEnds DEF FS!Next
<1>4. ASSUME Stop \/ \E c \in Conn : ThreadExit(c) \/ WorkerExit(c) PROVE FS!Next
    BY <1>4, ServerStops DEF FS!Next
<1> QED
    BY <1>1, <1>2, <1>3, <1>4, ThreadUnseen, BatchUnseen, OthersUnseen DEF Next, Thread, Worker

(* The server's locks, threads and messages implement FileSessions: sessions *)
(* of one client exclude each other, an upload replaces a file from its      *)
(* first moment on, and a file never changes under a restore.                *)
THEOREM SessionsImplementFileSessions == Spec => ImplementsFileSessions
<1>1. Init => FS!Init
    BY InitRefines DEF FS!Init, Open, File, StatusOf
<1>2. Inv /\ [Next]_vars => [FS!Next]_(FS!vars)
    BY NextRefines DEF Unseen, FS!vars, Open, File, StatusOf
<1> QED
    BY <1>1, <1>2, SpecInv, PTL DEF Spec, ImplementsFileSessions, FS!Spec
=============================================================================
