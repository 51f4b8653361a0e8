------------------------------ MODULE FreqUpload ------------------------------
(***************************************************************************)
(* The upload path of the DEBE storage server with the frequency-based     *)
(* index: DataReceiver and DataWriter threads outside the enclave, and      *)
(* EcallFreqIndex::ProcessOneBatch / ProcessTailBatch inside.  Each client  *)
(* has at most one session at a time (the per-client mutex of               *)
(* ServerOptThread); sessions of different clients interleave at the        *)
(* boundaries of the code's critical sections.                              *)
(*                                                                         *)
(* A chunk is its fingerprint; a container body is the set of              *)
(* <<offset, fingerprint>> slots written into it.                           *)
(***************************************************************************)
EXTENDS CMSketch, TopKIndex, Sequences

CONSTANTS
    Client,               \* the client IDs
    MULTI_CLIENT,         \* the build flag of constVar.h, as a Boolean
    SendRecipeBatchSize,  \* sendRecipeBatchSize_
    MaxContainerSize,     \* MAX_CONTAINER_SIZE
    BlockSize,            \* CRYPTO_BLOCK_SIZE, the IV stored after a chunk
    ChunkLen,             \* ChunkLen[fp]: the compressed length of a chunk
    QueueSize,            \* CONTAINER_QUEUE_SIZE
    Batches,              \* the chunk batches a client may send
    NoAddr,               \* an address field that has not been set
    NoOwner,              \* a free lock
    MaxReceived,          \* bound: chunks received in all (below 2^32)
    MaxSession,           \* bound: sessions per client
    MaxAbort              \* bound: connections lost before the recipe end

(* A build with MULTI_CLIENT = 0 compiles the locks out and is used with    *)
(* one client; a heap of capacity 1 makes EcallEntryHeap::Pop touch an      *)
(* erased element, so top-k is at least 2; every chunk fits a container.    *)
ASSUME UploadAssumption ==
    /\ MULTI_CLIENT \in BOOLEAN
    /\ ~MULTI_CLIENT => \A c, d \in Client : c = d
    /\ TopThreshold \in Nat \ {0, 1}
    /\ SendRecipeBatchSize \in Nat \ {0}
    /\ MaxContainerSize \in Nat /\ BlockSize \in Nat \ {0}
    /\ ChunkLen \in [Fp -> Nat \ {0}]
    /\ \A fp \in Fp : BlockSize + ChunkLen[fp] <= MaxContainerSize
    /\ QueueSize \in Nat \ {0}
    /\ Batches \subseteq Seq(Fp) /\ <<>> \notin Batches
    /\ NoOwner \notin Client
    /\ MaxReceived \in Nat /\ MaxSession \in Nat /\ MaxAbort \in Nat

(* A container ID is a random UUID, assumed never to repeat: the n-th one   *)
(* drawn for client c is <<c, n>>.                                          *)
ContainerID == Client \X Nat
Addr        == [containerName : ContainerID, offset : Nat]
Slot        == Nat \X Fp
Container   == [containerID : ContainerID, body : SUBSET Slot, currentSize : Nat]
HeapItem    == [address : Addr, chunkFreq : Nat]
DedupFlag   == {"NONE", "UNIQUE", "DUPLICATE", "TMP_UNIQUE", "TMP_DUPLICATE"}
InQueryEntry  == [chunkHash : Fp, chunkFreq : Nat, dedupFlag : DedupFlag,
                  chunkAddr : Addr \cup {NoAddr}, ref : Nat]
OutQueryEntry == [dedupFlag : {"UNIQUE", "DUPLICATE"},
                  chunkAddr : Addr \cup {NoAddr}]
RecipeFile  == [head : {"none", "virtual", "final"}, entryList : Seq(Addr)]

(* An address field that has not been set is not an address. *)
ASSUME NoAddrAssumption == NoAddr \notin Addr

VARIABLES
    sketch,         \* cmSketch_
    sketchLck,      \* Enclave::sketchLck_, the client that holds it
    topKIndexLck,   \* Enclave::topKIndexLck_
    outIndex,       \* the untrusted fp2ChunkDB: fingerprint -> Addr
    containers,     \* the container files: ContainerID -> body
    recipes         \* the recipe file of each client
VARIABLES           \* of one client's session, inside the enclave
    pc,             \* where the DataReceiver thread stands
    i,              \* the loop index of the current loop
    inQuery,        \* _inQueryBase, with the fingerprints of the batch
    minFreq,        \* the minFreq local of ProcessOneBatch
    inContainer,    \* _inContainer: [buf, curSize]
    inRecipe        \* _inRecipe, entries not yet flushed
VARIABLES           \* of one client's session, outside the enclave
    outQuery,       \* _outQuery: fingerprint -> OutQueryEntry
    curContainer,   \* _curContainer
    inputMQ,        \* the queue to the DataWriter
    done,           \* inputMQ->done_
    writer,         \* where the DataWriter thread stands
    uuid            \* how many container IDs were drawn for the client
VARIABLES           \* history and bounds
    file,           \* what the client sent in its latest session
    counted,        \* how often each chunk was counted in the sketch
    received, sessions, aborts

shared  == <<sketch, topK, sketchLck, topKIndexLck, outIndex, containers, recipes>>
enclave == <<inQuery, minFreq, inContainer, inRecipe>>
outside == <<outQuery, curContainer, inputMQ, done, writer, uuid>>
history == <<file, counted, received, sessions, aborts>>
vars    == <<shared, pc, i, enclave, outside, history>>

NoContainer == [buf |-> {}, curSize |-> 0]

Init ==
    /\ sketch = EmptySketch
    /\ topK = <<>> /\ outIndex = <<>> /\ containers = <<>>
    /\ sketchLck = NoOwner /\ topKIndexLck = NoOwner
    /\ recipes = [c \in Client |-> [head |-> "none", entryList |-> <<>>]]
    /\ pc = [c \in Client |-> "idle"]
    /\ i = [c \in Client |-> 1]
    /\ inQuery = [c \in Client |-> <<>>]
    /\ minFreq = [c \in Client |-> 0]
    /\ inContainer = [c \in Client |-> NoContainer]
    /\ inRecipe = [c \in Client |-> <<>>]
    /\ outQuery = [c \in Client |-> <<>>]
    /\ curContainer = [c \in Client |->
                          [containerID |-> <<c, 0>>, body |-> {}, currentSize |-> 0]]
    /\ inputMQ = [c \in Client |-> <<>>]
    /\ done = [c \in Client |-> FALSE]
    /\ writer = [c \in Client |-> "off"]
    /\ uuid = [c \in Client |-> 0]
    /\ file = [c \in Client |-> <<>>]
    /\ counted = [fp \in Fp |-> 0]
    /\ received = 0
    /\ sessions = [c \in Client |-> 0]
    /\ aborts = 0
-----------------------------------------------------------------------------
Goto(c, from, to) ==
    /\ pc[c] = from
    /\ pc' = [pc EXCEPT ![c] = to]

(* One turn of a for loop over the entries of the batch. *)
LastTurn(c) == i[c] = Len(inQuery[c])
Loop(c, here, next) ==
    /\ pc[c] = here
    /\ pc' = [pc EXCEPT ![c] = IF LastTurn(c) THEN next ELSE here]
    /\ i' = [i EXCEPT ![c] = IF LastTurn(c) THEN 1 ELSE @ + 1]

(* Lock and unlock, compiled in only for several clients. *)
Acquire(lck, c) == IF MULTI_CLIENT THEN lck = NoOwner ELSE TRUE
Owner(c)        == IF MULTI_CLIENT THEN c ELSE NoOwner
ReleaseAtEnd(lck, c) == IF LastTurn(c) THEN NoOwner ELSE lck

(* tool::CreateUUID for the container that client c opens next. *)
CreateUUID(c) == <<c, uuid[c] + 1>>

(* A login for upload: the old recipe is truncated and gets a placeholder   *)
(* head, a container ID is drawn, the enclave-side client is created, and   *)
(* the DataReceiver (and, for one client, the DataWriter) threads start.    *)
StartUpload(c) ==
    /\ sessions[c] < MaxSession
    /\ Goto(c, "idle", "recv")
    /\ recipes' = [recipes EXCEPT ![c] = [head |-> "virtual", entryList |-> <<>>]]
    /\ uuid' = [uuid EXCEPT ![c] = @ + 1]
    /\ curContainer' = [curContainer EXCEPT ![c] =
           [containerID |-> CreateUUID(c), body |-> {}, currentSize |-> 0]]
    /\ inContainer' = [inContainer EXCEPT ![c] = NoContainer]
    /\ inRecipe' = [inRecipe EXCEPT ![c] = <<>>]
    /\ inputMQ' = [inputMQ EXCEPT ![c] = <<>>]
    /\ done' = [done EXCEPT ![c] = FALSE]
    /\ writer' = [writer EXCEPT ![c] = IF MULTI_CLIENT THEN "off" ELSE "check"]
    /\ file' = [file EXCEPT ![c] = <<>>]
    /\ sessions' = [sessions EXCEPT ![c] = @ + 1]
    /\ UNCHANGED <<sketch, topK, sketchLck, topKIndexLck, outIndex, containers,
                   i, inQuery, minFreq, outQuery, counted, received, aborts>>

(* CLIENT_UPLOAD_CHUNK arrives: decrypt and fingerprint the batch. *)
RecvBatch(c, b) ==
    /\ received + Len(b) <= MaxReceived
    /\ Goto(c, "recv", "lockSketch")
    /\ inQuery' = [inQuery EXCEPT ![c] =
           [j \in 1..Len(b) |-> [chunkHash |-> b[j], chunkFreq |-> 0,
                dedupFlag |-> "NONE", chunkAddr |-> NoAddr, ref |-> j]]]
    /\ file' = [file EXCEPT ![c] = @ \o b]
    /\ received' = received + Len(b)
    /\ UNCHANGED <<shared, i, minFreq, inContainer, inRecipe, outside,
                   counted, sessions, aborts>>
-----------------------------------------------------------------------------
(* Phase 1: count the batch in the sketch, under sketchLck_.                *)
LockSketch(c) ==
    /\ Goto(c, "lockSketch", "sketch")
    /\ Acquire(sketchLck, c)
    /\ sketchLck' = Owner(c)
    /\ UNCHANGED <<sketch, topK, topKIndexLck, outIndex, containers, recipes,
                   i, enclave, outside, history>>

UpdateSketch(c) ==
    /\ Loop(c, "sketch", "lockTopK")
    /\ LET fp == inQuery[c][i[c]].chunkHash IN
       /\ sketch' = Update(sketch, fp)
       /\ inQuery' = [inQuery EXCEPT ![c][i[c]].chunkFreq = Estimate(sketch', fp)]
       /\ counted' = [counted EXCEPT ![fp] = @ + 1]
    /\ sketchLck' = ReleaseAtEnd(sketchLck, c)
    /\ UNCHANGED <<topK, topKIndexLck, outIndex, containers, recipes,
                   minFreq, inContainer, inRecipe, outside, file, received,
                   sessions, aborts>>

(* Phase 2: look the batch up in the top-k index, under topKIndexLck_.      *)
LockTopK(c) ==
    /\ Goto(c, "lockTopK", "topK")
    /\ Acquire(topKIndexLck, c)
    /\ topKIndexLck' = Owner(c)
    /\ minFreq' = [minFreq EXCEPT ![c] = IF TopKSize = TopThreshold THEN TopEntry ELSE 0]
    /\ UNCHANGED <<sketch, topK, sketchLck, outIndex, containers, recipes, i,
                   inQuery, inContainer, inRecipe, outside, history>>

(* _localIndex: the entry of this batch that saw the fingerprint first. *)
LocalIndex(c) ==
    {j \in 1..(i[c] - 1) : /\ inQuery[c][j].chunkHash = inQuery[c][i[c]].chunkHash
                           /\ inQuery[c][j].dedupFlag \in {"UNIQUE", "DUPLICATE"}}

ClassifyLocal(c) ==
    /\ Loop(c, "topK", "query")
    /\ \E j \in LocalIndex(c) :
         inQuery' = [inQuery EXCEPT
             ![c][i[c]].dedupFlag = IF inQuery[c][j].dedupFlag = "UNIQUE"
                                    THEN "TMP_UNIQUE" ELSE "TMP_DUPLICATE",
             ![c][i[c]].ref = j,
             ![c][j].chunkFreq = inQuery[c][i[c]].chunkFreq]
    /\ topKIndexLck' = ReleaseAtEnd(topKIndexLck, c)
    /\ UNCHANGED <<sketch, topK, sketchLck, outIndex, containers, recipes,
                   minFreq, inContainer, inRecipe, outside, history>>

InTopK(c) ==
    /\ inQuery[c][i[c]].chunkFreq >= minFreq[c]
    /\ inQuery[c][i[c]].chunkHash \in DOMAIN topK

ClassifyDuplicate(c) ==
    /\ Loop(c, "topK", "query")
    /\ LocalIndex(c) = {} /\ InTopK(c)
    /\ inQuery' = [inQuery EXCEPT
           ![c][i[c]].dedupFlag = "DUPLICATE",
           ![c][i[c]].chunkAddr = topK[inQuery[c][i[c]].chunkHash].address]
    /\ topKIndexLck' = ReleaseAtEnd(topKIndexLck, c)
    /\ UNCHANGED <<sketch, topK, sketchLck, outIndex, containers, recipes,
                   minFreq, inContainer, inRecipe, outside, history>>

ClassifyUnique(c) ==
    /\ Loop(c, "topK", "query")
    /\ LocalIndex(c) = {} /\ ~InTopK(c)
    /\ inQuery' = [inQuery EXCEPT ![c][i[c]].dedupFlag = "UNIQUE"]
    /\ topKIndexLck' = ReleaseAtEnd(topKIndexLck, c)
    /\ UNCHANGED <<sketch, topK, sketchLck, outIndex, containers, recipes,
                   minFreq, inContainer, inRecipe, outside, history>>

(* Phase 3: Ocall_QueryOutIndex for the chunks the top-k index did not have. *)
OutQueryHashes(c) ==
    {inQuery[c][j].chunkHash : j \in {k \in DOMAIN inQuery[c] :
                                         inQuery[c][k].dedupFlag = "UNIQUE"}}

QueryOutIndex(c) ==
    /\ Goto(c, "query", "proc")
    /\ outQuery' = [outQuery EXCEPT ![c] = [fp \in OutQueryHashes(c) |->
           IF fp \in DOMAIN outIndex
           THEN [dedupFlag |-> "DUPLICATE", chunkAddr |-> outIndex[fp]]
           ELSE [dedupFlag |-> "UNIQUE",    chunkAddr |-> NoAddr]]]
    /\ UNCHANGED <<shared, i, enclave, curContainer, inputMQ, done, writer, uuid, history>>
-----------------------------------------------------------------------------
(* Phase 4: store what is new, and give every chunk its recipe entry.       *)

(* UpdateFileRecipe: a full buffer is encrypted and appended to the file. *)
UpdateFileRecipe(c, addr) ==
    LET buffer == Append(inRecipe[c], addr) IN
    IF Len(buffer) % SendRecipeBatchSize = 0
    THEN /\ recipes' = [recipes EXCEPT ![c].entryList = @ \o buffer]
         /\ inRecipe' = [inRecipe EXCEPT ![c] = <<>>]
    ELSE /\ inRecipe' = [inRecipe EXCEPT ![c] = buffer]
         /\ UNCHANGED recipes

(* Ocall_WriteContainer(k): save the file, or push it to the DataWriter     *)
(* (Push spins while the queue is full), then draw the next container ID.   *)
WriteContainer(c, k) ==
    /\ IF MULTI_CLIENT
       THEN /\ containers' = Put(containers, k.containerID, k.body)
            /\ UNCHANGED inputMQ
       ELSE /\ Len(inputMQ[c]) < QueueSize
            /\ inputMQ' = [inputMQ EXCEPT ![c] = Append(@, k)]
            /\ UNCHANGED containers
    /\ uuid' = [uuid EXCEPT ![c] = @ + 1]
    /\ curContainer' = [curContainer EXCEPT ![c] =
           [containerID |-> CreateUUID(c), body |-> {}, currentSize |-> 0]]

(* The outside container with the content of the in-enclave one. *)
FilledContainer(c) ==
    [curContainer[c] EXCEPT !.body = inContainer[c].buf,
                            !.currentSize = inContainer[c].curSize]

(* Seeded fault: the IV after the chunk is not counted. *)
FitsWithoutIV(c, fp) == ChunkLen[fp] + inContainer[c].curSize < MaxContainerSize

(* Does the chunk, with its IV, fit into the open container? *)
Fits(c, fp) == BlockSize + ChunkLen[fp] + inContainer[c].curSize < MaxContainerSize

(* Seeded fault: the container name is read before the full one is flushed. *)
SaveAddrBeforeFlush(c, fp) ==
    [containerName |-> curContainer[c].containerID,
     offset |-> IF Fits(c, fp) THEN inContainer[c].curSize ELSE 0]

(* EcallStorageCore::SaveChunk, where it puts the chunk, and what it does.  *)
SaveAddr(c, fp) ==
    IF Fits(c, fp)
    THEN [containerName |-> curContainer[c].containerID, offset |-> inContainer[c].curSize]
    ELSE [containerName |-> CreateUUID(c), offset |-> 0]

SaveChunk(c, fp) ==
    IF Fits(c, fp)
    THEN /\ inContainer' = [inContainer EXCEPT ![c] =
                [buf     |-> @.buf \cup {<<@.curSize, fp>>},
                 curSize |-> @.curSize + ChunkLen[fp] + BlockSize]]
         /\ UNCHANGED <<containers, inputMQ, uuid, curContainer>>
    ELSE /\ WriteContainer(c, FilledContainer(c))
         /\ inContainer' = [inContainer EXCEPT ![c] =
                [buf |-> {<<0, fp>>}, curSize |-> ChunkLen[fp] + BlockSize]]

(* Seeded fault: a repeated chunk takes its own address field. *)
KnownAddrNoDeref(c) ==
    LET e == inQuery[c][i[c]] IN
    IF e.dedupFlag = "UNIQUE" THEN outQuery[c][e.chunkHash].chunkAddr ELSE e.chunkAddr

(* A chunk whose address is already known: from the top-k index, from the   *)
(* out-enclave index, or from an earlier entry of the batch.                *)
KnownAddr(c) ==
    LET e == inQuery[c][i[c]] IN
    CASE e.dedupFlag = "DUPLICATE" -> e.chunkAddr
      [] e.dedupFlag = "UNIQUE"    -> outQuery[c][e.chunkHash].chunkAddr
      [] OTHER                     -> inQuery[c][e.ref].chunkAddr

NeedsStore(c) ==
    LET e == inQuery[c][i[c]] IN
    e.dedupFlag = "UNIQUE" /\ outQuery[c][e.chunkHash].dedupFlag = "UNIQUE"

ProcessDuplicate(c) ==
    /\ Loop(c, "proc", "lockHeap")
    /\ ~NeedsStore(c)
    /\ UpdateFileRecipe(c, KnownAddr(c))
    /\ inQuery' = IF inQuery[c][i[c]].dedupFlag = "UNIQUE"
                  THEN [inQuery EXCEPT ![c][i[c]].chunkAddr = KnownAddr(c)]
                  ELSE inQuery
    /\ UNCHANGED <<sketch, topK, sketchLck, topKIndexLck, outIndex, containers,
                   minFreq, inContainer, outside, history>>

ProcessUnique(c) ==
    /\ Loop(c, "proc", "lockHeap")
    /\ NeedsStore(c)
    /\ LET fp   == inQuery[c][i[c]].chunkHash
           addr == SaveAddr(c, fp)
       IN  /\ SaveChunk(c, fp)
           /\ UpdateFileRecipe(c, addr)
           /\ inQuery' = [inQuery EXCEPT ![c][i[c]].chunkAddr = addr]
           /\ outQuery' = [outQuery EXCEPT ![c][fp].chunkAddr = addr]
    /\ UNCHANGED <<sketch, topK, sketchLck, topKIndexLck, outIndex,
                   minFreq, done, writer, history>>
-----------------------------------------------------------------------------
(* Phase 5: refresh the top-k index with the frequencies of the batch,      *)
(* under topKIndexLck_.                                                     *)
LockHeap(c) ==
    /\ Goto(c, "lockHeap", "heap")
    /\ Acquire(topKIndexLck, c)
    /\ topKIndexLck' = Owner(c)
    /\ UNCHANGED <<sketch, topK, sketchLck, outIndex, containers, recipes,
                   i, enclave, outside, history>>

Candidate(c) ==
    /\ inQuery[c][i[c]].dedupFlag \in {"UNIQUE", "DUPLICATE"}
    /\ CheckIfAddToHeap(inQuery[c][i[c]].chunkFreq)

HeapTurn(c) ==
    /\ Loop(c, "heap", "outUpdate")
    /\ topKIndexLck' = ReleaseAtEnd(topKIndexLck, c)
    /\ UNCHANGED <<sketch, sketchLck, outIndex, containers, recipes,
                   enclave, outside, history>>

HeapSkip(c) == HeapTurn(c) /\ ~Candidate(c) /\ UNCHANGED topK

HeapUpdateFreq(c) ==
    /\ HeapTurn(c) /\ Candidate(c)
    /\ LET e == inQuery[c][i[c]] IN UpdateInsideIndexFreq(e.chunkHash, e.chunkFreq)

HeapAdd(c) ==
    /\ HeapTurn(c) /\ Candidate(c)
    /\ LET e == inQuery[c][i[c]] IN AddChunkToHeap(e.chunkHash, e.chunkAddr, e.chunkFreq)

(* Seeded fault: the test of the flag is inverted. *)
NewEntriesInverted(c) ==
    {fp \in DOMAIN outQuery[c] : outQuery[c][fp].dedupFlag = "DUPLICATE"}

NewEntries(c) == {fp \in DOMAIN outQuery[c] : outQuery[c][fp].dedupFlag = "UNIQUE"}

(* Phase 6, back outside the enclave: Ocall_UpdateOutIndex inserts the      *)
(* chunks that were new.  The batch is over.                                *)
UpdateOutIndex(c) ==
    /\ Goto(c, "outUpdate", "recv")
    /\ outIndex' = [fp \in NewEntries(c) \cup DOMAIN outIndex |->
           IF fp \in NewEntries(c) THEN outQuery[c][fp].chunkAddr ELSE outIndex[fp]]
    /\ inQuery' = [inQuery EXCEPT ![c] = <<>>]
    /\ outQuery' = [outQuery EXCEPT ![c] = <<>>]
    /\ minFreq' = [minFreq EXCEPT ![c] = 0]
    /\ UNCHANGED <<sketch, topK, sketchLck, topKIndexLck, containers, recipes, i,
                   inContainer, inRecipe, curContainer, inputMQ, done, writer,
                   uuid, history>>
-----------------------------------------------------------------------------
(* Seeded fault: the open container stays inside the enclave. *)
TailContainerKept(c) == curContainer[c]

(* The last part of ProcessTailBatch: copy the open container out. *)
TailContainer(c) ==
    IF inContainer[c].curSize # 0 THEN FilledContainer(c) ELSE curContainer[c]

(* CLIENT_UPLOAD_RECIPE_END: ProcessTailBatch flushes the recipe buffer and *)
(* copies the open container out; FinalizeRecipe writes the real head.      *)
RecvRecipeEnd(c) ==
    /\ Goto(c, "recv", "ended")
    /\ recipes' = [recipes EXCEPT ![c] =
           [head |-> "final", entryList |-> @.entryList \o inRecipe[c]]]
    /\ inRecipe' = [inRecipe EXCEPT ![c] = <<>>]
    /\ curContainer' = [curContainer EXCEPT ![c] = TailContainer(c)]
    /\ UNCHANGED <<sketch, topK, sketchLck, topKIndexLck, outIndex, containers,
                   i, inQuery, minFreq, inContainer, outQuery, inputMQ, done,
                   writer, uuid, history>>

(* ReceiveData fails.  After the recipe end that is the client closing the  *)
(* connection; before it the upload is cut short.                           *)
Disconnect(c) ==
    /\ \/ Goto(c, "ended", "last") /\ UNCHANGED aborts
       \/ Goto(c, "recv", "last") /\ aborts < MaxAbort /\ aborts' = aborts + 1
    /\ UNCHANGED <<shared, i, enclave, outside, file, counted, received, sessions>>

(* "process the last container", then done_. *)
LastContainer(c) ==
    /\ Goto(c, "last", "join")
    /\ IF curContainer[c].currentSize # 0
       THEN WriteContainer(c, curContainer[c])
       ELSE UNCHANGED <<containers, inputMQ, uuid, curContainer>>
    /\ done' = [done EXCEPT ![c] = TRUE]
    /\ UNCHANGED <<sketch, topK, sketchLck, topKIndexLck, outIndex, recipes, i,
                   enclave, outQuery, writer, history>>

(* ServerOptThread joins the threads and deletes both sides of the client:  *)
(* what the enclave still buffers for it is gone.                           *)
Join(c) ==
    /\ writer[c] = "off"
    /\ Goto(c, "join", "idle")
    /\ inContainer' = [inContainer EXCEPT ![c] = NoContainer]
    /\ inRecipe' = [inRecipe EXCEPT ![c] = <<>>]
    /\ UNCHANGED <<shared, i, inQuery, minFreq, outside, history>>

(* Seeded faults: the writer leaves as soon as done_ is set; it tests the    *)
(* queue for the opposite.                                                  *)
JobDoneFlagOnly(c) == done[c]
JobDoneNotEmpty(c) == done[c] /\ inputMQ[c] # <<>>

JobDone(c) == done[c] /\ inputMQ[c] = <<>>

(* DataWriter::Run: test done_ && IsEmpty(), pop one container if there is  *)
(* one and save it, leave if the test held.                                 *)
WriterCheck(c) ==
    /\ writer[c] = "check"
    /\ writer' = [writer EXCEPT ![c] =
                      IF JobDone(c) THEN "lastPop" ELSE "pop"]
    /\ UNCHANGED <<shared, pc, i, enclave, outQuery, curContainer, inputMQ,
                   done, uuid, history>>

WriterPop(c) ==
    /\ writer[c] \in {"pop", "lastPop"}
    /\ IF inputMQ[c] # <<>>
       THEN /\ LET k == Head(inputMQ[c]) IN
                 containers' = Put(containers, k.containerID, k.body)
            /\ inputMQ' = [inputMQ EXCEPT ![c] = Tail(@)]
       ELSE UNCHANGED <<containers, inputMQ>>
    /\ writer' = [writer EXCEPT ![c] = IF @ = "lastPop" THEN "off" ELSE "check"]
    /\ UNCHANGED <<sketch, topK, sketchLck, topKIndexLck, outIndex, recipes,
                   pc, i, enclave, outQuery, curContainer, done, uuid, history>>
-----------------------------------------------------------------------------
Batch(c) ==
    \/ LockSketch(c) \/ UpdateSketch(c)
    \/ LockTopK(c) \/ ClassifyLocal(c) \/ ClassifyDuplicate(c) \/ ClassifyUnique(c)
    \/ QueryOutIndex(c)
    \/ ProcessDuplicate(c) \/ ProcessUnique(c)
    \/ LockHeap(c) \/ HeapSkip(c) \/ HeapUpdateFreq(c) \/ HeapAdd(c)
    \/ UpdateOutIndex(c)

Receive(c) ==
    \/ StartUpload(c)
    \/ \E b \in Batches : RecvBatch(c, b)
    \/ RecvRecipeEnd(c)
    \/ Disconnect(c)

Shutdown(c) == LastContainer(c) \/ Join(c)
DataWriter(c) == WriterCheck(c) \/ WriterPop(c)

(* With no session open the server waits in accept. *)
WaitForClient == (\A c \in Client : pc[c] = "idle") /\ UNCHANGED vars

Next == \/ \E c \in Client : Receive(c) \/ Batch(c) \/ Shutdown(c) \/ DataWriter(c)
        \/ WaitForClient

Spec == Init /\ [][Next]_vars

(* Server threads keep running; nothing is assumed of the clients.          *)
Fairness == \A c \in Client : /\ WF_vars(Batch(c))
                              /\ WF_vars(Shutdown(c))
                              /\ WF_vars(DataWriter(c))
FairSpec == Spec /\ Fairness
-----------------------------------------------------------------------------
PartialFunction(f, S, T) == DOMAIN f \subseteq S /\ f \in [DOMAIN f -> T]

Location == {"idle", "recv", "lockSketch", "sketch", "lockTopK", "topK", "query",
             "proc", "lockHeap", "heap", "outUpdate", "ended", "last", "join"}

SharedType ==
    /\ sketch \in Sketch
    /\ PartialFunction(topK, Fp, HeapItem)
    /\ PartialFunction(outIndex, Fp, Addr)
    /\ PartialFunction(containers, ContainerID, SUBSET Slot)
    /\ sketchLck \in Client \cup {NoOwner}
    /\ topKIndexLck \in Client \cup {NoOwner}
    /\ recipes \in [Client -> RecipeFile]

EnclaveType ==
    /\ pc \in [Client -> Location]
    /\ i \in [Client -> Nat \ {0}]
    /\ inQuery \in [Client -> Seq(InQueryEntry)]
    /\ minFreq \in [Client -> Nat]
    /\ inContainer \in [Client -> [buf : SUBSET Slot, curSize : Nat]]
    /\ inRecipe \in [Client -> Seq(Addr)]

OutsideType ==
    /\ outQuery \in [Client -> Range(outQuery)]
    /\ \A c \in Client : PartialFunction(outQuery[c], Fp, OutQueryEntry)
    /\ curContainer \in [Client -> Container]
    /\ inputMQ \in [Client -> Seq(Container)]
    /\ done \in [Client -> BOOLEAN]
    /\ writer \in [Client -> {"off", "check", "pop", "lastPop"}]
    /\ uuid \in [Client -> Nat]

HistoryType ==
    /\ file \in [Client -> Seq(Fp)]
    /\ counted \in [Fp -> Nat]
    /\ received \in Nat
    /\ sessions \in [Client -> Nat]
    /\ aborts \in Nat

(* The type of every variable; in particular no address that was not set    *)
(* ever reaches an index or a recipe (KnownAddr, AddChunkToHeap,            *)
(* Ocall_UpdateOutIndex).                                                   *)
TypeOK == SharedType /\ EnclaveType /\ OutsideType /\ HistoryType

(* Every place a container with ID n can be: its file, the queue to the     *)
(* writer, the copy made for the last container, the open one inside.       *)
Bodies(n) ==
    {containers[m] : m \in DOMAIN containers \cap {n}}
    \cup {k.body : k \in {x \in Range(inputMQ[n[1]]) : x.containerID = n}}
    \cup {inContainer[c].buf : c \in {d \in Client : curContainer[d].containerID = n
                                        /\ pc[d] \notin {"idle", "ended", "last", "join"}}}
    \cup {curContainer[c].body : c \in {d \in Client : curContainer[d].containerID = n
                                        /\ curContainer[d].currentSize # 0}}

(* Following address a in any copy of its container yields chunk fp. *)
Right(a, fp) == \A b \in Bodies(a.containerName) : <<a.offset, fp>> \in b

Entries(c) == recipes[c].entryList \o inRecipe[c]

(* No index, query buffer or recipe ever holds the address of a different   *)
(* chunk: the addresses of topK and outIndex, of the entries being          *)
(* processed (ProcessOneBatch), and the recipe entries against what the     *)
(* client sent, are right wherever their container is.                      *)
AddrCorrect ==
    /\ \A fp \in DOMAIN topK : Right(topK[fp].address, fp)
    /\ \A fp \in DOMAIN outIndex : Right(outIndex[fp], fp)
    /\ \A c \in Client :
         /\ \A j \in DOMAIN inQuery[c] :
              inQuery[c][j].chunkAddr # NoAddr =>
                  Right(inQuery[c][j].chunkAddr, inQuery[c][j].chunkHash)
         /\ \A fp \in DOMAIN outQuery[c] :
              outQuery[c][fp].chunkAddr # NoAddr => Right(outQuery[c][fp].chunkAddr, fp)
         /\ \A j \in DOMAIN Entries(c) : Right(Entries(c)[j], file[c][j])

OnDisk(a, fp) ==
    /\ a.containerName \in DOMAIN containers
    /\ <<a.offset, fp>> \in containers[a.containerName]

Restorable(c) ==
    /\ Len(recipes[c].entryList) = Len(file[c])
    /\ \A j \in DOMAIN recipes[c].entryList : OnDisk(recipes[c].entryList[j], file[c][j])

(* When no session is open, every finalized file can be restored from the   *)
(* container files, chunk for chunk (README: the downloaded file is         *)
(* identical to the uploaded one), if every upload so far ran to its end.   *)
RestorableAtRest ==
    aborts = 0 /\ (\A c \in Client : pc[c] = "idle") =>
        \A c \in Client : recipes[c].head = "final" => Restorable(c)

(* The same with connections cut short in between: an upload that completes *)
(* after another one was aborted is restorable too.                         *)
RestorableAfterAborts ==
    (\A c \in Client : pc[c] = "idle") =>
        \A c \in Client : recipes[c].head = "final" => Restorable(c)

(* No indexed address and no recipe entry ever points nowhere, as long as   *)
(* every upload ran to its end: the container is open in the enclave,       *)
(* copied out, queued or on disk at every moment (SaveChunk,                *)
(* ProcessTailBatch, Ocall_WriteContainer, DataWriter::Run).                *)
NothingLost ==
    aborts = 0 =>
        /\ \A fp \in DOMAIN topK : Bodies(topK[fp].address.containerName) # {}
        /\ \A fp \in DOMAIN outIndex : Bodies(outIndex[fp].containerName) # {}
        /\ \A c \in Client : \A j \in DOMAIN Entries(c) :
              Bodies(Entries(c)[j].containerName) # {}

(* Every chunk of the top-k index is in the out-enclave index too, or is    *)
(* about to be put there by the batch that added it: a chunk that Pop       *)
(* evicts can still be found (CheckIfAddToHeap, Ocall_UpdateOutIndex).      *)
HeapBacked ==
    \A fp \in DOMAIN topK :
        \/ fp \in DOMAIN outIndex
        \/ \E c \in Client : pc[c] \in {"heap", "outUpdate"} /\ fp \in NewEntries(c)

(* The frequency the top-k index keeps for a chunk, and the one a batch     *)
(* carries from its sketch phase to its heap phase, never exceed what the   *)
(* sketch estimates for the chunk now, whatever other clients did since     *)
(* (UpdateInsideIndexFreq and AddChunkToHeap use a frequency read under     *)
(* another lock).                                                           *)
HeapWithinEstimate ==
    /\ \A fp \in DOMAIN topK : topK[fp].chunkFreq <= Estimate(sketch, fp)
    /\ \A c \in Client : \A j \in DOMAIN inQuery[c] :
          inQuery[c][j].chunkFreq <= Estimate(sketch, inQuery[c][j].chunkHash)

(* The sketch never underestimates: a chunk counted n times, by whichever   *)
(* clients, has an estimate of at least n (EcallCMSketch::Update and        *)
(* Estimate, under sketchLck_).                                             *)
NeverUnderestimates == \A fp \in Fp : counted[fp] <= Estimate(sketch, fp)

(* The top-k index never outgrows topThreshold_, although AddChunkToHeap    *)
(* pops only when the size is exactly topThreshold_.                        *)
HeapBounded == TopKSize <= TopThreshold

(* "its frequency is smaller than the minimum value in the heap, must not   *)
(* exist in the heap" (ProcessOneBatch): skipping the lookup is safe.       *)
LowFreqNotInHeap ==
    \A c \in Client :
        /\ pc[c] = "topK"
        /\ LocalIndex(c) = {}
        /\ inQuery[c][i[c]].chunkFreq < minFreq[c]
        => inQuery[c][i[c]].chunkHash \notin DOMAIN topK

(* Every container that holds chunks, with its ID: files, queued ones, open *)
(* ones.                                                                    *)
AllContainers ==
    {<<n, containers[n]>> : n \in DOMAIN containers}
    \cup (UNION {{<<k.containerID, k.body>> : k \in Range(inputMQ[c])} : c \in Client})
    \cup {<<curContainer[c].containerID, inContainer[c].buf>> :
             c \in {d \in Client : pc[d] \notin {"idle", "last", "join"}}}

(* Deduplication is exact: no chunk is stored in two places. *)
StoredOnce ==
    \A k, l \in AllContainers : \A s \in k[2], t \in l[2] :
        s[2] = t[2] => k[1] = l[1] /\ s[1] = t[1]

(* The slots of a container are disjoint and lie inside the container. *)
SlotsDisjoint ==
    \A n \in DOMAIN containers : \A s \in containers[n] :
        /\ s[1] + ChunkLen[s[2]] + BlockSize <= MaxContainerSize
        /\ \A t \in containers[n] \ {s} :
              \/ s[1] + ChunkLen[s[2]] + BlockSize <= t[1]
              \/ t[1] + ChunkLen[t[2]] + BlockSize <= s[1]

(* Neither thread of a session gets stuck: a received batch is processed to *)
(* its end, and a closed session is cleaned up, although the receiver spins *)
(* on a full queue (MessageQueue::Push) and the writer on an empty one.     *)
NeverStuck ==
    \A c \in Client : (pc[c] \notin {"idle", "recv", "ended"}) ~> (pc[c] \in {"idle", "recv"})
=============================================================================
