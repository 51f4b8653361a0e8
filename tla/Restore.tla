------------------------------- MODULE Restore -------------------------------
(***************************************************************************)
(* A restore session: ServerOptThread's download branch, the decoder thread *)
(* (EnclaveRecvDecoder::Run outside the enclave, EcallRecvDecoder inside),  *)
(* and the client's DataRetriever and RestoreWriter threads.                *)
(*                                                                         *)
(* Sessions share nothing but the container files, which are written once   *)
(* and never removed, so one session is modelled.  Both ends may stop at    *)
(* any time; the server also stops when a container file is missing or when *)
(* another session makes it exit.                                           *)
(***************************************************************************)
EXTENDS ReadCache

CONSTANTS
    Lost,                 \* containers of which no file exists
    Recipes,              \* the recipe files: [totalChunkNum, entries]
    Capping,              \* CONTAINER_CAPPING_VALUE
    SendRecipeBatchSize,  \* sendRecipeBatchSize_
    SendChunkBatchSize,   \* sendChunkBatchSize_
    QueueSize,            \* CHUNK_QUEUE_SIZE
    MayStop               \* bound: lengths of the files in whose restore a process may stop by itself

(* The addresses that an upload puts into a recipe (FreqUpload!AddrCorrect). *)
RecipeEntry == {e \in [containerName : ContainerID, offset : 1 .. SlotNum] :
                   e.offset <= Len(Body[e.containerName])}

ASSUME RestoreAssumption ==
    /\ Lost \subseteq ContainerID
    /\ Recipes \subseteq [totalChunkNum : Nat, entries : Seq(RecipeEntry)]
    /\ Capping \in Nat \ {0}
    /\ SendRecipeBatchSize \in Nat \ {0}
    /\ SendChunkBatchSize \in Nat \ {0}
    /\ QueueSize \in Nat \ {0}
    /\ MayStop \subseteq Nat

VARIABLES           \* of the server, outside the enclave
    recipe,         \* the recipe file; it does not change while it is read
    headRead,       \* ServerOptThread has read the head and answered the login
    cursor,         \* _recipeReadHandler: how many entries have been read
    end,            \* the stream is at its end
    decoder,        \* where the decoder thread stands
    idBuffer,       \* the first idNum names of _reqContainer.idBuffer
    containerArray  \* _reqContainer.containerArray
VARIABLES           \* of the server, inside the enclave
    batch,          \* the entries of the current ProcRecipeBatch still to parse
    tmpContainerMap,
    recipeBuffer,   \* _enclaveRecipeBuffer
    k,              \* the index of the loop that fetches or recovers
    tail,           \* ProcRecipeTailBatch is running
    chunkBuffer     \* _restoreChunkBuffer: the chunks not yet sent
VARIABLES           \* of the network
    toClient,       \* messages under way to the client
    ready,          \* CLIENT_RESTORE_READY is under way to the server
    closed          \* the client has closed the connection
VARIABLES           \* of the client
    retriever,      \* where DataRetriever stands
    expectedNum,    \* fileRecipeHead_.totalChunkNum
    recvChunkBuf,   \* the message being processed
    recvNum,        \* _totalRecvChunkNum
    outputMQ, done, \* the queue to the writer, and its done_
    writer,         \* where RestoreWriter stands
    jobDone,        \* RestoreWriter's jobDoneFlag
    output,         \* the restored file
    status          \* of the client process

server  == <<recipe, headRead, cursor, end, decoder, idBuffer, containerArray>>
enclave == <<batch, tmpContainerMap, recipeBuffer, k, tail, chunkBuffer>>
net     == <<toClient, ready, closed>>
client  == <<retriever, expectedNum, recvChunkBuf, recvNum, outputMQ, done,
             writer, jobDone, output, status>>
vars    == <<cacheVars, server, enclave, net, client>>

(* The file that the recipe describes. *)
Content(e) == Body[e.containerName][e.offset]
File == [n \in 1 .. Len(recipe.entries) |-> Content(recipe.entries[n])]

NoMessage == [messageType |-> "NONE", chunks |-> <<>>]

Init ==
    /\ CacheInit
    /\ recipe \in Recipes
    /\ headRead = FALSE /\ cursor = 0 /\ end = FALSE
    /\ decoder = "ready"
    /\ idBuffer = <<>>
    /\ containerArray = [n \in 1 .. Capping |-> EmptyBuffer]
    /\ batch = <<>> /\ tmpContainerMap = <<>> /\ recipeBuffer = <<>>
    /\ k = 1 /\ tail = FALSE /\ chunkBuffer = <<>>
    /\ toClient = <<>> /\ ready = FALSE /\ closed = FALSE
    /\ retriever = "login" /\ expectedNum = 0
    /\ recvChunkBuf = NoMessage
    /\ recvNum = 0
    /\ outputMQ = <<>> /\ done = FALSE
    /\ writer = "off" /\ jobDone = FALSE
    /\ output = <<>> /\ status = "running"
-----------------------------------------------------------------------------
(* The connection as the server sees it. *)
ClientGone == closed \/ status = "failed"

Exit == decoder' = "exit"

(* SSLConnection::SendData to a client that is gone may fail or seem to     *)
(* succeed.                                                                 *)
Send(type, chunks) ==
    toClient' = IF ClientGone THEN toClient
                ELSE Append(toClient, [messageType |-> type, chunks |-> chunks])

(* ServerOptThread: the decoder thread is running already when the head is  *)
(* read and sent with the login response.                                   *)
SendLoginResponse ==
    /\ decoder # "exit" /\ ~headRead
    /\ headRead' = TRUE
    /\ toClient' = IF ClientGone THEN toClient
                   ELSE Append(toClient, [messageType   |-> "SERVER_LOGIN_RESPONSE",
                                          totalChunkNum |-> recipe.totalChunkNum])
    /\ UNCHANGED <<cacheVars, recipe, cursor, end, decoder, idBuffer,
                   containerArray, enclave, ready, closed, client>>

SendLoginResponseFails ==
    /\ decoder # "exit" /\ ~headRead
    /\ ClientGone
    /\ headRead' = TRUE
    /\ Exit
    /\ UNCHANGED <<cacheVars, recipe, cursor, end, idBuffer, containerArray,
                   enclave, net, client>>

RecvReady ==
    /\ decoder = "ready"
    /\ ready
    /\ ready' = FALSE
    /\ decoder' = "read"
    /\ UNCHANGED <<cacheVars, recipe, headRead, cursor, end, idBuffer,
                   containerArray, enclave, toClient, closed, client>>

RecvReadyFails ==
    /\ decoder = "ready"
    /\ ~ready /\ ClientGone
    /\ Exit
    /\ UNCHANGED <<cacheVars, recipe, headRead, cursor, end, idBuffer,
                   containerArray, enclave, net, client>>

(* Seeded fault: eof is inferred from the entries left instead of from a     *)
(* short read, and is true one batch too early.                             *)
ReadSomeEarlyEnd(n) ==
    /\ cursor' = cursor + n
    /\ end' = (cursor + n + SendRecipeBatchSize >= Len(recipe.entries))

(* A read of SendRecipeBatchSize entries that got n; eof() is set only by a *)
(* read that came up short.                                                 *)
ReadSome(n) ==
    /\ cursor' = cursor + n
    /\ end' = (n < SendRecipeBatchSize)

ReadRecipe ==
    LET left == Len(recipe.entries) - cursor
        n    == IF left < SendRecipeBatchSize THEN left ELSE SendRecipeBatchSize
    IN  /\ decoder = "read"
        /\ ReadSome(n)
        /\ IF n = 0
           THEN /\ decoder' = "tail"
                /\ UNCHANGED <<batch, tmpContainerMap>>
           ELSE /\ decoder' = "parse"
                /\ batch' = SubSeq(recipe.entries, cursor + 1, cursor + n)
                /\ tmpContainerMap' = <<>>
        /\ UNCHANGED <<cacheVars, recipe, headRead, idBuffer, containerArray,
                       recipeBuffer, k, tail, chunkBuffer, net, client>>

(* Where the decoder goes when the first entry of batch is dealt with. *)
AfterEntry == IF Len(batch) > 1 THEN "parse" ELSE IF end THEN "tail" ELSE "read"

(* ProcRecipeBatch, lines 66-87: one entry. *)
ParseEntry ==
    LET name  == batch[1].containerName
        known == name \in DOMAIN tmpContainerMap
        id    == IF known THEN tmpContainerMap[name] ELSE Len(idBuffer) + 1
    IN  /\ decoder = "parse"
        /\ idBuffer' = IF known THEN idBuffer ELSE Append(idBuffer, name)
        /\ tmpContainerMap' = [c \in DOMAIN tmpContainerMap \cup {name} |->
                                 IF c = name THEN id ELSE tmpContainerMap[c]]
        /\ recipeBuffer' = Append(recipeBuffer,
                              [containerID |-> id, offset |-> batch[1].offset])
        /\ IF Len(idBuffer') = Capping
           THEN /\ decoder' = "fetch" /\ k' = 1
                /\ UNCHANGED batch
           ELSE /\ decoder' = AfterEntry
                /\ batch' = Tail(batch)
                /\ UNCHANGED k
        /\ UNCHANGED <<cacheVars, recipe, headRead, cursor, end, containerArray,
                       tail, chunkBuffer, net, client>>

(* One turn of the loop of GetReqContainers. *)
NextContainer ==
    IF k = Len(idBuffer) THEN decoder' = "recover" /\ k' = 1
                         ELSE UNCHANGED decoder /\ k' = k + 1

FetchFromCache ==
    /\ decoder = "fetch"
    /\ ExistsInCache(idBuffer[k])
    /\ containerArray' = [containerArray EXCEPT ![k] = pool[slotOf[idBuffer[k]]]]
    /\ ReadFromCache(idBuffer[k])
    /\ NextContainer
    /\ UNCHANGED <<recipe, headRead, cursor, end, idBuffer, batch,
                   tmpContainerMap, recipeBuffer, tail, chunkBuffer, net, client>>

FetchFromFile ==
    /\ decoder = "fetch"
    /\ ~ExistsInCache(idBuffer[k])
    /\ idBuffer[k] \notin Lost
    /\ containerArray' = [containerArray EXCEPT ![k] = CopyTo(@, Body[idBuffer[k]])]
    /\ InsertToCache(idBuffer[k])
    /\ NextContainer
    /\ UNCHANGED <<recipe, headRead, cursor, end, idBuffer, batch,
                   tmpContainerMap, recipeBuffer, tail, chunkBuffer, net, client>>

FetchFails ==
    /\ decoder = "fetch"
    /\ ~ExistsInCache(idBuffer[k])
    /\ idBuffer[k] \in Lost
    /\ Exit
    /\ UNCHANGED <<cacheVars, recipe, headRead, cursor, end, idBuffer,
                   containerArray, enclave, net, client>>

(* The reset after a group of containers, lines 114-117. *)
Reset == idBuffer' = <<>> /\ recipeBuffer' = <<>> /\ tmpContainerMap' = <<>>

(* The end of a turn of the recover loops of both ECALLs. *)
NextRecovered ==
    IF k < Len(recipeBuffer)
    THEN /\ k' = k + 1
         /\ UNCHANGED <<decoder, batch, idBuffer, recipeBuffer, tmpContainerMap>>
    ELSE /\ k' = 1
         /\ IF tail
            THEN /\ decoder' = "close"
                 /\ UNCHANGED <<batch, idBuffer, recipeBuffer, tmpContainerMap>>
            ELSE /\ decoder' = AfterEntry
                 /\ batch' = Tail(batch)
                 /\ Reset

RecoverOneChunk ==
    Append(chunkBuffer, containerArray[recipeBuffer[k].containerID][recipeBuffer[k].offset])

(* endFlag is set for the last chunk of the tail. *)
EndFlag == tail /\ k = Len(recipeBuffer)

(* Seeded fault: the last chunks of the tail wait for a full message. *)
FlushNowFull == (Len(chunkBuffer) + 1) % SendChunkBatchSize = 0

FlushNow == (Len(chunkBuffer) + 1) % SendChunkBatchSize = 0 \/ EndFlag

(* Seeded fault: the chunk buffer is not reset after it is sent. *)
RecoverAndSendKeep ==
    /\ Send(IF EndFlag THEN "SERVER_RESTORE_FINAL" ELSE "SERVER_RESTORE_CHUNK",
            RecoverOneChunk)
    /\ chunkBuffer' = RecoverOneChunk

(* The message of the recover loops. *)
RecoverAndSend ==
    /\ Send(IF EndFlag THEN "SERVER_RESTORE_FINAL" ELSE "SERVER_RESTORE_CHUNK",
            RecoverOneChunk)
    /\ chunkBuffer' = <<>>

RecoverKeep ==
    /\ decoder = "recover"
    /\ ~FlushNow
    /\ chunkBuffer' = RecoverOneChunk
    /\ NextRecovered
    /\ UNCHANGED <<cacheVars, recipe, headRead, cursor, end, containerArray,
                   tail, net, client>>

RecoverSend ==
    /\ decoder = "recover"
    /\ FlushNow
    /\ RecoverAndSend
    /\ NextRecovered
    /\ UNCHANGED <<cacheVars, recipe, headRead, cursor, end, containerArray,
                   tail, ready, closed, client>>

(* ProcRecipeTailBatch. *)
TailFetch ==
    /\ decoder = "tail"
    /\ recipeBuffer # <<>>
    /\ decoder' = "fetch" /\ k' = 1 /\ tail' = TRUE
    /\ UNCHANGED <<cacheVars, recipe, headRead, cursor, end, idBuffer,
                   containerArray, batch, tmpContainerMap, recipeBuffer,
                   chunkBuffer, net, client>>

TailSend ==
    /\ decoder = "tail"
    /\ recipeBuffer = <<>>
    /\ Send("SERVER_RESTORE_FINAL", chunkBuffer)
    /\ chunkBuffer' = <<>>
    /\ decoder' = "close"
    /\ UNCHANGED <<cacheVars, recipe, headRead, cursor, end, idBuffer,
                   containerArray, batch, tmpContainerMap, recipeBuffer, k,
                   tail, ready, closed, client>>

(* SendBatchChunks fails: the server exits. *)
SendFails ==
    /\ \/ decoder = "recover" /\ FlushNow
       \/ decoder = "tail" /\ recipeBuffer = <<>>
    /\ ClientGone
    /\ Exit
    /\ UNCHANGED <<cacheVars, recipe, headRead, cursor, end, idBuffer,
                   containerArray, enclave, net, client>>

(* ReceiveData sees the close alert and answers it. *)
WaitClose ==
    /\ decoder = "close"
    /\ ClientGone
    /\ decoder' = "done"
    /\ UNCHANGED <<cacheVars, recipe, headRead, cursor, end, idBuffer,
                   containerArray, enclave, net, client>>

(* Another session makes the server exit. *)
ServerStops ==
    /\ Len(recipe.entries) \in MayStop
    /\ decoder \notin {"done", "exit"}
    /\ Exit
    /\ UNCHANGED <<cacheVars, recipe, headRead, cursor, end, idBuffer,
                   containerArray, enclave, net, client>>
-----------------------------------------------------------------------------
(* Seeded fault: the client is ready before the login is answered. *)
RestoreLoginEager ==
    /\ retriever = "login" /\ status = "running"
    /\ expectedNum' = 0
    /\ retriever' = "start" /\ writer' = "check"
    /\ UNCHANGED <<cacheVars, server, enclave, net, recvChunkBuf, recvNum,
                   outputMQ, done, jobDone, output, status>>

(* DataRetriever::RestoreLogin, after which both threads are started. *)
RestoreLogin ==
    /\ retriever = "login" /\ status = "running"
    /\ toClient # <<>>
    /\ expectedNum' = Head(toClient).totalChunkNum
    /\ toClient' = Tail(toClient)
    /\ retriever' = "start" /\ writer' = "check"
    /\ UNCHANGED <<cacheVars, server, enclave, ready, closed, recvChunkBuf,
                   recvNum, outputMQ, done, jobDone, output, status>>

SendReady ==
    /\ retriever = "start" /\ status = "running"
    /\ ready' = TRUE
    /\ retriever' = "recv"
    /\ UNCHANGED <<cacheVars, server, enclave, toClient, closed, expectedNum,
                   recvChunkBuf, recvNum, outputMQ, done, writer, jobDone,
                   output, status>>

RecvMessage ==
    /\ retriever = "recv" /\ status = "running"
    /\ toClient # <<>>
    /\ recvChunkBuf' = Head(toClient)
    /\ toClient' = Tail(toClient)
    /\ retriever' = "process"
    /\ UNCHANGED <<cacheVars, server, enclave, ready, closed, expectedNum,
                   recvNum, outputMQ, done, writer, jobDone, output, status>>

(* A call on the connection fails once the server has exited; what was under *)
(* way may be lost with it.                                                 *)
ConnectionFails ==
    /\ retriever \in {"login", "start", "recv", "finish"} /\ status = "running"
    /\ decoder = "exit"
    /\ status' = "failed"
    /\ UNCHANGED <<cacheVars, server, enclave, net, retriever, expectedNum,
                   recvChunkBuf, recvNum, outputMQ, done, writer, jobDone, output>>

(* ProcessChunkBatch: one chunk; Push spins while the queue is full. *)
PushChunk ==
    /\ retriever = "process" /\ status = "running"
    /\ recvChunkBuf.chunks # <<>>
    /\ Len(outputMQ) < QueueSize
    /\ outputMQ' = Append(outputMQ, Head(recvChunkBuf.chunks))
    /\ recvChunkBuf' = [recvChunkBuf EXCEPT !.chunks = Tail(@)]
    /\ recvNum' = recvNum + 1
    /\ UNCHANGED <<cacheVars, server, enclave, net, retriever, expectedNum,
                   done, writer, jobDone, output, status>>

NextMessage ==
    /\ retriever = "process" /\ status = "running"
    /\ recvChunkBuf.chunks = <<>>
    /\ recvChunkBuf.messageType = "SERVER_RESTORE_CHUNK"
    /\ retriever' = "recv"
    /\ UNCHANGED <<cacheVars, server, enclave, net, expectedNum, recvChunkBuf,
                   recvNum, outputMQ, done, writer, jobDone, output, status>>

(* SSLConnection::Finish: the client's close alert, ... *)
Finish ==
    /\ retriever = "process" /\ status = "running"
    /\ recvChunkBuf.chunks = <<>>
    /\ recvChunkBuf.messageType = "SERVER_RESTORE_FINAL"
    /\ closed' = TRUE
    /\ retriever' = "finish"
    /\ UNCHANGED <<cacheVars, server, enclave, toClient, ready, expectedNum,
                   recvChunkBuf, recvNum, outputMQ, done, writer, jobDone,
                   output, status>>

(* ... and the server's, which its ReceiveData sends when it gets the first. *)
(* If the server has exited the second SSL_shutdown may fail, or may not.    *)
FinishReturns ==
    /\ retriever = "finish" /\ status = "running"
    /\ decoder \in {"done", "exit"}
    /\ retriever' = "setDone"
    /\ UNCHANGED <<cacheVars, server, enclave, net, expectedNum, recvChunkBuf,
                   recvNum, outputMQ, done, writer, jobDone, output, status>>

SetDone ==
    /\ retriever = "setDone" /\ status = "running"
    /\ done' = TRUE
    /\ retriever' = "compare"
    /\ UNCHANGED <<cacheVars, server, enclave, net, expectedNum, recvChunkBuf,
                   recvNum, outputMQ, writer, jobDone, output, status>>

(* Seeded fault: the number of chunks is not compared. *)
CountMatchesAlways == TRUE

CountMatches == recvNum = expectedNum

CompareCount ==
    /\ retriever = "compare" /\ status = "running"
    /\ IF CountMatches
       THEN retriever' = "done" /\ UNCHANGED status
       ELSE status' = "failed" /\ UNCHANGED retriever
    /\ UNCHANGED <<cacheVars, server, enclave, net, expectedNum, recvChunkBuf,
                   recvNum, outputMQ, done, writer, jobDone, output>>

(* RestoreWriter::Run: the test of a turn, then the pop. *)
AllPopped == done /\ outputMQ = <<>>

WriterCheck ==
    /\ writer = "check" /\ status = "running"
    /\ jobDone' = AllPopped
    /\ writer' = "pop"
    /\ UNCHANGED <<cacheVars, server, enclave, net, retriever, expectedNum,
                   recvChunkBuf, recvNum, outputMQ, done, output, status>>

WriterPop ==
    /\ writer = "pop" /\ status = "running"
    /\ IF outputMQ # <<>>
       THEN output' = Append(output, Head(outputMQ)) /\ outputMQ' = Tail(outputMQ)
       ELSE UNCHANGED <<output, outputMQ>>
    /\ writer' = IF jobDone THEN "done" ELSE "check"
    /\ UNCHANGED <<cacheVars, server, enclave, net, retriever, expectedNum,
                   recvChunkBuf, recvNum, done, jobDone, status>>

(* Both threads are joined; the queue is deleted. *)
JoinThreads ==
    /\ retriever = "done" /\ writer = "done" /\ status = "running"
    /\ status' = IF outputMQ = <<>> THEN "complete" ELSE "failed"
    /\ UNCHANGED <<cacheVars, server, enclave, net, retriever, expectedNum,
                   recvChunkBuf, recvNum, outputMQ, done, writer, jobDone, output>>

(* The client process is killed. *)
ClientStops ==
    /\ Len(recipe.entries) \in MayStop
    /\ status = "running"
    /\ status' = "failed"
    /\ UNCHANGED <<cacheVars, server, enclave, net, retriever, expectedNum,
                   recvChunkBuf, recvNum, outputMQ, done, writer, jobDone, output>>

(* Both processes have ended. *)
Ended ==
    /\ status # "running" /\ decoder \in {"done", "exit"}
    /\ UNCHANGED vars
-----------------------------------------------------------------------------
OptThread == SendLoginResponse \/ SendLoginResponseFails

Decoder ==
    \/ RecvReady \/ RecvReadyFails \/ ReadRecipe \/ ParseEntry
    \/ FetchFromCache \/ FetchFromFile \/ FetchFails
    \/ RecoverKeep \/ RecoverSend \/ TailFetch \/ TailSend \/ SendFails
    \/ WaitClose

Retriever ==
    \/ RestoreLogin \/ SendReady \/ RecvMessage \/ ConnectionFails
    \/ PushChunk \/ NextMessage \/ Finish \/ FinishReturns \/ SetDone
    \/ CompareCount \/ JoinThreads

Writer == WriterCheck \/ WriterPop

Next ==
    \/ OptThread \/ Decoder \/ Retriever \/ Writer
    \/ ServerStops \/ ClientStops \/ Ended

Spec == Init /\ [][Next]_vars

(* Every thread keeps being scheduled; nothing is assumed of stops. *)
FairSpec ==
    /\ Spec
    /\ WF_vars(OptThread) /\ WF_vars(Decoder)
    /\ WF_vars(Retriever) /\ WF_vars(Writer)
-----------------------------------------------------------------------------
Message ==
    [messageType : {"SERVER_RESTORE_CHUNK", "SERVER_RESTORE_FINAL", "NONE"},
     chunks : Seq(Chunk)]
LoginResponse == [messageType : {"SERVER_LOGIN_RESPONSE"}, totalChunkNum : Nat]
BufferedEntry == [containerID : 1 .. Capping, offset : 1 .. SlotNum]

ServerTypeOK ==
    /\ recipe \in [totalChunkNum : Nat, entries : Seq(RecipeEntry)]
    /\ headRead \in BOOLEAN /\ end \in BOOLEAN
    /\ cursor \in 0 .. Len(recipe.entries)
    /\ decoder \in {"ready", "read", "parse", "fetch", "recover", "tail",
                    "close", "done", "exit"}
    /\ idBuffer \in Seq(ContainerID)
    /\ containerArray \in [1 .. Capping -> Buffer]
    /\ batch \in Seq(RecipeEntry)
    /\ DOMAIN tmpContainerMap \subseteq ContainerID
    /\ \A c \in DOMAIN tmpContainerMap : tmpContainerMap[c] \in 1 .. Capping
    /\ recipeBuffer \in Seq(BufferedEntry)
    /\ k \in Nat \ {0} /\ tail \in BOOLEAN
    /\ chunkBuffer \in Seq(Chunk)

ClientTypeOK ==
    /\ toClient \in IF retriever = "login" THEN Seq(LoginResponse) ELSE Seq(Message)
    /\ ready \in BOOLEAN /\ closed \in BOOLEAN
    /\ retriever \in {"login", "start", "recv", "process", "finish",
                      "setDone", "compare", "done"}
    /\ expectedNum \in Nat /\ recvNum \in Nat
    /\ recvChunkBuf \in Message
    /\ outputMQ \in Seq(Chunk) /\ done \in BOOLEAN
    /\ writer \in {"off", "check", "pop", "done"} /\ jobDone \in BOOLEAN
    /\ output \in Seq(Chunk)
    /\ status \in {"running", "complete", "failed"}

TypeOK == CacheTypeOK /\ ServerTypeOK /\ ClientTypeOK

(* How many entries of the recipe have been parsed, and how many of their    *)
(* chunks recovered.                                                        *)
Parsed    == IF decoder \in {"fetch", "recover"} /\ ~tail
             THEN cursor - Len(batch) + 1 ELSE cursor - Len(batch)
Recovered == CASE decoder = "recover"          -> Parsed - Len(recipeBuffer) + k - 1
               [] decoder \in {"close", "done"} -> Parsed
               [] OTHER                        -> Parsed - Len(recipeBuffer)

(* The ID of every buffered entry leads to the container of its recipe       *)
(* entry, though tmpContainerMap lives for one batch only while the IDs and  *)
(* the buffered entries outlive it (EcallRecvDecoder::ProcRecipeBatch).      *)
IdsResolve ==
    decoder \in {"read", "parse", "fetch", "recover", "tail"} =>
        \A n \in DOMAIN recipeBuffer :
            LET entry == recipe.entries[Parsed - Len(recipeBuffer) + n]
            IN  /\ recipeBuffer[n].containerID <= Len(idBuffer)
                /\ idBuffer[recipeBuffer[n].containerID] = entry.containerName
                /\ recipeBuffer[n].offset = entry.offset

(* What RecoverOneChunk reads is the chunk that the recipe asks for, whether *)
(* its container came from a file or from the cache, and whatever the buffer *)
(* held before (EnclaveRecvDecoder::GetReqContainers).                       *)
RecoversRight ==
    decoder = "recover" =>
        containerArray[recipeBuffer[k].containerID][recipeBuffer[k].offset]
            = File[Parsed - Len(recipeBuffer) + k]

SeqsExt == INSTANCE SequencesExt

(* The chunks of the messages under way. *)
ChunksOf(msg) == IF "chunks" \in DOMAIN msg THEN msg.chunks ELSE <<>>
Flatten(msgs) == SeqsExt!FlattenSeq([n \in DOMAIN msgs |-> ChunksOf(msgs[n])])

(* Every chunk recovered so far is in exactly one place of the pipeline -    *)
(* file, queue, message buffers, network - and all of them together are the  *)
(* beginning of the file, in order (ProcRecipeBatch, ProcRecipeTailBatch,    *)
(* DataRetriever::ProcessChunkBatch, RestoreWriter::Run).                    *)
Conservation ==
    decoder # "exit" /\ status # "failed" =>
        output \o outputMQ \o recvChunkBuf.chunks \o Flatten(toClient) \o chunkBuffer
            = SubSeq(File, 1, Recovered)

(* The decoder thread, started before ServerOptThread reads the recipe head, *)
(* does not touch the stream until the head has been read                    *)
(* (serverOptThread.cc, download branch).                                    *)
HeadFirst == decoder \notin {"ready", "exit"} => headRead

(* A message never holds more chunks than the client's receive buffer, and   *)
(* no more containers are asked for than there are buffers.                  *)
BuffersBounded ==
    /\ Len(idBuffer) <= Capping
    /\ Len(chunkBuffer) < SendChunkBatchSize
    /\ \A n \in DOMAIN toClient : Len(ChunksOf(toClient[n])) <= SendChunkBatchSize

FR == INSTANCE FileRestore WITH
          file <- File, length <- recipe.totalChunkNum

(* The session implements FileRestore: whatever stops when, the output is a  *)
(* beginning of the file, and the client reports success only for a whole    *)
(* file whose length is the one in the recipe head.                          *)
ImplementsFileRestore == FR!Spec

(* Client and server come to an end, whatever stops when: no thread waits    *)
(* for ever for a message, the close alert or the queue (a loss within a     *)
(* message is the subject of SecureChannel).                                 *)
RestoreEnds == <>(status # "running" /\ decoder \in {"done", "exit"})

(* The head fits the entries and all the containers exist. *)
Intact ==
    /\ recipe.totalChunkNum = Len(recipe.entries)
    /\ \A n \in DOMAIN recipe.entries : recipe.entries[n].containerName \notin Lost

(* A file whose upload finished and whose containers are all there is        *)
(* restored, as long as no process stops by itself.                          *)
IntactRestored == Intact /\ Len(recipe.entries) \notin MayStop ~> (status = "complete" /\ output = File)
=============================================================================
