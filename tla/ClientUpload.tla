---------------------------- MODULE ClientUpload ----------------------------
(***************************************************************************)
(* The uploading client after its login: the Chunker thread reads the file  *)
(* block by block, cuts it into chunks and pushes them into a bounded       *)
(* queue; the DataSender thread pops them, sends them in batches and ends   *)
(* with the recipe head.                                                    *)
(*                                                                         *)
(* A file is a sequence of bytes, or of lines for the trace chunkers.  The  *)
(* rolling hash of FastCDC is computed as in the code, with a small word.   *)
(***************************************************************************)
EXTENDS Naturals, Sequences, FiniteSetsExt, SequencesExt

CONSTANTS
    Byte,
    Inputs,          \* what the client may be run on: [type, file, newline]
    minChunkSize, avgChunkSize, maxChunkSize, readSize,
    GEAR,            \* GEAR[b], the table of FastCDC
    UintMod,         \* the modulus of uint32_t
    LineSize,        \* LineSize[l], the chunk size that a trace line names
    EmptyLine,       \* a trace line without characters
    SendChunkBatchSize, QueueSize

ASSUME ClientAssumption ==
    /\ minChunkSize \in Nat /\ avgChunkSize \in Nat /\ maxChunkSize \in Nat
    /\ 1 < avgChunkSize /\ minChunkSize < avgChunkSize /\ avgChunkSize < maxChunkSize
    /\ readSize \in Nat /\ maxChunkSize <= readSize
    /\ UintMod \in Nat \ {0} /\ GEAR \in [Byte -> 0 .. UintMod - 1]
    /\ SendChunkBatchSize \in Nat \ {0} /\ QueueSize \in Nat \ {0}
    /\ LineSize \in [DOMAIN LineSize -> Nat]
    /\ Inputs \subseteq
           [type : {"FAST_CDC", "FIXED_SIZE_CHUNKING"}, file : Seq(Byte), newline : BOOLEAN]
           \cup [type : {"TRACE"}, file : Seq(DOMAIN LineSize \cup {EmptyLine}), newline : BOOLEAN]

VARIABLES           \* of the chunker
    input,          \* the file, how it is chunked, whether its last line ends
    chunker,        \* where the chunker thread stands
    totalOffset,    \* where the next block begins
    localOffset,    \* how much of this block is chunked
    block,          \* waitingForChunkingBuffer_
    end,            \* the stream is at its end
    chunkIDCnt, fileSize
VARIABLES           \* the queue and the sender
    outputMQ, done,
    sender,         \* where the sender thread stands
    jobDone,        \* jobDoneFlag
    sendChunkBuf,   \* the chunks of the batch being filled
    sent            \* the messages on the connection

chunkerVars == <<chunker, totalOffset, localOffset, block, end, chunkIDCnt, fileSize>>
senderVars  == <<sender, jobDone, sendChunkBuf, sent>>
vars == <<input, chunkerVars, outputMQ, done, senderVars>>

Init ==
    /\ input \in Inputs
    /\ chunker = "read" /\ totalOffset = 0 /\ localOffset = 0 /\ block = <<>> /\ end = FALSE
    /\ chunkIDCnt = 0 /\ fileSize = 0
    /\ outputMQ = <<>> /\ done = FALSE
    /\ sender = "check" /\ jobDone = FALSE /\ sendChunkBuf = <<>> /\ sent = <<>>

Trace == input.type = "TRACE"
-----------------------------------------------------------------------------
Least(m, n) == IF m < n THEN m ELSE n

(* Where FastCDC changes from the stricter mask to the laxer one.            *)
CalNormalSize(min, av, max) ==
    LET off == Least(av, min + (min + 1) \div 2) IN Least(av - off, max)

(* round(log2(avgChunkSize)) *)
Bits == CHOOSE n \in 0 .. avgChunkSize :
            2^(2 * n) <= 2 * avgChunkSize^2 /\ avgChunkSize^2 < 2^(2 * n + 1)

(* The mask plus one: fp & mask is zero when fp is divisible by it.          *)
GenerateFastCDCMask(bits) == 2^Least(31, IF bits < 1 THEN 1 ELSE bits)
MaskS == GenerateFastCDCMask(Bits + 1)
MaskL == GenerateFastCDCMask(Bits - 1)

(* The hash after the first i bytes of src; the bytes up to start are not     *)
(* hashed.                                                                   *)
Hash(src, start) ==
    LET fp[i \in start .. Len(src)] ==
            IF i = start THEN 0 ELSE (fp[i - 1] \div 2 + GEAR[src[i]]) % UintMod
    IN fp

(* The first cut in the stricter part, then in the laxer one, else the       *)
(* largest chunk.                                                            *)
CutPoint(src) ==
    LET len    == Len(src)
        start  == Least(len, minChunkSize)
        normal == Least(CalNormalSize(minChunkSize, avgChunkSize, maxChunkSize), len)
        last   == Least(maxChunkSize, len)
        fp     == Hash(src, start)
    IN Min({last} \cup {i \in start + 1 .. normal : fp[i] % MaskS = 0}
                  \cup {i \in start + 1 .. last : i > normal /\ fp[i] % MaskL = 0})

Remaining == Len(block) - localOffset

(* Seeded fault: a block is chunked to its end although more will follow. *)
MoreInAnyBlock == localOffset < Len(block)

(* The condition of the inner loop: FastCDC keeps what might be too short    *)
(* for a cut and reads it again.                                             *)
MoreInBlock ==
    IF input.type = "FAST_CDC"
    THEN Remaining >= maxChunkSize \/ (end /\ localOffset < Len(block))
    ELSE localOffset < Len(block)

CutSize == IF input.type = "FAST_CDC"
           THEN CutPoint(SubSeq(block, localOffset + 1, Len(block)))
           ELSE IF Remaining > avgChunkSize THEN avgChunkSize ELSE Remaining

Push(data) == Len(outputMQ) < QueueSize /\ outputMQ' = Append(outputMQ, data)

(* Seeded fault: the end is only noticed when nothing is left to read. *)
AtEndOnlyEmpty == totalOffset = Len(input.file)

(* eof() holds when the read asked for more than there was. *)
AtEnd == totalOffset + readSize > Len(input.file)

ReadBlock ==
    /\ chunker = "read" /\ ~Trace
    /\ block' = SubSeq(input.file, totalOffset + 1, Least(totalOffset + readSize, Len(input.file)))
    /\ end' = AtEnd
    /\ localOffset' = 0
    /\ chunker' = IF block' = <<>> THEN "recipe" ELSE "cut"
    /\ UNCHANGED <<input, totalOffset, chunkIDCnt, fileSize, outputMQ, done, senderVars>>

CutChunk ==
    /\ chunker = "cut" /\ MoreInBlock
    /\ Push([dataType |-> "DATA_CHUNK",
             chunk |-> SubSeq(block, localOffset + 1, localOffset + CutSize)])
    /\ localOffset' = localOffset + CutSize
    /\ fileSize' = fileSize + CutSize
    /\ chunkIDCnt' = chunkIDCnt + 1
    /\ UNCHANGED <<input, chunker, totalOffset, block, end, done, senderVars>>

(* seekg(totalOffset): the next read begins behind the last cut. *)
NextBlock ==
    /\ chunker = "cut" /\ ~MoreInBlock
    /\ totalOffset' = totalOffset + localOffset
    /\ chunker' = IF end THEN "recipe" ELSE "read"
    /\ UNCHANGED <<input, localOffset, block, end, chunkIDCnt, fileSize, outputMQ, done, senderVars>>

(* The trace chunkers stop at an empty line, and at a line that the file     *)
(* ends without a line break.                                                *)
Line == input.file[totalOffset + 1]
LineCounts ==
    /\ totalOffset < Len(input.file)
    /\ Line # EmptyLine
    /\ totalOffset + 1 = Len(input.file) => input.newline

TraceSize == Least(LineSize[Line], maxChunkSize)

TraceChunk ==
    /\ chunker = "read" /\ Trace /\ LineCounts
    /\ Push([dataType |-> "DATA_CHUNK", chunk |-> <<Line, TraceSize>>])
    /\ totalOffset' = totalOffset + 1
    /\ fileSize' = fileSize + TraceSize
    /\ chunkIDCnt' = chunkIDCnt + 1
    /\ UNCHANGED <<input, chunker, localOffset, block, end, done, senderVars>>

TraceEnd ==
    /\ chunker = "read" /\ Trace /\ ~LineCounts
    /\ chunker' = "recipe"
    /\ UNCHANGED <<input, totalOffset, localOffset, block, end, chunkIDCnt, fileSize,
                   outputMQ, done, senderVars>>

PushRecipe ==
    /\ chunker = "recipe"
    /\ Push([dataType |-> "RECIPE_END", totalChunkNum |-> chunkIDCnt, fileSize |-> fileSize])
    /\ chunker' = "done"
    /\ UNCHANGED <<input, totalOffset, localOffset, block, end, chunkIDCnt, fileSize, done, senderVars>>

SetDone ==
    /\ chunker = "done"
    /\ done' = TRUE
    /\ chunker' = "off"
    /\ UNCHANGED <<input, totalOffset, localOffset, block, end, chunkIDCnt, fileSize,
                   outputMQ, senderVars>>
-----------------------------------------------------------------------------
(* DataSender::Run. *)
CheckDone ==
    /\ sender = "check"
    /\ jobDone' = (jobDone \/ (done /\ outputMQ = <<>>))
    /\ sender' = "pop"
    /\ UNCHANGED <<input, chunkerVars, outputMQ, done, sendChunkBuf, sent>>

AfterPop == IF jobDone THEN "off" ELSE "check"

Batch(chunks) == [messageType |-> "CLIENT_UPLOAD_CHUNK", chunks |-> chunks]

ProcessChunk(chunk) ==
    LET buf == Append(sendChunkBuf, chunk) IN
    IF Len(buf) % SendChunkBatchSize = 0
    THEN sendChunkBuf' = <<>> /\ sent' = Append(sent, Batch(buf))
    ELSE sendChunkBuf' = buf /\ UNCHANGED sent

(* SendChunks for what is buffered, then the recipe head. *)
ProcessRecipeEnd(head) ==
    LET tail == IF sendChunkBuf = <<>> THEN <<>> ELSE <<Batch(sendChunkBuf)>>
    IN /\ sent' = sent \o tail \o <<[messageType |-> "CLIENT_UPLOAD_RECIPE_END",
                                     totalChunkNum |-> head.totalChunkNum,
                                     fileSize |-> head.fileSize]>>
       /\ sendChunkBuf' = <<>>

PopNothing ==
    /\ sender = "pop" /\ outputMQ = <<>>
    /\ sender' = AfterPop
    /\ UNCHANGED <<input, chunkerVars, outputMQ, done, jobDone, sendChunkBuf, sent>>

PopData ==
    /\ sender = "pop" /\ outputMQ # <<>>
    /\ outputMQ' = Tail(outputMQ)
    /\ IF Head(outputMQ).dataType = "DATA_CHUNK"
       THEN ProcessChunk(Head(outputMQ).chunk)
       ELSE ProcessRecipeEnd(Head(outputMQ))
    /\ sender' = AfterPop
    /\ UNCHANGED <<input, chunkerVars, done, jobDone>>

(* SendData reports a failure: the client exits, perhaps after the last      *)
(* batch and before the head.                                                *)
SendFails ==
    /\ sender = "pop" /\ outputMQ # <<>>
    /\ \/ /\ \/ Head(outputMQ).dataType = "RECIPE_END"
             \/ (Len(sendChunkBuf) + 1) % SendChunkBatchSize = 0
          /\ UNCHANGED <<sendChunkBuf, sent>>
       \/ /\ Head(outputMQ).dataType = "RECIPE_END" /\ sendChunkBuf # <<>>
          /\ sent' = Append(sent, Batch(sendChunkBuf))
          /\ sendChunkBuf' = <<>>
    /\ sender' = "exit" /\ chunker' = "exit"
    /\ UNCHANGED <<input, totalOffset, localOffset, block, end, chunkIDCnt, fileSize,
                   outputMQ, done, jobDone>>

(* Finish, after the head, finds that the connection is gone: the client      *)
(* exits too.                                                                 *)
FinishFails ==
    /\ sender = "pop" /\ outputMQ # <<>> /\ Head(outputMQ).dataType = "RECIPE_END"
    /\ outputMQ' = Tail(outputMQ)
    /\ ProcessRecipeEnd(Head(outputMQ))
    /\ sender' = "exit" /\ chunker' = "exit"
    /\ UNCHANGED <<input, totalOffset, localOffset, block, end, chunkIDCnt, fileSize, done, jobDone>>

Chunker    == ReadBlock \/ CutChunk \/ NextBlock \/ TraceChunk \/ TraceEnd \/ PushRecipe \/ SetDone
DataSender == CheckDone \/ PopNothing \/ PopData \/ SendFails \/ FinishFails

Next == Chunker \/ DataSender

Spec == Init /\ [][Next]_vars
FairSpec == Spec /\ WF_vars(Chunker) /\ WF_vars(DataSender)
-----------------------------------------------------------------------------
(* The chunks of a file, whatever the read buffer: FastCDC cuts the file as   *)
(* if it were in memory; chunks of a fixed size end where a block ends too.   *)
(* Cuts gives where the n-th chunk ends.                                      *)
SizeAt(in, o) ==
    IF in.type = "FAST_CDC" THEN CutPoint(SubSeq(in.file, o + 1, Len(in.file)))
    ELSE Least(avgChunkSize, Least(readSize - (o % readSize), Len(in.file) - o))

NextCut(in, o) == o + SizeAt(in, o)

Cuts(in) ==
    LET cut[n \in 0 .. Len(in.file)] == IF n = 0 THEN 0 ELSE NextCut(in, cut[n - 1])
    IN cut

FileChunks(in) ==
    LET f == in.file
        c == Cuts(in)
    IN [n \in {n \in 1 .. Len(f) : c[n - 1] < Len(f)} |-> SubSeq(f, c[n - 1] + 1, c[n])]

(* A trace is read up to its first line that does not count.                  *)
LineChunks(in) ==
    LET f == in.file
    IN [n \in {n \in 1 .. Len(f) : /\ \A m \in 1 .. n : f[m] # EmptyLine
                                   /\ n = Len(f) => in.newline}
          |-> <<f[n], Least(LineSize[f[n]], maxChunkSize)>>]

Reference == IF Trace THEN LineChunks(input) ELSE FileChunks(input)

(* The chunks in a message and in an element of the queue.                    *)
IsBatch(msg)  == msg.messageType = "CLIENT_UPLOAD_CHUNK"
ChunksIn(msg) == IF IsBatch(msg) THEN msg.chunks ELSE <<>>
ChunkIn(data)  == IF data.dataType = "DATA_CHUNK" THEN <<data.chunk>> ELSE <<>>

Delivered == FlattenSeq([n \in DOMAIN sent |-> ChunksIn(sent[n])])
Queued    == FlattenSeq([n \in DOMAIN outputMQ |-> ChunkIn(outputMQ[n])])
Pushed    == Delivered \o sendChunkBuf \o Queued

(* Every variable has its type; the queue and the batch buffer stay within   *)
(* their sizes.                                                              *)
TypeOK ==
    /\ chunker \in {"read", "cut", "recipe", "done", "off", "exit"}
    /\ sender \in {"check", "pop", "off", "exit"}
    /\ totalOffset \in 0 .. Len(input.file) /\ localOffset \in 0 .. readSize
    /\ chunkIDCnt \in Nat /\ fileSize \in Nat
    /\ Len(outputMQ) <= QueueSize /\ Len(sendChunkBuf) < SendChunkBatchSize
    /\ end \in BOOLEAN /\ done \in BOOLEAN /\ jobDone \in BOOLEAN

(* The server gets the chunks of the file, each once and in order: the cut   *)
(* points do not depend on where a read ended, so that equal data in two     *)
(* files gives equal chunks; all batches but the last are full; the recipe   *)
(* head comes last, after everything, and its counts are those of the file.  *)
UploadFaithful ==
    /\ IsPrefix(Pushed, Reference)
    /\ \A m, n \in DOMAIN sent :
          m < n /\ IsBatch(sent[m]) /\ IsBatch(sent[n]) => Len(sent[m].chunks) = SendChunkBatchSize
    /\ \A n \in DOMAIN sent : sent[n].messageType = "CLIENT_UPLOAD_RECIPE_END" =>
          /\ n = Len(sent)
          /\ Delivered = Reference
          /\ sent[n].totalChunkNum = Len(Reference)
          /\ ~Trace => FlattenSeq(Delivered) = input.file /\ sent[n].fileSize = Len(input.file)

(* Both threads end, and unless the connection failed the head was sent:     *)
(* the chunker does not read the same block for ever, and the done flag does *)
(* not overtake what is in the queue.                                        *)
UploadEnds ==
    <>(\/ sender = "exit"
       \/ /\ chunker = "off" /\ sender = "off" /\ outputMQ = <<>>
          /\ \E n \in DOMAIN sent : sent[n].messageType = "CLIENT_UPLOAD_RECIPE_END")
=============================================================================
