# TLA+ models of DEBE

DEBE is a backup store with deduplication before encryption: a client cuts a
file into chunks and sends them over an SSL connection to a storage server;
inside an SGX enclave the server finds duplicates, compresses and encrypts what
is new, packs it into containers, and writes a recipe with one entry per chunk.
`Prototype/` is that system. `Baseline/` is the system it is compared with,
deduplication *after* encryption: a client gets a key for each chunk, encrypts
it, and a plain server deduplicates the ciphertexts. This directory models the
parts of both that decide whether a file that was uploaded can be read back,
checks them with TLC and proves what can be proved with TLAPS.

## Inventory

| component | state | operations | interacts with |
|---|---|---|---|
| `DataReceiver`, `DataWriter`, upload branch of `ServerOptThread` | session threads, `ClientVar` (queue, buffers, recipe stream) | login, receive loop, last container, writer loop, join, clean-up | ECalls into the index, queue between the threads |
| `EcallFreqIndex` | sketch, top-k index, per-batch `InQueryEntry` list, `_localIndex` | `ProcessOneBatch`, `ProcessTailBatch`, `PersistDedupIndex`, `LoadDedupIndex` | sketch, heap, `EcallStorageCore`, OCalls; `sketchLck_`, `topKIndexLck_` |
| `EcallCMSketch` | counter array | `Update`, `Estimate` | called under `sketchLck_` |
| `EcallEntryHeap` | array heap plus hash map with back pointers | `Add`, `Update`, `Pop`, `TopEntry` | called under `topKIndexLck_` |
| `EcallStorageCore`, `StorageCore`, store OCalls | open container, container files, recipe files | `SaveChunk`, `Ocall_WriteContainer`, `UpdateFileRecipe`, `FinalizeRecipe` | writer queue, file system |
| `MessageQueue` | bounded queue, `done_` | `Push` (spins when full), `Pop`, `IsEmpty` | receiver to writer, client pipelines |
| `InMemoryDatabase` (`fp2ChunkDB`) | fingerprint to address | query, insert, load, save | `Ocall_QueryOutIndex`, `Ocall_UpdateOutIndex` |
| `EnclaveRecvDecoder`, `EcallRecvDecoder` | recipe stream and batch, container IDs of the current group, buffered entries, message buffer | `ProcRecipeBatch`, `GetReqContainers`, `ProcRecipeTailBatch`, `SendBatchChunks` | recipe and container files, cache, SSL |
| `ReadCache` over `lru11::Cache` | buffer pool, LRU list and map | `ExistsInCache`, `ReadFromCache`, `InsertToCache` | called by `GetReqContainers` |
| `SSLConnection` | one OpenSSL object per connection | `SendData`, `ReceiveData`, `Finish` | every session |
| accept loop, Ctrl-C handler, `ServerOptThread`, key and client ECalls | `thList`, `clientLockIndex_`, `clientSessionKeyIndex_`, recipe files | accept, attestation decision, key exchange, login, file check, response, join, SIGINT | starts and joins all of the above |
| other indexes (in-enclave, out-enclave, extreme binning, sparse) | a map in the enclave, bins or manifests in the database, a segment buffer | `ProcessOneBatch`, `ProcessTailBatch`, `PersistDedupIndex`, `LoadDedupIndex` | storage core, database |
| enclave set-up and shutdown | data key, index query key, sealed files | `Ecall_Enclave_Init`, `Ecall_Enclave_Destroy`, database open and save | file system |
| client (`Chunker`, `DataSender`, `DataRetriever`, `RestoreWriter`) | two pipelines of two threads | upload, download | queue, SSL |
| baseline client (`DataSender`, `DataRetriever`, `KeyGen/`) | send buffers, local key recipe | four key generation methods, upload, download | key manager, storage server |
| baseline key managers (`tedKM`, `dupLESSKM`) | sketch, hash context and big number shared by all threads | key seeds for a batch, reset | client |
| baseline server (`ServerOptThread`, `DataReceiver`, `PlainIndex`, `StorageCore`, `RecvDecoder`) | fingerprint index, containers, file and key recipes | as in the prototype, without an enclave | client |
| attestation, IAS, crypto, LZ4, configuration | – | – | – |
| `Sim/` | trace simulator | – | – |

What is hard here, and what makes it correct:

* **Interleaving.** With `MULTI_CLIENT = 1` several sessions run
  `ProcessOneBatch` at once. The batch is not atomic: the sketch is updated
  under one lock, the heap read and later written under another, and the
  out-enclave index is queried before the chunks are stored and updated long
  after. Every value read in one phase is stale in the next. *An address must be
  right and must not dangle, whatever happened in between.*
* **Partial failure.** A connection can be lost between any two batches, while
  indexes already refer to a container that is still open. *Nothing an index
  refers to may be lost.*
* **Ordering and termination.** The writer reads `done_` and `IsEmpty`, then
  pops once more. *No container may be left in the queue, and no thread may
  spin for ever.*
* **Boundaries.** A container must have room for a chunk and its IV; the heap
  is popped only when its size *equals* the capacity; sketch counters are
  32 bits wide.
* **Restoring in groups.** Container IDs live until a group of containers is
  full, the map from names to IDs for one batch of entries, buffered chunks
  across both, and cache buffers are reused. *The chunk that is sent must be the
  one the recipe asks for.*
* **The end of a session.** The client waits for the server's close alert, the
  server for the client's, the writer for `done_`; either end may stop in the
  middle. *Everything ends, and a file that is not whole is not reported as
  restored.*
* **Restarts.** At shutdown the index, the keys and the database are written one
  after the other, the keys only in the first life; the next start combines what
  it finds. *What was uploaded stays readable, and nothing in one file refers to
  what is missing in another.*
* **One client, several connections.** Locks and keys are kept per client ID, a
  lock is awaited while another is held, and a failing thread exits the whole
  process. *Sessions of a client exclude each other, use their own key, and end.*
* **Two parties that must agree by position.** A baseline client decrypts the
  n-th chunk with the n-th key of a file of its own, and a key manager without
  locks hands the keys out. *A file is decrypted with its own keys.*
* **Long sequences.** The heap relies on stored positions; one that is wrong
  shows only when a much later `Update` hits the wrong item.

`PROJECT.json` lists these hazards line by line.

## Modules

| module | models |
|---|---|
| `CMSketch` | count-min sketch: `Update`, `Estimate`, with any assignment of counters to fingerprints |
| `TopKIndex` | what the top-k index promises: a bounded map that gives up an item of minimal frequency |
| `FreqUpload` | an upload session and the frequency index: extends the two above |
| `EntryHeap` | the array heap of the code, one loop turn per step, with saving and loading; implements `TopKIndex` |
| `FileRestore` | what a restore promises: the chunks of the file in order, success only for the whole file |
| `ReadCache` | the container cache: buffer pool, LRU list and map |
| `Restore` | a restore session, server and client: extends `ReadCache`, implements `FileRestore` |
| `SecureChannel` | `SendData` and `ReceiveData` over a connection that may break |
| `ServerSession` | the sessions of the server with handshake, locks and SIGINT, and the client at the other end; implements `FileSessions` |
| `FileSessions` | what the server promises of files: sessions of one client exclude each other |
| `IndexServer` | the five indexes and what is saved and loaded, over several lives of the server |
| `ClientUpload` | the client's chunker and sender threads |
| `DaE` | the baseline: clients, key manager and server |
| `MCFreqUpload`, `MCRestore`, `MCSecureChannel`, `MCServerSession`, `MCIndexServer`, `MCClientUpload`, `MCDaE` | finite instances for TLC |
| `EntryHeapProofs`, `RestoreProofs`, `ServerSessionProofs`, `SecureChannelProofs`, `IndexServerProofs`, `ClientUploadProofs`, `DaEProofs` | theorems about the module of that name |
| `FreqUploadProofs` | theorems about `FreqUpload` and `CMSketch`: the sketch, types, frequencies and the heap, then containers, addresses and recipes |

### FreqUpload and the code

A session runs from the login to the join of its threads; `pc[c]` is where the
`DataReceiver` of client `c` stands, `writer[c]` the `DataWriter`.

| action | code |
|---|---|
| `StartUpload` | `ServerOptThread::Run` upload branch, `ClientVar` and `EnclaveClient` initialisation: truncated recipe with a placeholder head, fresh container ID, threads started |
| `RecvBatch`, `RecvRecipeEnd`, `Disconnect` | the message loop of `DataReceiver::Run` |
| `LockSketch`, `UpdateSketch` | first loop of `ProcessOneBatch` |
| `LockTopK`, `ClassifyLocal`, `ClassifyDuplicate`, `ClassifyUnique` | second loop: chunk seen earlier in the batch, in the heap, or neither |
| `QueryOutIndex` | `Ocall_QueryOutIndex` |
| `ProcessDuplicate`, `ProcessUnique` | third loop: `SaveChunk` (which may write the container out) and `UpdateFileRecipe` |
| `LockHeap`, `HeapSkip`, `HeapUpdateFreq`, `HeapAdd` | fourth loop: the heap |
| `UpdateOutIndex` | `Ocall_UpdateOutIndex` |
| `LastContainer`, `Join` | the end of `DataReceiver::Run`, and the clean-up in `ServerOptThread` |
| `WriterCheck`, `WriterPop` | one turn of `DataWriter::Run` |

Steps are as large as the code's own synchronisation allows: each loop turn
inside a lock is a step, an OCall on the shared database is one step (with
`MULTI_CLIENT` it runs under `outIdxLck_`), and file and queue operations are
steps.

What is abstracted: a chunk is its fingerprint (SHA-256 without collisions), a
container body is the set of its `<<offset, fingerprint>>` slots, encryption and
compression are left out except for the length a chunk takes. A container ID is
a random UUID, assumed not to repeat. The writer reads `done_` and the queue in
one step: `done_` is read first, and once it is set nothing more is pushed, so
the answer of `IsEmpty` can no longer change to the worse. A client sends
nothing but batches, then the recipe end, then closes; it may disappear at any
time. File-system errors make the code exit and are not modelled. The top-k
capacity is at least 2: `Pop` on a heap of one item accesses an erased element.

### EntryHeap and the code

`heap` is `_heap`, `index` is `_index` with each item's `idx`; positions count
from 1. `SwapUp` and `SwapDown` are one turn of the loops; the turns read and
write the back pointers exactly where the code does. The refinement mapping
`Contents` forgets the array; while `Pop` runs, the removed item still counts,
because `AddChunkToHeap` is one operation under the lock. `Restart` is
`PersistDedupIndex` followed by `LoadDedupIndex`.

### Restore and the code

One session, from the login to the end of both processes. `decoder` is where the
decoder thread stands, `retriever` and `writer` the client's threads.

| action | code |
|---|---|
| `SendLoginResponse` | download branch of `ServerOptThread::Run`: the head is read and sent after the decoder thread has been started on the same stream |
| `RecvReady`, `ReadRecipe` | `EnclaveRecvDecoder::Run`: the client's go-ahead, then one read per batch until `eof()` |
| `ParseEntry` | `EcallRecvDecoder::ProcRecipeBatch`, one entry |
| `FetchFromCache`, `FetchFromFile`, `FetchFails` | `GetReqContainers`, one container: `ReadFromCache`, or the file and `InsertToCache`; a missing file exits |
| `RecoverKeep`, `RecoverSend` | the recover loops of both ECalls, one chunk: `RecoverOneChunk`, and the message when it is full or the last |
| `TailFetch`, `TailSend` | `ProcRecipeTailBatch` |
| `WaitClose`, `Finish`, `FinishReturns` | the two close alerts: `ReceiveData` on the server, `SSLConnection::Finish` on the client |
| `RestoreLogin`, `SendReady`, `RecvMessage`, `PushChunk`, `NextMessage`, `SetDone`, `CompareCount` | `DataRetriever::RestoreLogin` and `Run` |
| `WriterCheck`, `WriterPop` | one turn of `RestoreWriter::Run` |
| `JoinThreads` | the client's `main` |
| `RecvReadyFails`, `SendFails`, `ConnectionFails`, `SendLoginResponseFails` | the exits when the other end is gone |
| `ServerStops`, `ClientStops` | a process is killed, or another session makes the server exit |

A container is the sequence of its chunks and an offset a position in it;
buffers keep their old contents behind a shorter container, as in the code.
Sessions share only container files, which are written once and never removed,
so one session is enough. Recipe entries are the
addresses that an upload writes (`AddrCorrect`); a recipe whose upload did not
finish has a head that does not fit. Messages are sent and received whole here;
what happens within one is the subject of `SecureChannel`, whose findings are
therefore excluded from `RestoreEnds`. A request for a file that does not exist
is part of the handshake and is in `ServerSession`. Decryption and
decompression are left out: a stored chunk is the chunk.

### SecureChannel and the code

`SendHeader`, `SendBody` and `RecvHeader`, `RecvBody` are the calls of
`SSL_write` and `SSL_read` in `SendData` and `ReceiveData`; the actions whose
names end in `Fails` are the same calls once the connection is lost.
`MoreToSend` is the loop test as C evaluates it: an `int` compared with a
`uint32_t`. OpenSSL is external and modelled by what a caller sees: it transfers
any positive number of bytes, or returns 0 or -1.

### ServerSession and the code

Connections are fixed in number; each is accepted at most once, in any order.
`thread[c]` is where `ServerOptThread::Run` of connection `c` stands, `worker[c]`
the `DataReceiver` or `EnclaveRecvDecoder` thread it starts, `client[c]` the
client's process.

| action | code |
|---|---|
| `Accept`, `PushBack` | the accept loop of `dbeServer.cc`: a new thread, then, separately, its entry in `thList` |
| `Interrupt`, `Stop` | SIGINT, and the end of `CTRLC` once the listed threads are joined |
| `ReceiveRA`, `ReceiveKeyInit`, `LockSet`, `LockClient`, `ExchangeKeys`, `ReceiveLogin`, `Refuse`, `ClientClosed`, `InitClient`, `Respond`, `Return` | `ServerOptThread::Run` in the order of the code; `clientLockSetLock_` is held while the client's mutex is awaited |
| `ThreadExit`, `WorkerExit` | the calls of `exit` when a receive or a send fails, and when a restore cannot open a container |
| `ProcessBatch`, `FinalizeRecipe`, `RestoreReady`, `RestoreFinal`, `WorkerEnds` | what the session sees of `DataReceiver::Run` and `EnclaveRecvDecoder::Run` |
| `SendRADecision`, `SendLogin`, `ReceiveLoginReply`, `SendRecipeEnd`, `SendRestoreReady`, `ReceiveRestoreFinal`, `Finished` | `dbeClient.cc`, `SessionKeyExchange`, `DataSender`, `DataRetriever` |
| `Crash`, `ClientsFail` | a client dies, with what the server has not read, between two messages or within one (`Torn`); the server is gone |

A receive never returns behind a torn message: `ReceiveData` loops for the body
(`sslConnect.cc:292`). A send to a client that died may fail, may end in a
buffer, or may loop in the same way once the length is written; `SendSpins` says
where, and the fairness condition leaves these steps out.

Of the chunks a session keeps only what its exits depend on. `indexed` are the
sessions whose containers the index leads to; a batch (one stands for all of an
upload) may be deduplicated against any of them, an open one included, so the
recipe may lead there (`refs`). A session's containers are all on disk once it
has ended and its recipe end came (`Kept`): the last one is open until then, and
dropped without a recipe end. `None` is a container that an earlier run of the
server lost. `WorkerExit` may open a container of `refs` that is not kept;
which of them a recipe really needs is `FreqUpload`'s and `Restore`'s subject.
The exits of extreme binning and sparse indexing for a missing bin or manifest
are in `IndexServer`.

A session key is the pair of the parts it was derived from. The build is the one
without SGX attestation (`ENABLE_SGX_RA = 0`); attestation would be further
messages before the key exchange. The refinement mapping to `FileSessions`
takes a session as open from `InitClient` to `Return` and a recipe as partial
while its head is the placeholder.

### IndexServer and the code

`phase` tells how far a life of the server has come; the variables named as
"on disk" survive it.

| action | code |
|---|---|
| `Boot` | `dbeServer.cc`: `InMemoryDatabase::OpenDB`, `Ecall_Enclave_Init` (keys drawn or read), `LoadDedupIndex` of the index in use |
| `SealIndex`, `SaveKeys`, `SaveDatabase` | `CTRLC`: `PersistDedupIndex`, `Ecall_Enclave_Destroy`, the destructor of the database |
| `BeginUpload`, `EndUpload`, `Abort` | an upload session, with its last container, or cut short |
| `DirectChunk` | one chunk in `ProcessOneBatch` of the in-enclave, out-enclave and frequency index |
| `BufferChunk`, `SegmentEnd` | one chunk in `ProcessOneBatch` of extreme binning and sparse indexing: `IsEndOfSegment`, then `ProcessOneSegment` (`ExtremeSegment`, `SparseSegment`) |
| `RecipeEnd` | `ProcessTailBatch` and `FinalizeRecipe` |
| `Crash` | the process dies at any point, during a shutdown too |
| `ExitMissing` | `Ocall_SGX_Exit_Error` for a bin or a manifest that the database does not have |

Files are written whole or not at all: `sealedIndex` is `<<>>` or `<<contents>>`.
The files of the index are modelled by their layout: a number of items and
blocks, pairs, or a list with lengths, as each index writes it; `LoadHook` is one
turn of the loop that reads such a list back. Addresses are numbers; `pending`
are the chunks of the open container by address, and chunks reach their container
file in the order in which they were stored. The frequency index is reduced to
what matters here, a top-k index of which any entry may be evicted.

### ClientUpload and the code

`Chunker` (`ReadBlock`, `CutChunk`, `NextBlock` for FastCDC and fixed sizes,
`TraceChunk`, `TraceEnd` for traces, `PushRecipe`, `SetDone`) and `DataSender`
(`CheckDone`, `PopNothing`, `PopData`, `SendFails`, `FinishFails`) are the two
threads; `Hash` is the rolling hash, `CutPoint` the first place where it meets
its two masks. A file is a sequence of bytes from a small alphabet with a small
`GEAR` table. `AtEnd` is `eof()`, which is set only when a read asks for more
than there is.

### DaE and the code

One process per client ID at a time, one file per client; every client has a
plan of uploads and restores.

| action | code |
|---|---|
| `StartUpload`, `FillBatch`, `RequestKeys`, `EncryptBatch`, `EndUpload` | `daeClient.cc`, `DataSender`, `ProcessBatchChunk` of the four `KeyGen/` classes |
| `GenerateKeySeed`, `ReplyKeys`, `CloseKeyThread`, `ClearCounter` | `TEDKeyManager::Run`, `DupLESSKeyManager::Run`: one chunk per step, so threads interleave; at the end of a connection the TED sketch is cleared, one counter per step |
| `AdmitUpload`, `ProcessRecipes`, `ReceiveBatch`, `QueryIndex`, `StoreChunk`, `ProcessRecipeEnd`, `ConnectionClosed`, `LastContainer`, `SaveToFile`, `EndSession` | the server's upload session: query and insert are separate steps |
| `StartRestore`, `RestoreUnknown`, `RejectRestore`, `AdmitRestore`, `DecodeEntry`, `DecodeTail`, `ReceiveChunks`, `CloseRestore`, `ExitRestore` | both ends of a restore |
| `Abort`, `ClientFails`, `Again`, `DecoderFails`, `RestartServer` | a lost client, the exits it causes, and what is run again |

A ciphertext is the pair of a chunk and its key, and its hash is itself. Two
threads of the key manager that are in their loops at once may lose an increment
or get a garbage seed, which stands for the unlocked counters, digest context
and big number. A counter's zero is lost when another thread is just
incrementing it; the counters of two clearings that overlap are each cleared
once, after the later one began. `raced` records both kinds of overlap. What the
module takes over from the prototype's: messages arrive whole (`SecureChannel`
has the rest), the queues between threads lose nothing, the container cache
returns what is on disk. Its own simplifications: an operation on the server's
unlocked `unordered_map` is atomic, although two sessions may be in it at once;
chunks have size 1; the recipe batch is a multiple of the chunk batch; a lost
client is run again, and the server started again, only after the others have
noticed; a client is not lost between its close and its exit; the server's exit
over a client that dies before its login is one step with that death, and the
wait for the close of a refused restore one step with the refusal. The server is
restarted after an exit only, with an empty index: its Ctrl-C, which saves the
index to a file for the next start, is left out. A client that is told its
upload ended may still lose it when the server exits before that session, or one
it shares chunks with, is over: `RestartServer` says which files are safe.

## Runs

| run | instance | question |
|---|---|---|
| `upload_single` | one client, `MULTI_CLIENT = 0`, two sessions, writer thread, queue of 2 | Is deduplication exact, does everything reach the disk, does no thread get stuck? |
| `upload_multi` | two clients, `MULTI_CLIENT = 1`, up to two sessions each, one lost connection | Do addresses stay right and nothing referred to get lost under every interleaving of the lock regions? |
| `upload_abort_lost` | one client, one lost connection | *violated*: see findings |
| `entry_heap` | 6 chunks, capacity 5, frequencies 1 to 3 | Are the back pointers of the array heap right, does it implement `TopKIndex`? |
| `restore_faults` | recipes of up to 5 entries over 4 containers, one without a file; groups of 3, batches of 2, cache of 2, messages of 3, queue of 1; with recipes of 2 to 4 entries both ends may stop | Is every chunk the right one and in one place, are the buffers large enough, is only a whole file reported as restored, is every whole file restored, does everything end? |
| `channel` | messages of 3, 1 and 2 bytes, connection may break anywhere | Does `ReceiveData` return what `SendData` was given? |
| `channel_recv_loss` | the same | *violated*: see findings |
| `server_session` | three connections, two of one client, uploads, restores and requests for attestation; one client may die, within a message too; a file that leads to a lost container; SIGINT at any time | Do sessions of a client exclude each other and use their own key, is a partial recipe and an exit of the server always explained, does everything end that is not stuck in the SSL wrapper? |
| `indexes` | all five indexes, three starts, three uploads of three files with common chunks, two faults | Does what was uploaded survive restarts, is the index closed, is nothing stored twice? |
| `client_upload` | all files of up to 10 bytes over a two-byte alphabet, FastCDC and fixed sizes, block of 6; all traces of up to 4 lines | Does the server get exactly the chunks of the file, in order? |
| `dae` | one client with each method, or two with common chunks; clients lost, server restarted | Is what is indexed stored, is a file decrypted with its own keys, is a chunk stored under no more keys than TED promises, does an upload end? |
| `dae_restore_hang` | one client, CE, two chunks in two containers, groups of 2 | *violated*: see findings |

Bounds. Three chunks suffice for a sketch in which each pair of neighbours
collides in one row but none in all rows, for a top-k index of 2 that must
evict, and for containers that take two chunks or one; a session can fill three
containers, one more than the queue holds, so the receiver spins. Batches
include a repeated chunk, one chunk and a chunk that opens a new container.
Recipe buffers of 2 entries are flushed in the middle and at the end. Two
sessions per client are needed to deduplicate against a closed session. In
`entry_heap` a capacity of 5 gives positions with two children, one child and
none, and three levels; 3 frequencies give ties and strict order on both sides.
The restore runs cover all recipes up to their length, so all positions of a
group boundary, a batch boundary and the end relative to each other: groups that
span batches and batches that span groups, a recipe that is a multiple of the
batch size, an empty tail, a tail without and with chunks left over, hits,
misses and evictions in every order. In `channel` the largest message can be
split in all ways and is followed by a message that is not; `UintMod` is 16,
which for these sizes behaves as 2^32 does, and a failing read is counted down
to `-MaxError` only, past which nothing changes. In `server_session` two
connections of one client suffice for the second to wait with
`clientLockSetLock_` in its hand, and the third for one that waits behind it.
Its five set-ups have a different client that may die each: one whose open
container the others deduplicate against, one that uploads a file which another
session restores, one that restores a file with a lost container, one that
replaces a file, and one that asks for attestation. In `indexes` a file can be
uploaded, the server shut down or killed at any point, and the file uploaded
again twice, with a fault in two places; segments close because of their size,
their number of chunks and a divisor, the hook lists and the top-k index
overflow, and a block of the sealed index is left incomplete. In `client_upload`
a file spans more than one block, cuts fall at, before and behind its end, and
the queue of 2 is full. In `dae` the number of clients that may be lost belongs
to the deployment; the sketch has two rows in the first of which both chunks
collide, a file repeats a chunk, and its second batch is not full. TED, whose
clearings add states, is checked with one client that uploads twice and
restores, with and without a loss, and with two clients, so that one counts
while the sketch is cleared for the other. `MaxReceived`, `MaxSession`,
`MaxAbort`, `MaxFreq`, `MaxError`, `MayStop`, `mortal`, `MaxBoot`, `MaxUpload`,
`MaxFault`, `MaxFile` and the plans and `aborts` of a deployment are the only
bounds that the code does not have.

Properties, by what they protect:

* addresses: `AddrCorrect` (every address in an index, a query buffer or a
  recipe leads to the right chunk in every copy of its container),
  `NothingLost`, `HeapBacked`, `SlotsDisjoint`;
* files: `RestorableAtRest`, `StoredOnce`;
* frequencies: `NeverUnderestimates`, `HeapWithinEstimate`,
  `LowFreqNotInHeap` (one client);
* threads: `NeverStuck`;
* heap: `BackPointers`, `ImplementsTopK`;
* restore: `CacheSound`, `RecoversRight` (the right bytes), `Conservation` (no
  chunk lost, repeated or out of order anywhere in the pipeline),
  `BuffersBounded`, `HeadFirst`, `ImplementsFileRestore`, `RestoreEnds`,
  `IntactRestored`;
* channel: `Framing`, `Delivered`, and the violated `LossIsReported`;
* sessions: `SessionKeyAgreed`, `ImplementsFileSessions`, `PartialExplained`
  (why a recipe may lack its head), `ExitExplained` (whose death, or which
  container that is not on disk, takes the server down),
  `FinishedMeansCommitted`, `EverySessionEnds`;
* restarts: `RestorableAcrossRestarts`, `IndexClosed`, `ReuploadStoresNothing`,
  and `SegmentWithinBuffer`;
* client: `UploadFaithful`, `UploadEnds`;
* baseline: `AddressesResolve`, `CommittedDecryptable`, `RestoredExactly`,
  `CiphertextsBounded` (what TED promises about deduplication), `UploadsEnd`,
  and the violated `RestoresEnd`.

`HeapBounded`, `HeapOrder`, `KeysMatch`, `IdsResolve` and the type invariants of
`EntryHeap`, `ReadCache`, `Restore`, `SecureChannel`, `ServerSession` and
`ClientUpload` are proved and are not checked by a run of their own.

Fairness. `NeverStuck` assumes that the receiver and the writer thread of the
server keep being scheduled (weak fairness of their steps, which stay enabled
until they are taken); nothing is assumed of a client, which may go silent, so
waiting for a message is not counted as being stuck. It is checked with one
client, where no lock is contended; the SGX spin locks are not fair, and with
several clients weak fairness would not exclude that one of them starves.
`RestoreEnds` and `IntactRestored` assume weak fairness of each thread of both
processes (`OptThread`, `Decoder`, `Retriever`, `Writer`): they share no lock,
and an enabled step stays enabled until it is taken or a process stops. Nothing
is assumed of stops. The channel's properties assume that both threads keep
being scheduled. `EverySessionEnds` assumes weak fairness of each session
thread and each worker, except in a send that may spin (`SendSpins`), and of each
client that has not died; connections need not
come, and neither SIGINT nor a death has to happen. What the finding
`channel_recv_loss` does to the sessions is part of the statement: a thread in an
endless send or receive (`Stuck`) keeps its client's mutex, and the next login of
that client then keeps `clientLockSetLock_` from all others. So all sessions end
unless a thread is stuck for ever, and even then those end that have got their
mutex. That clients go on is an
assumption the code needs: a client that stalls in its session holds its mutex,
a second login of that client waits for it with `clientLockSetLock_` held, and
all later logins wait behind that one. The mutexes need no fairness of their own
here: `clientLockSetLock_` is taken once per connection. `UploadEnds` assumes
both threads of the client are scheduled, and `UploadsEnd` every thread of the
baseline; nothing makes a user start, lose or repeat a client or restart the
server, but a client that failed does exit. `RestoresEnd` is violated under the
same fairness.

Each property comes with a mutant: a definition next to the real one, marked
"Seeded fault", with which TLC finds the property violated.

## Findings

* `upload_abort_lost`: when a connection is lost before the recipe end, the open
  container is dropped, but its chunks stay in the indexes. A later, complete
  upload deduplicates against them and cannot be restored.
* `channel_recv_loss`: when the connection is lost within a message,
  `ReceiveData` never returns, because only the read of the length is checked.
* `dae_restore_hang`: `ProcessRecipeTailBatch` of the baseline sends nothing when
  no entry is buffered. If the last entry of a recipe completes a group of
  containers, the final message is never sent and chunks may be left in the
  send buffer: the client waits for ever, and the server with its lock. The same
  function of the prototype has the missing branch.

Met while modelling, without a run of their own:

* with several clients, an upload that has finished may refer to chunks in
  another client's open container; it can be restored only when that session
  has ended (`RestorableAtRest` is about states without one). In the baseline a
  restore that comes too early makes the server exit, and with it the open
  container is gone;
* the comment at `ecallFreqIndex.cc:361`, that a chunk with a frequency below
  the heap's minimum "must not exist in the heap", holds with one client only
  (`LowFreqNotInHeap` is checked in `upload_single`): the frequency and the
  minimum are read under different locks. Only a shortcut is lost; `AddrCorrect`
  holds with two;
* `SendData` returns true although `SSL_write` failed (`sslConnect.cc:260`): its
  result, -1, is added to the count, which is then compared as an unsigned
  number. `Delivered` therefore speaks of what was written;
* a client that dies in the handshake or in a restore ends the server for all,
  and so does the restore of a file that leads to a container which is not on
  disk (`enclaveRecvDecoder.cc:134`): one that is still open, that was dropped
  when its client died in an upload, or that an earlier run lost. `ExitExplained`
  says that there is no other reason. In the baseline so does the restore
  of a file that was never uploaded, because the client, already connected,
  exits before its login;
* TED's bound on the keys of a chunk (`CiphertextsBounded`) needs a key manager
  that is idle while it clears its sketch: beside another connection's batch the
  zero of a counter may be lost (`tedKM.cc:73-77` against `:94`), and uploads
  that are over go on counting;
* a first life of the server that dies leaves containers whose key was never
  sealed, and a shutdown cut between the index and the database leaves bins or
  manifests that the next life exits over (the exceptions of
  `RestorableAcrossRestarts` and `IndexClosed`).

## Proofs

All theorems hold for every value of the constants that satisfies the named
assumptions (`SketchAssumption`, `UploadAssumption`, `NoAddrAssumption`,
`HeapAssumption`, `CacheAssumption`, `RestoreAssumption`, `SessionAssumption`,
`ChannelAssumption`, `IndexAssumption`, `ClientAssumption`, `DaEAssumption`):
any number of clients, connections and chunks, any sketch, any capacity, either
build flag, any recipe, any batch, group, cache, container and message size.
`NoAddrAssumption` says that an address field that was not set holds no address;
`ChannelAssumption` that there is a message to send, that none is empty, and
that its length fits the 32-bit header; `IndexAssumption` that no file is empty
and that a chunk is smaller than the smallest segment; `ClientAssumption` that
the chunk sizes are ordered and the read buffer holds a largest chunk;
`DaEAssumption` that the recipe batch is a multiple of the chunk batch, that a
container holds more than one byte and that a garbage seed is no number. The
bounds on starts, uploads and faults are any numbers. Two theorems, marked in
the table, are about the single-client build only (`MULTI_CLIENT = 0`, where
`UploadAssumption` leaves at most one client).

| theorem | statement | inductive invariant |
|---|---|---|
| `FreqUploadProofs!TypeCorrect` | `Spec => []TypeOK` | `TypeOK /\ Shape` |
| `FreqUploadProofs!FrequenciesBounded` | `Spec => [](HeapWithinEstimate /\ NeverUnderestimates)` | the same two, with the invariant above |
| `FreqUploadProofs!SketchNeverUnderestimates` | `Spec => []NeverUnderestimates` | the same |
| `FreqUploadProofs!TopKBounded` | `Spec => []HeapBounded` | `HeapBounded` and a finite domain |
| `FreqUploadProofs!EvictedChunksFound` | `Spec => []HeapBacked` | `TypeOK /\ Shape /\ Backing` |
| `FreqUploadProofs!LookupSkipSafe` | single client: `Spec => []LowFreqNotInHeap` | `AllFresh`, with that of `FrequenciesBounded` |
| `FreqUploadProofs!ContainersPacked` | `Spec => []SlotsDisjoint` | `StoreInv` |
| `FreqUploadProofs!AddressesRight` | `Spec => []AddrCorrect` | `StoreInv` |
| `FreqUploadProofs!ContainersReachable` | `Spec => []NothingLost` | `StoreInv` |
| `FreqUploadProofs!FinishedFilesRestorable` | `Spec => []RestorableAtRest` | `StoreInv` |
| `FreqUploadProofs!DeduplicationExact` | single client: `Spec => []StoredOnce` | `TypeOK /\ Shape /\ Exact` |
| `EntryHeapProofs!HeapCorrect` | `Spec => [](TypeOK /\ HeapOrder /\ BackPointers)` | `Inv` |
| `EntryHeapProofs!HeapImplementsTopK` | `Spec => ImplementsTopK` | `Inv` |
| `RestoreProofs!RestoreTypeCorrect` | `Spec => []TypeOK` | `ServerInv /\ ClientInv` |
| `RestoreProofs!CacheCorrect` | `Spec => [](CacheSound /\ KeysMatch)` | the same |
| `RestoreProofs!RecoveryCorrect` | `Spec => [](IdsResolve /\ RecoversRight)` | the same |
| `RestoreProofs!HeadReadFirst` | `Spec => []HeadFirst` | the same |
| `RestoreProofs!BuffersSuffice` | `Spec => []BuffersBounded` | the same |
| `RestoreProofs!NothingLost` | `Spec => []Conservation` | `RestoreInv` |
| `RestoreProofs!RestoreImplements` | `Spec => ImplementsFileRestore` | `RestoreInv` |
| `ServerSessionProofs!SessionTypes` | `Spec => []TypeOK` | `Inv` |
| `ServerSessionProofs!ClientMutex` | `Spec => []OneHolder` | `Inv` |
| `ServerSessionProofs!KeyAgreement` | `Spec => []SessionKeyAgreed` | `Inv` |
| `ServerSessionProofs!PartialUploads` | `Spec => []PartialExplained` | `Inv` |
| `ServerSessionProofs!FinishedUploads` | `Spec => []FinishedMeansCommitted` | `Inv` |
| `ServerSessionProofs!ServerExits` | `Spec => []ExitExplained` | `Inv` |
| `ServerSessionProofs!SessionsImplementFileSessions` | `Spec => ImplementsFileSessions` | `Inv` |
| `SecureChannelProofs!ChannelTypes` | `Spec => []TypeOK` | `Inv` |
| `SecureChannelProofs!MessagesFramed` | `Spec => []Framing` | `Inv` |
| `IndexServerProofs!BuffersSuffice` | `Spec => []SegmentWithinBuffer` | `Basics` |
| `IndexServerProofs!UploadsRestorable` | `Spec => []RestorableAcrossRestarts` | `Basics /\ Restorable` |
| `IndexServerProofs!NothingMissing` | `Spec => []IndexClosed` | `Basics /\ Closed` |
| `IndexServerProofs!UploadedOnce` | `Spec => ReuploadStoresNothing` | `Basics /\ Closed /\ Covered` |
| `ClientUploadProofs!UploadTypes` | `Spec => []TypeOK` | `Inv` |
| `ClientUploadProofs!UploadsFaithful` | `Spec => []UploadFaithful` | `Inv` |
| `DaEProofs!IndexResolves` | `Spec => []AddressesResolve` | `BaseInv /\ AddressesResolve` |
| `DaEProofs!UploadsDecryptable` | `Spec => []CommittedDecryptable` | `UploadInv` |
| `DaEProofs!RestoresExact` | `Spec => []RestoredExactly` | `UploadInv`, and `Restores` of each client |
| `DaEProofs!DedupSurvives` | `Spec => []CiphertextsBounded`, whose condition is `~raced` | `BaseInv /\ AddressesResolve /\ DedupInv` |

*Types.* `TypeOK` alone is not inductive: that an address is set when it is put
into a recipe or an index depends on how far the batch has come. `Shape` says,
for each `pc`, which entries are classified, that a reference leads to an earlier
entry with the flag it should have, that the out-enclave query covers the
unique entries, and which entries have an address.

*Frequencies.* Counters only grow, so an estimate read earlier stays a lower
bound; the lemmas about the sketch say that `Update` increases the estimate of its chunk
by at least one and lowers none. `Fresh`, for `LookupSkipSafe`, says that the
minimum read at the start of the lookup bounds the heap and that the heap is not
ahead of the batch on any of its chunks. With several clients it does not hold:
another batch may count a chunk and raise it in the heap in between.

*Eviction.* `Backing` adds to `HeapBacked` that a chunk the batch found in the
heap, or the query found in the out-enclave index, is still backed: the entry
that a later phase puts back into the heap is one of these.

*Storage.* `StoreInv` follows a chunk from the enclave's buffer through the
queue to the file. `Storage` says for each `pc` where the containers of a
session can be and that a container ID in use is below the session's counter,
so that a fresh one is fresh; each body is `Packed`. `At(d, m, o, fp)` says that
a chunk is at its offset in *every* copy of a container, and that there is a
copy as long as no client was lost. `Kept` is the heart of the argument: every
step keeps `At` of all chunks, only moving containers. `Known` says that each
address the server holds for a chunk, wherever it holds it, is `At`; a step may
copy an address, or add the one of the chunk it just stored. `Aligned` ties the
length of a recipe to what the client sent and to the place in the batch, so
that entry `j` of the recipe is chunk `j` of the file.

*Exact deduplication.* `Exact` says that each stored copy of a chunk is the one
the out-enclave index names or is about to name (`AllRecorded`), that no two
entries of a batch ask for the same chunk (`Marked`), and that what was new when
the batch asked is still unknown when it is stored (`Answered`). The last holds
for a single client only: in the multi-client build two batches may both find a
chunk missing and store it twice, which costs space and no more, since
`AddressesRight` and `FinishedFilesRestorable` have no such condition.

*The heap.* `Inv` says that while a loop runs, the order is broken only at the
position the loop has reached: in `SwapUp` towards its parent and children
(`UpOrder`, with the children still not below the parent), in `SwapDown` towards
its children (`DownOrder`). `UpSwap` and `DownSwap` are the two turns, `UpEnd`
and `DownEnd` the ends of the loops, `RootIsMin` that the first item of an
ordered array is a minimum. `Subject` carries what connects the loops to the
operation: the item at the loop's position is the one being placed, and during
`Pop` the item taken out is below all others and below the new one.

*The refinement.* An update and an insertion into an index that is not full
take effect in their first step, an insertion into a full index when `Pop` is
done; all other steps, a restart included, leave `Contents` as it was. The
size and the minimum of the abstract index are read off the array by
`CountEntries` and `RootIsMin`.

*The cache.* `CacheInv` (types, `CacheSound`, `KeysMatch`) is inductive by
itself: `CacheRead` is a hit, `CacheInsert` an insertion. The victim's buffer is
overwritten before its key is removed; that no other key leads to that buffer is
the injectivity in `CacheSound`, and that the buffer taken from the pool is free
is that all indexes in use are below `currentIndex_`.

*Recovery.* `ServerInv` ties the buffers to the place in the recipe: the rest of
the batch is the part of the recipe before the cursor (`BatchInv`), a map entry
leads to the ID of its own name (`MapInv`), a group that is being collected has
room for one more container (`GroupInv`), and the containers fetched so far are
in the buffers of their IDs (`ArrayInv`). The invariant keeps
`Parsed - Len(recipeBuffer)`, the place of the first buffered entry, fixed while
entries are added, and moves it only when a group is done.

*The login.* `ClientInv` orders the login response, the client's go-ahead and
the first message (`LoginInv`), from which `HeadFirst` follows.

*The restore pipeline.* `Pipeline` says that the output, the queue, the message
being taken apart, the network and the server's send buffer are pieces of the
file by position, each beginning where the one before it ends; a step moves a
boundary. The fold in `Conservation` is related to the positions once
(`LaidFlat`), by induction over the number of messages. `EndInv` says that
the end of the stream is seen behind the last entry only, `FinishInv` that the
final message is the last, and what each thread of the client knows after it. In
the refinement only the writer's `WriterPop` and the client's last step are
visible; that success is reported for a whole file only follows from the three:
the final message was received, everything before it was written.

*Sessions.* A connection past `LockClient` is the owner that the lock index
names (`Locked`); hence two of one client cannot both be past it, and the slot
of the client in the key index cannot change under a session (`Keyed`). The rest
of `SessionOK` relates the three processes of a connection: where the client can
be for each place of the thread and the worker (`Abreast`, `Attended`, `Asked`),
what a message under way says that stays true until it is read (`Announced`,
`Answered`), and that a client which has closed its connection left the recipe
end unread or committed (`Unread`, `Decided`). `Traced` says that recipes lead
to what the index knows and that this is the work of uploads that have a worker:
so a session whose containers are not all on disk is still open or its client
died, which is `ExitExplained` when a restore exits over them. `Listed` is the
one thread that `CTRLC` does not join. In the refinement a session opens in
`InitClient`, a file is committed in `FinalizeRecipe`, a session closes in
`Return`, all end in `Stop` and the two exits; every other step leaves the
mapping as it was (`Unseen`). That `FileSessions` allows the opening follows
from `Locked`.

*The channel.* The bytes under way are a window of the stream: `Stream` says
that there are positions of the messages, relative to the window, one after the
other at the distance of their lengths, such that the bytes in the window are
those of the messages there, the receiver stands at its first byte and, as long
as the connection holds, the sender at its last. A write adds bytes at one end,
a read shifts the positions, and the loss of the connection cuts the window; the
positions exist in each case, so no induction over the bytes is needed. The
return value of a failing call is part of the types: it is added up until the
loop's unsigned comparison ends the loop.

*Restarts.* Only the sealed index, the sealed keys and the database survive a
life. Each invariant is stated once for a pair of an index and a database and
claimed for the pair in memory, the pair that the files would give (`LoadedIndex`
and `LoadedStore`), and, while a shutdown is under way, for the mixed pairs; a
crash then only drops the pair in memory. `Basics` has the segment, the addresses
given out, and the keys: a sealed key is the key in use. `Restorable` says that
every address in an index, a bin, a manifest or an unfinished recipe is in the
open container or on disk, under that key. `Closed` says that what an index names
is in the database. `Covered` is about a file that was uploaded before: each of
its segments, cut where `SegmentEnd` cuts it, is found again. That saving and
loading return the index is proved for each layout: the blocks with an
incomplete last one, the pairs, and the hook lists, the last by induction over
the turns of the loop, of which each takes the next hook from the flattened
list.

*The client.* Everything is measured against `Reference`, the chunks of the file
as a whole. `Cutting` says that after `k` chunks the chunker stands at the end
of the `k`-th (`Cuts`), and that its block is the part of the file it seems to
be. The heart is `CutSame`: a cut in the block is a cut of the file. For FastCDC
either the block holds a largest chunk behind the chunker, and a cut point
depends on no more than that (`CutAgree`, by induction along the rolling hash),
or the block ends where the file ends. For fixed sizes the blocks begin at
multiples of `readSize`, and the reference ends its chunks there too. `Carried`
says that what was sent, what is buffered and what is queued are consecutive
pieces of `Reference`, that the head is last in the queue and on the connection,
and that only the last batch is short, and only before the head or a failure.
What `Hash`, `Cuts` and the flattening of the messages compute is proved by
induction over positions (`HashIs`, `CutsAre`, `FlatIs`).

*The baseline's index.* `BaseInv` says that the three processes of each client
are in step (`Proto`, `ServerOK`, `Decoding`) and that container IDs are not
shared (`StoreInv`), so that a container is the same thing in a session, in the
queue and on disk. A step moves containers and never changes a chunk already in
one.

*The baseline's keys.* The client's file and its key recipe determine what the
recipe and the key recipe on the server must be. `Flow` says, for an upload
under way, that the messages on the connection continue what the server has
recorded, without gap or repetition, up to what the client has encrypted; the
ends of the pieces are the existential witnesses that each step moves. `Hist`
ties the history variables `committed` and `settled` to the state, `GoodInv` is
`CommittedDecryptable` in the form that a step preserves, with the containers of
a settled file on disk. Nothing in it depends on the seeds, so a race in the key
manager cannot harm it.

*The baseline's restores.* `Restores` says that what the client has decrypted,
what is on the way, and what the server has not yet sent are together the
ciphertexts of the file by position, and that a message begins at the position
of the keys it will be decrypted with.

*The baseline's deduplication.* `CiphertextsBounded` counts, for each row of the
sketch, what the counter of a chunk may have reached, collisions included
(`Sendings`): the hits of one connection of each client. `DedupInv` says that as
long as no two threads raced, a counter holds no more than the open connections
have put into it (`Counter`), unless it is still to be cleared (`uncleared`):
such a counter may hold what ended connections left, and no seed is drawn from
it, for that would be a race. How far each of them has come is not in the state:
a client that was lost leaves its thread behind with part of a file. It is an
existential witness for each connection, a file that the client uploaded and a
position in it (`Tally`), which `GenerateKeySeed` moves by one; `CloseKeyThread`
drops the witness of its connection and makes all counters ones to be cleared,
and `ClearCounter`, with no thread in its loop, makes one of them zero. So a
seed is at most the bound (`GoodSeed`) when it is drawn, and stays so, because
`Sendings` only grows, on its way through the reply, the keys, the messages and
the session into the index. A chunk then has no more ciphertexts than there are
seeds up to the bound (`SeedsBound`). The condition `~raced` is needed: the
threads of the key manager share the context and the big number of the seed
without a lock, and a seed drawn while two of them are in the loop may be
anything; and a zero that is lost against an increment leaves a counter with
hits that no open connection has made.

*Induction over data.* Where a definition is a recursive function or a fold, the
lemmas `Least`, `UpTo` and `MinNat` give induction over the naturals: a property
stated as a subset of `Nat` has a least element outside it, because the order of
the naturals is well-founded (`WFMin`, `NatLessThanWellFounded`). The induction
rules of the library themselves take an operator as a parameter and are not
usable.

Only model-checked:

* liveness (`NeverStuck`, `RestoreEnds`, `IntactRestored`, `Delivered`,
  `EverySessionEnds`, `UploadEnds`, `UploadsEnd`), which is out of the prover's
  reach;
* what the three violation runs show.

## Not modelled

* Remote attestation (`RAECall`, `raUtil`, `raVerifier`) and the IAS utilities:
  a protocol with external services whose messages change no state that the
  storage logic reads; the IAS code is third-party sample code. The session
  key exchange is modelled by whom a key is shared with.
* Encryption, hashing, LZ4, blind RSA: data transformations, LZ4 and the queues
  in `include/messageQueue/` vendored. A stored chunk is the chunk; a chunk that
  could not be compressed and happens to be a valid LZ4 block is outside the
  models.
* Connecting, listening and certificates in the SSL wrapper. Two threads use the
  SSL object of a restore at the same time when the login response is sent; what
  OpenSSL does then is undefined, and the models take its calls as atomic.
* File-system errors and files written in part: the code exits on an error it
  sees, and takes what it reads at the next start as it is.
* The wrap-around of the `int` that adds up failing reads, after some 2^31 turns
  of the loop in `ReceiveData`.
* Ctrl-C of the baseline's server, and the index file it writes and reads again
  (`inMemoryDatabase.cc:28-45`, `68-98`; the prototype's is in `IndexServer`).
* 32-bit wrap-around of the sketch's counters: they are naturals, and the bound
  on received chunks stays below it.
* LevelDB (a library behind the same interface), configuration parsing,
  statistics, and what `Baseline/` has a second time (chunker, queue, cache,
  SSL wrapper).
* `Sim/`: offline analysis of traces, one thread, nothing kept between runs.

Most lines of the repository outside the map are of these kinds: the vendored
queues, LZ4, JSON and IAS code, and headers.

## What is left

Every safety invariant, action property and refinement that a passing run checks
is proved; liveness stays with TLC. `ClientUpload` and the baseline have no
abstract specification of their own. The attestation messages would be the next
thing to model.
