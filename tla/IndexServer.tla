----------------------------- MODULE IndexServer -----------------------------
(***************************************************************************)
(* One life after another of the storage server, with any of its five       *)
(* deduplication indexes: what each index keeps inside the enclave and in   *)
(* the untrusted database, what is written to which file at shutdown and    *)
(* in which order, what is read back at the next start, and what is left    *)
(* when the server dies in between.  Uploads come one at a time: the        *)
(* indexes other than the frequency-based one take no locks.                *)
(*                                                                         *)
(* A chunk is its fingerprint, a file the sequence of its chunks.  A chunk  *)
(* address is a number, never used twice; containers are filled and written *)
(* as in FreqUpload.                                                        *)
(***************************************************************************)
EXTENDS Naturals, Sequences, FiniteSets, SequencesExt

CONSTANTS
    Fp,              \* the fingerprints
    Files,           \* the files that clients upload: sequences of fingerprints
    Kinds,           \* the index types that the server may be started with
    ChunkSize,       \* ChunkSize[fp]
    HashVal,         \* HashVal[fp], what ConvertHashToValue makes of it
    Hooks,           \* the fingerprints that IsHook accepts
    MIN_SEGMENT_SIZE, MAX_SEGMENT_SIZE, MaxSegmentChunkNum, DIVISOR, PATTERN,
    SPARSE_CHAMPION_NUM, SPARSE_MANIFIEST_CAP_NUM,
    SendChunkBatchSize, \* sendChunkBatchSize_, the block of the sealed index
    TopKParam,       \* the capacity of the frequency-based index
    None,            \* no upload, no key
    MaxBoot,         \* bound: starts of the server
    MaxUpload,       \* bound: uploads in all
    MaxFault         \* bound: broken connections and crashes in all

ASSUME IndexAssumption ==
    /\ Files \subseteq Seq(Fp) /\ <<>> \notin Files
    /\ Kinds \subseteq {"OUT_ENCLAVE", "IN_ENCLAVE", "EXTREME_BIN", "SPARSE_INDEX", "FREQ_INDEX"}
    /\ MAX_SEGMENT_SIZE \in Nat /\ MIN_SEGMENT_SIZE \in Nat
    /\ MIN_SEGMENT_SIZE <= MAX_SEGMENT_SIZE
    /\ ChunkSize \in [Fp -> 1 .. MIN_SEGMENT_SIZE - 1]
    /\ HashVal \in [Fp -> Nat] /\ Hooks \subseteq Fp
    /\ MaxSegmentChunkNum \in Nat \ {0} /\ DIVISOR \in Nat \ {0} /\ PATTERN \in Nat
    /\ SPARSE_CHAMPION_NUM \in Nat \ {0} /\ SPARSE_MANIFIEST_CAP_NUM \in Nat \ {0}
    /\ SendChunkBatchSize \in Nat \ {0} /\ TopKParam \in Nat
    /\ None \notin Nat /\ None \notin Files
    /\ MaxBoot \in Nat /\ MaxUpload \in Nat /\ MaxFault \in Nat

VARIABLES
    kind,           \* indexType_, the same for every start
    phase,          \* "off", "running", or how far CTRLC has come
    enclaveKey,     \* enclaveKey_ and indexQueryKey_, drawn or read together
    firstBootstrap, \* firstBootstrap_
    index,          \* the index in the enclave
    indexStore      \* the untrusted fp2ChunkDB
VARIABLES           \* on disk
    sealedIndex,    \* <<contents>> of the sealed file, <<>> if there is none
    sealedKey, dbFile,
    containers,     \* address -> [fp, key] of every chunk in a container file
    recipes         \* file -> addresses, of the recipes with a final head
VARIABLES           \* the upload in progress
    uploading,      \* the file, or None
    received,       \* how many of its chunks were processed
    segment,        \* _segment: the buffered chunks and their size
    entries,        \* the recipe entries so far
    pending         \* the same of containers that are not on disk yet
VARIABLES           \* bounds and history
    addresses,      \* how many addresses were given out
    ids,            \* how many bin or manifest IDs
    boots, uploads, faults,
    known,          \* files whose chunks the live index has all been given
    savedKnown,     \* the same at the last complete shutdown
    damage          \* what went wrong: "abort", "torn", "keyLost"
VARIABLE cut        \* files whose latest upload did not run to its end

memory  == <<enclaveKey, firstBootstrap, index, indexStore>>
disk    == <<sealedIndex, sealedKey, dbFile>>
session == <<uploading, received, segment, entries, pending>>
counts  == <<addresses, ids, boots, uploads, faults>>
history == <<known, savedKnown, damage, cut>>
vars    == <<kind, phase, memory, disk, containers, recipes, session, counts, history>>

EmptySegment == [chunks |-> <<>>, size |-> 0]
NoSession ==
    /\ uploading' = None /\ received' = 0 /\ segment' = EmptySegment
    /\ entries' = <<>> /\ pending' = <<>>

MemoryGone ==
    /\ enclaveKey' = None /\ firstBootstrap' = TRUE /\ index' = <<>> /\ indexStore' = <<>>

Init ==
    /\ kind \in Kinds
    /\ phase = "off"
    /\ enclaveKey = None /\ firstBootstrap = TRUE /\ index = <<>> /\ indexStore = <<>>
    /\ sealedIndex = <<>> /\ sealedKey = None /\ dbFile = {}
    /\ containers = <<>> /\ recipes = <<>>
    /\ uploading = None /\ received = 0 /\ segment = EmptySegment
    /\ entries = <<>> /\ pending = <<>>
    /\ addresses = 0 /\ ids = 0 /\ boots = 0 /\ uploads = 0 /\ faults = 0
    /\ known = {} /\ savedKnown = {} /\ damage = {} /\ cut = {}
-----------------------------------------------------------------------------
(* f with the pairs of g; where both have a key, f's value stays.           *)
Insert(f, g) == [k \in DOMAIN f \cup DOMAIN g |-> IF k \in DOMAIN f THEN f[k] ELSE g[k]]
Single(k, v) == [x \in {k} |-> v]
Without(f, k) == [x \in DOMAIN f \ {k} |-> f[x]]
-----------------------------------------------------------------------------
Pairs(f) == {<<k, f[k]>> : k \in DOMAIN f}
FromPairs(pairs) == [k \in {p[1] : p \in pairs} |-> (CHOOSE p \in pairs : p[1] = k)[2]]
FromItems(items) == FromPairs(Range(items))

(* The files.  In-enclave index: the number of items, then the items in      *)
(* blocks of SendChunkBatchSize; LoadDedupIndex reads the full blocks, then  *)
(* what is missing to the number of items.                                   *)
PersistDedupIndex == <<[itemNum |-> Cardinality(DOMAIN index), items |-> SetToSeq(Pairs(index))]>>

(* Seeded fault: the items behind the last full block are not read. *)
LoadFullBlocks(file) ==
    LET full == (file.itemNum \div SendChunkBatchSize) * SendChunkBatchSize
    IN FromItems(SubSeq(file.items, 1, full))

LoadDedupIndex(file) ==
    LET full   == (file.itemNum \div SendChunkBatchSize) * SendChunkBatchSize
        blocks == FromItems(SubSeq(file.items, 1, full))
        remain == file.itemNum - Cardinality(DOMAIN blocks)
    IN Insert(blocks, FromItems(SubSeq(file.items, full + 1, full + remain)))

(* Top-k index: the number of items and the items, in one block.             *)
PersistFreqIndex == <<[itemNum |-> Cardinality(DOMAIN index), items |-> SetToSeq(Pairs(index))]>>
LoadFreqIndex(file) == FromItems(SubSeq(file.items, 1, file.itemNum))

(* Extreme binning: the pairs.  An empty index is not written.               *)
PersistPrimaryIndex == IF index = <<>> THEN sealedIndex ELSE <<Pairs(index)>>
LoadPrimaryIndex(file) == FromPairs(file)

(* Sparse indexing: for each hook the hook, the length of its list, the list. *)
PersistHookIndex ==
    IF index = <<>> THEN sealedIndex
    ELSE LET hooks == SetToSeq(DOMAIN index)
         IN <<FlattenSeq([n \in DOMAIN hooks |-> <<hooks[n], Len(index[hooks[n]])>> \o index[hooks[n]]])>>

(* One turn of the loop that reads a hook and its list, and the loop, which  *)
(* ends when the offset is behind the file.                                  *)
LoadHook(file, last) ==
    LET next == last.offset + 2 + file[last.offset + 1] IN
    IF last.offset > Len(file) THEN last
    ELSE [offset |-> next,
          hooks  |-> Insert(last.hooks,
                            Single(file[last.offset], SubSeq(file, last.offset + 2, next - 1)))]

LoadHookIndex(file) ==
    LET turn[n \in 0 .. Len(file)] ==
            IF n = 0 THEN [offset |-> 1, hooks |-> <<>>] ELSE LoadHook(file, turn[n - 1])
    IN turn[Len(file)].hooks

(* The database: the pairs, in the order of the hash map.                    *)
PersistDB == Pairs(indexStore)
OpenDB(file) == FromPairs(file)
-----------------------------------------------------------------------------
(* The database, then the keys, then the index (dbeServer.cc:128-160).       *)
Boot ==
    /\ phase = "off" /\ boots < MaxBoot
    /\ phase' = "running"
    /\ boots' = boots + 1
    /\ indexStore' = OpenDB(dbFile)
    /\ firstBootstrap' = (sealedKey = None)
    /\ enclaveKey' = IF sealedKey = None THEN boots + 1 ELSE sealedKey
    /\ index' = IF sealedIndex = <<>> THEN <<>>
                ELSE CASE kind = "IN_ENCLAVE"   -> LoadDedupIndex(sealedIndex[1])
                       [] kind = "FREQ_INDEX"   -> LoadFreqIndex(sealedIndex[1])
                       [] kind = "EXTREME_BIN"  -> LoadPrimaryIndex(sealedIndex[1])
                       [] kind = "SPARSE_INDEX" -> LoadHookIndex(sealedIndex[1])
    /\ UNCHANGED <<kind, disk, containers, recipes, session, addresses, ids, uploads, faults, history>>

(* CTRLC once no session is left: Ecall_Destroy_Upload seals the index,      *)
SealIndex ==
    /\ phase = "running" /\ uploading = None
    /\ phase' = "indexSealed"
    /\ sealedIndex' = CASE kind = "OUT_ENCLAVE"  -> sealedIndex
                        [] kind = "IN_ENCLAVE"   -> PersistDedupIndex
                        [] kind = "FREQ_INDEX"   -> PersistFreqIndex
                        [] kind = "EXTREME_BIN"  -> PersistPrimaryIndex
                        [] kind = "SPARSE_INDEX" -> PersistHookIndex
    /\ UNCHANGED <<kind, memory, sealedKey, dbFile, containers, recipes, session, counts, history>>

(* Seeded fault: the keys are written in every life but the first. *)
SaveKeysInverted ==
    /\ phase = "indexSealed"
    /\ phase' = "keysSaved"
    /\ sealedKey' = IF firstBootstrap THEN sealedKey ELSE enclaveKey
    /\ UNCHANGED <<kind, memory, sealedIndex, dbFile, containers, recipes, session, counts, history>>

(* then Ecall_Enclave_Destroy writes keys that were drawn in this life,      *)
SaveKeys ==
    /\ phase = "indexSealed"
    /\ phase' = "keysSaved"
    /\ sealedKey' = IF firstBootstrap THEN enclaveKey ELSE sealedKey
    /\ UNCHANGED <<kind, memory, sealedIndex, dbFile, containers, recipes, session, counts, history>>

(* and then the destructor of the database writes its file.                  *)
SaveDatabase ==
    /\ phase = "keysSaved"
    /\ phase' = "off"
    /\ dbFile' = PersistDB
    /\ savedKnown' = known
    /\ MemoryGone
    /\ UNCHANGED <<kind, sealedIndex, sealedKey, containers, recipes, session, counts,
                   known, damage, cut>>
-----------------------------------------------------------------------------
BeginUpload(f) ==
    /\ phase = "running" /\ uploading = None /\ uploads < MaxUpload
    /\ uploading' = f
    /\ recipes' = Without(recipes, f)
    /\ uploads' = uploads + 1
    /\ UNCHANGED <<kind, phase, memory, disk, containers, received, segment, entries, pending,
                   addresses, ids, boots, faults, history>>

Chunk == uploading[received + 1]

(* The chunks of s that the deduplication index d does not have, and the     *)
(* addresses that SaveChunk gives them, in the order in which they are met.  *)
Unique(s, d) == Range(s) \ DOMAIN d
FirstAt(s, fp) == CHOOSE n \in DOMAIN s : s[n] = fp /\ \A m \in 1 .. n - 1 : s[m] # fp
NewAddrs(s, d) ==
    [fp \in Unique(s, d) |->
        addresses + Cardinality({g \in Unique(s, d) : FirstAt(s, g) <= FirstAt(s, fp)})]

(* The loop over the chunks of s: ProcessUniqueChunk for the unique ones,    *)
(* which are encrypted with the enclave key, UpdateFileRecipe for each.      *)
Dedup(s, d) ==
    LET new == NewAddrs(s, d) IN
    /\ addresses' = addresses + Cardinality(DOMAIN new)
    /\ pending' = Insert(pending, [a \in Range(new) |->
                        [fp |-> CHOOSE fp \in DOMAIN new : new[fp] = a, key |-> enclaveKey]])
    /\ entries' = entries \o [n \in DOMAIN s |-> Insert(d, new)[s[n]]]
-----------------------------------------------------------------------------
(* The indexes that look up every chunk.                                     *)
InEnclaveChunk(fp) ==
    /\ kind = "IN_ENCLAVE"
    /\ Dedup(<<fp>>, index)
    /\ index' = Insert(index, NewAddrs(<<fp>>, index))
    /\ UNCHANGED indexStore

OutEnclaveChunk(fp) ==
    /\ kind = "OUT_ENCLAVE"
    /\ Dedup(<<fp>>, indexStore)
    /\ indexStore' = Insert(indexStore, NewAddrs(<<fp>>, indexStore))
    /\ UNCHANGED index

(* FreqUpload has the details: the chunk may enter the top-k index, where    *)
(* it may push out another one.                                              *)
FreqChunk(fp) ==
    /\ kind = "FREQ_INDEX"
    /\ LET d    == Insert(index, indexStore)
           addr == Insert(d, NewAddrs(<<fp>>, d))[fp]
       IN /\ Dedup(<<fp>>, d)
          /\ indexStore' = Insert(indexStore, NewAddrs(<<fp>>, d))
          /\ \/ UNCHANGED index
             \/ /\ Cardinality(DOMAIN index \cup {fp}) <= TopKParam
                /\ index' = Insert(index, Single(fp, addr))
             \/ /\ fp \notin DOMAIN index /\ Cardinality(DOMAIN index) = TopKParam
                /\ \E out \in DOMAIN index : index' = Insert(Without(index, out), Single(fp, addr))
-----------------------------------------------------------------------------
(* Extreme binning.  The segment hash stands for the segment, the            *)
(* representative is the first chunk with the least hash value.              *)
MinHash(s) == s[CHOOSE n \in DOMAIN s : \A m \in DOMAIN s :
                    \/ HashVal[s[n]] < HashVal[s[m]]
                    \/ HashVal[s[n]] = HashVal[s[m]] /\ n <= m]

Bin(s) == IF MinHash(s) \in DOMAIN index THEN index[MinHash(s)].binID ELSE ids + 1

FetchBin(s) == IF MinHash(s) \in DOMAIN index THEN indexStore[Bin(s)] ELSE <<>>

(* "cannot find the bin", or an address missing in the bin of an identical   *)
(* segment: the server exits.                                                *)
ExtremeFails(s) ==
    /\ MinHash(s) \in DOMAIN index
    /\ Bin(s) \in DOMAIN indexStore =>
          /\ index[MinHash(s)].segmentHash = s
          /\ ~(Range(s) \subseteq DOMAIN indexStore[Bin(s)])

(* Seeded fault: a different segment replaces what the bin held. *)
ReplaceBin(s, d) == [fp \in Range(s) |-> Insert(d, NewAddrs(s, d))[fp]]

UpdateBinStore(s, d) == Insert(d, NewAddrs(s, d))

ExtremeSegment(s) ==
    /\ kind = "EXTREME_BIN" /\ ~ExtremeFails(s)
    /\ LET d == FetchBin(s) IN
       /\ Dedup(s, d)
       /\ indexStore' = Insert(Single(Bin(s), UpdateBinStore(s, d)), indexStore)
    /\ index' = Insert(index, Single(MinHash(s), [segmentHash |-> s, binID |-> Bin(s)]))
    /\ ids' = IF MinHash(s) \in DOMAIN index THEN ids ELSE ids + 1
-----------------------------------------------------------------------------
(* Sparse indexing.  A hook's list holds the manifests it was last seen in.  *)
HookSet(s) == Range(s) \cap Hooks

Candidates(s) == UNION {Range(index[h]) : h \in HookSet(s) \cap DOMAIN index}
Votes(s, id) == Cardinality({h \in HookSet(s) \cap DOMAIN index : id \in Range(index[h])})

(* The manifests to load, in the orders that the hash map and sort may give. *)
FindChampionSegment(s) ==
    IF Cardinality(Candidates(s)) < SPARSE_CHAMPION_NUM THEN SetToSeqs(Candidates(s))
    ELSE {SubSeq(q, 1, SPARSE_CHAMPION_NUM) :
            q \in {p \in SetToSeqs(Candidates(s)) :
                      \A m, n \in DOMAIN p : m < n => Votes(s, p[m]) >= Votes(s, p[n])}}

(* insert does not replace: the first manifest that has a chunk decides.     *)
LoadManifiests(champions) ==
    [fp \in UNION {DOMAIN indexStore[id] : id \in Range(champions)} |->
        LET n == Min({m \in DOMAIN champions : fp \in DOMAIN indexStore[champions[m]]})
        IN indexStore[champions[n]][fp]]

(* "cannot find the manifest in the manifest store" *)
SparseFails(champions) == ~(Range(champions) \subseteq DOMAIN indexStore)

UpdateHookIndex(id, hooks) ==
    [h \in DOMAIN index \cup hooks |->
        LET list == IF h \in DOMAIN index THEN index[h] ELSE <<>>
        IN IF h \notin hooks THEN list
           ELSE Append(IF Len(list) < SPARSE_MANIFIEST_CAP_NUM THEN list ELSE Tail(list), id)]

SparseSegment(s) ==
    /\ kind = "SPARSE_INDEX"
    /\ \E champions \in FindChampionSegment(s) :
        /\ ~SparseFails(champions)
        /\ LET d == LoadManifiests(champions)
               manifest == [fp \in Range(s) |-> Insert(d, NewAddrs(s, d))[fp]]
           IN /\ Dedup(s, d)
              /\ IF Unique(s, d) # {}  \* uniqueSegmentFlag
                 THEN /\ ids' = ids + 1
                      /\ indexStore' = Insert(Single(ids + 1, manifest), indexStore)
                      /\ index' = UpdateHookIndex(ids + 1, HookSet(s))
                 ELSE UNCHANGED <<ids, indexStore, index>>
-----------------------------------------------------------------------------
(* Seeded fault: the chunk that does not fit any more is counted too late. *)
IsEndOfSegmentLate(fp) ==
    LET size == segment.size + ChunkSize[fp] IN
    \/ Len(segment.chunks) > MaxSegmentChunkNum
    \/ size >= MIN_SEGMENT_SIZE /\ (size > MAX_SEGMENT_SIZE \/ HashVal[fp] % DIVISOR = PATTERN)

IsEndOfSegment(fp) ==
    LET size == segment.size + ChunkSize[fp] IN
    \/ Len(segment.chunks) + 1 > MaxSegmentChunkNum
    \/ size >= MIN_SEGMENT_SIZE /\ (size > MAX_SEGMENT_SIZE \/ HashVal[fp] % DIVISOR = PATTERN)

AddToSegment(seg, fp) == [chunks |-> Append(seg.chunks, fp), size |-> seg.size + ChunkSize[fp]]

Segmented == kind \in {"EXTREME_BIN", "SPARSE_INDEX"}

ProcessOneSegment(s) == ExtremeSegment(s) \/ SparseSegment(s)

(* One turn of ProcessOneBatch's loop.                                       *)
Receiving == phase = "running" /\ uploading # None /\ received < Len(uploading)

DirectChunk ==
    /\ Receiving
    /\ InEnclaveChunk(Chunk) \/ OutEnclaveChunk(Chunk) \/ FreqChunk(Chunk)
    /\ received' = received + 1
    /\ UNCHANGED <<kind, phase, enclaveKey, firstBootstrap, disk, containers, recipes, uploading,
                   segment, ids, boots, uploads, faults, history>>

BufferChunk ==
    /\ Receiving /\ Segmented /\ ~IsEndOfSegment(Chunk)
    /\ segment' = AddToSegment(segment, Chunk)
    /\ received' = received + 1
    /\ UNCHANGED <<kind, phase, memory, disk, containers, recipes, uploading, entries, pending,
                   counts, history>>

SegmentEnd ==
    /\ Receiving /\ Segmented /\ IsEndOfSegment(Chunk)
    /\ ProcessOneSegment(segment.chunks)
    /\ segment' = AddToSegment(EmptySegment, Chunk)
    /\ received' = received + 1
    /\ UNCHANGED <<kind, phase, enclaveKey, firstBootstrap, disk, containers, recipes, uploading,
                   boots, uploads, faults, history>>

(* The recipe end: ProcessTailBatch, then the recipe gets its final head.    *)
AtRecipeEnd ==
    /\ phase = "running" /\ uploading # None
    /\ received = Len(uploading) /\ uploading \notin DOMAIN recipes

RecipeEnd ==
    /\ AtRecipeEnd
    /\ IF segment.chunks # <<>> THEN ProcessOneSegment(segment.chunks)
       ELSE UNCHANGED <<index, indexStore, entries, pending, addresses, ids>>
    /\ segment' = EmptySegment
    /\ recipes' = Insert(recipes, Single(uploading, entries'))
    /\ UNCHANGED <<kind, phase, enclaveKey, firstBootstrap, disk, containers, uploading, received,
                   boots, uploads, faults, history>>

(* The client closes the connection, the last container is written and the   *)
(* session ends.                                                             *)
EndUpload ==
    /\ phase = "running" /\ uploading # None /\ uploading \in DOMAIN recipes
    /\ containers' = Insert(containers, pending)
    /\ NoSession
    /\ known' = known \cup {uploading}
    /\ cut' = cut \ {uploading}
    /\ UNCHANGED <<kind, phase, memory, disk, recipes, counts, savedKnown, damage>>

(* The chunks in containers that reached the disk before a session died.     *)
SaveSome == \E n \in 0 .. addresses :
                containers' = Insert(containers, Restrict(pending, {a \in DOMAIN pending : a <= n}))

(* The connection breaks before the recipe end.                              *)
Abort ==
    /\ faults < MaxFault /\ faults' = faults + 1
    /\ phase = "running" /\ uploading # None /\ uploading \notin DOMAIN recipes
    /\ SaveSome
    /\ NoSession
    /\ damage' = damage \cup {"abort"}
    /\ cut' = cut \cup {uploading}
    /\ UNCHANGED <<kind, phase, memory, disk, recipes, addresses, ids, boots, uploads,
                   known, savedKnown>>

Die ==
    /\ SaveSome
    /\ NoSession /\ MemoryGone
    /\ phase' = "off"
    /\ known' = savedKnown
    /\ cut' = cut \cup ({uploading} \ {None})
    /\ damage' = damage
          \cup (IF phase \in {"indexSealed", "keysSaved"} THEN {"torn"} ELSE {})
          \cup (IF sealedKey = None /\ addresses > 0 THEN {"keyLost"} ELSE {})
    /\ UNCHANGED <<kind, disk, recipes, addresses, ids, boots, uploads, savedKnown>>

(* The process is killed, or the machine stops.                              *)
Crash == phase # "off" /\ faults < MaxFault /\ faults' = faults + 1 /\ Die

(* Ocall_SGX_Exit_Error: a bin or a manifest is not in the database.         *)
ExitMissing ==
    /\ \/ Receiving /\ Segmented /\ IsEndOfSegment(Chunk)
       \/ AtRecipeEnd /\ segment.chunks # <<>>
    /\ \/ kind = "EXTREME_BIN" /\ ExtremeFails(segment.chunks)
       \/ /\ kind = "SPARSE_INDEX"
          /\ \E champions \in FindChampionSegment(segment.chunks) : SparseFails(champions)
    /\ Die
    /\ UNCHANGED faults

Next ==
    \/ Boot \/ SealIndex \/ SaveKeys \/ SaveDatabase
    \/ \E f \in Files : BeginUpload(f)
    \/ DirectChunk \/ BufferChunk \/ SegmentEnd \/ RecipeEnd \/ EndUpload
    \/ Abort \/ Crash \/ ExitMissing

Spec == Init /\ [][Next]_vars
-----------------------------------------------------------------------------
(* A file whose upload ran to its end can be restored in every later life of *)
(* the server: each recipe entry leads to a container on disk that holds the *)
(* file's chunk, encrypted with the key that this life or the next one uses. *)
(* Three mishaps are excepted: an upload cut short leaves addresses of lost  *)
(* chunks in the index, a first life that dies takes its key with it, and a  *)
(* recipe can be final before the last container is written.                 *)
RestorableAcrossRestarts ==
    damage \cap {"abort", "keyLost"} = {} =>
        \A f \in DOMAIN recipes \ (cut \cup {uploading}) :
            /\ Len(recipes[f]) = Len(f)
            /\ \A n \in DOMAIN f :
                /\ recipes[f][n] \in DOMAIN containers
                /\ containers[recipes[f][n]] =
                       [fp |-> f[n], key |-> IF sealedKey = None THEN enclaveKey ELSE sealedKey]

(* Unless a shutdown was torn apart, no upload can make the server exit for  *)
(* a missing bin or manifest: every bin of the primary index is in the       *)
(* database with all the chunks of the segment it was made for, and every    *)
(* manifest of a hook's list is there with that hook, in every life.         *)
IndexClosed ==
    phase # "off" /\ "torn" \notin damage =>
        \A k \in DOMAIN index :
            /\ kind = "EXTREME_BIN" =>
                   /\ index[k].binID \in DOMAIN indexStore
                   /\ Range(index[k].segmentHash) \subseteq DOMAIN indexStore[index[k].binID]
            /\ kind = "SPARSE_INDEX" =>
                   /\ Len(index[k]) <= SPARSE_MANIFIEST_CAP_NUM
                   /\ \A id \in Range(index[k]) :
                          id \in DOMAIN indexStore /\ k \in DOMAIN indexStore[id]

(* The buffers of a segment hold MAX_SEGMENT_SIZE bytes and                  *)
(* maxSegmentChunkNum_ metadata records; appending a chunk stays inside.     *)
SegmentWithinBuffer ==
    segment.size <= MAX_SEGMENT_SIZE /\ Len(segment.chunks) <= MaxSegmentChunkNum

(* A file that was uploaded before, in this life or in one that was shut     *)
(* down properly, stores no chunk again, whatever was uploaded, lost or      *)
(* restarted since.  Two indexes promise less: sparse indexing only finds    *)
(* segments that a hook still remembers, and after a torn shutdown a chunk   *)
(* of the top-k index may be unknown to the database when it is pushed out.  *)
ReuploadStoresNothing ==
    [][/\ addresses' # addresses
       /\ kind # "SPARSE_INDEX"
       /\ kind = "FREQ_INDEX" => "torn" \notin damage
       => uploading \notin known]_vars
=============================================================================
