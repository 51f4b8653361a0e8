-------------------------- MODULE IndexServerProofs --------------------------
(***************************************************************************)
(* Proofs about IndexServer, for all five indexes, every set of files, all  *)
(* segment and block sizes and any number of starts, uploads and faults:    *)
(* the segment buffers suffice, no index refers to a bin or a manifest that *)
(* is not there, what was uploaded can be restored in every later life, and *)
(* what was uploaded once is not stored again.                              *)
(*                                                                         *)
(* Only three things survive a life: the sealed index, the sealed keys and  *)
(* the database.  LoadedIndex and OpenDB(dbFile) are what the next start    *)
(* makes of the files; the invariants below are stated once for a pair of   *)
(* an index and a database, and claimed for the pair in memory, for the     *)
(* pair on disk, and, while a shutdown is under way, for the mixed pairs.   *)
(***************************************************************************)
EXTENDS IndexServer, FiniteSetTheorems, SequenceTheorems, WellFoundedInduction, TLAPS

(* What the next start makes of the sealed index. *)
LoadedIndex ==
    IF sealedIndex = <<>> THEN <<>>
    ELSE CASE kind = "IN_ENCLAVE"   -> LoadDedupIndex(sealedIndex[1])
           [] kind = "FREQ_INDEX"   -> LoadFreqIndex(sealedIndex[1])
           [] kind = "EXTREME_BIN"  -> LoadPrimaryIndex(sealedIndex[1])
           [] kind = "SPARSE_INDEX" -> LoadHookIndex(sealedIndex[1])

LoadedStore == OpenDB(dbFile)

(* The keys and values of two functions are the same. *)
Same(f, g) == DOMAIN f = DOMAIN g /\ \A k \in DOMAIN g : f[k] = g[k]

(* Seq(S) for some S. *)
Sequence(q) == q \in Seq(Range(q))
-----------------------------------------------------------------------------
(* Types, and where an upload stands.                                       *)

SegmentOK ==
    /\ segment.chunks \in Seq(Fp) /\ segment.size \in Nat
    /\ SegmentWithinBuffer

(* The recipe entries and the segment buffer together are what was received. *)
Position ==
    /\ uploading \in Files \cup {None}
    /\ DOMAIN recipes \subseteq Files
    /\ received \in Nat /\ Sequence(entries)
    /\ uploading = None => received = 0 /\ segment = EmptySegment /\ entries = <<>>
    /\ uploading # None =>
          /\ received <= Len(uploading)
          /\ Len(entries) + Len(segment.chunks) = received
          /\ \A m \in 1 .. Len(segment.chunks) : segment.chunks[m] = uploading[Len(entries) + m]
    /\ ~Segmented => segment = EmptySegment
    /\ phase # "running" => uploading = None
    /\ uploading \in DOMAIN recipes =>
          /\ received = Len(uploading) /\ segment = EmptySegment /\ recipes[uploading] = entries

Addresses ==
    /\ addresses \in Nat /\ ids \in Nat /\ boots \in Nat
    /\ DOMAIN containers \subseteq 1 .. addresses
    /\ DOMAIN pending \subseteq 1 .. addresses
    /\ DOMAIN containers \cap DOMAIN pending = {}
    /\ uploading = None => DOMAIN pending = {}

Keys ==
    /\ phase \in {"off", "running", "indexSealed", "keysSaved"}
    /\ enclaveKey \in Nat \cup {None} /\ sealedKey \in Nat \cup {None}
    /\ phase = "off" => enclaveKey = None
    /\ phase # "off" => enclaveKey # None
    /\ phase \in {"running", "indexSealed"} => (firstBootstrap <=> sealedKey = None)
    /\ phase = "keysSaved" => sealedKey # None
    /\ phase # "off" /\ sealedKey # None => enclaveKey = sealedKey
    /\ phase = "off" /\ sealedKey = None /\ "keyLost" \notin damage => addresses = 0

IndexTypes ==
    /\ kind \in Kinds
    /\ kind \in {"IN_ENCLAVE", "FREQ_INDEX"} =>
          IsFiniteSet(DOMAIN index) /\ IsFiniteSet(DOMAIN LoadedIndex)
    /\ kind = "EXTREME_BIN" /\ phase = "running" => DOMAIN LoadedIndex \subseteq DOMAIN index

Basics == SegmentOK /\ Position /\ Addresses /\ Keys /\ IndexTypes
-----------------------------------------------------------------------------
(* Restorable: where chunks are.                                            *)

Undamaged == damage \cap {"abort", "keyLost"} = {}

Key == IF sealedKey = None THEN enclaveKey ELSE sealedKey

(* m has chunk fp at address a, encrypted with key k. *)
Held(m, k, a, fp) == a \in DOMAIN m /\ m[a] = [fp |-> fp, key |-> k]

OnDisk(a, fp) == Held(containers, Key, a, fp)
Live(a, fp) == OnDisk(a, fp) \/ Held(pending, Key, a, fp)

AllLive(m) == \A fp \in DOMAIN m : Live(m[fp], fp)
AllOnDisk(m) == \A fp \in DOMAIN m : OnDisk(m[fp], fp)

MemoryRight ==
    /\ kind \in {"IN_ENCLAVE", "FREQ_INDEX"} => AllLive(index)
    /\ kind \in {"OUT_ENCLAVE", "FREQ_INDEX"} => AllLive(indexStore)
    /\ Segmented => \A id \in DOMAIN indexStore : AllLive(indexStore[id])

DiskRight ==
    /\ kind \in {"IN_ENCLAVE", "FREQ_INDEX"} => AllOnDisk(LoadedIndex)
    /\ kind \in {"OUT_ENCLAVE", "FREQ_INDEX"} => AllOnDisk(LoadedStore)
    /\ Segmented => \A id \in DOMAIN LoadedStore : AllOnDisk(LoadedStore[id])

EntriesRight == uploading # None => \A n \in 1 .. Len(entries) : Live(entries[n], uploading[n])

RecipesRight ==
    \A f \in DOMAIN recipes \ (cut \cup {uploading}) :
        /\ f \in Files /\ Len(recipes[f]) = Len(f)
        /\ \A n \in 1 .. Len(f) : OnDisk(recipes[f][n], f[n])

Restorable == Undamaged => MemoryRight /\ DiskRight /\ EntriesRight /\ RecipesRight
-----------------------------------------------------------------------------
(* Closed: what the index refers to is in the database.                     *)

BinsClosed(ix, store) ==
    \A x \in DOMAIN ix :
        /\ ix[x].binID \in DOMAIN store
        /\ Range(ix[x].segmentHash) \subseteq DOMAIN store[ix[x].binID]

HooksClosed(n, ix, store) ==
    /\ IsFiniteSet(DOMAIN ix)
    /\ \A x \in DOMAIN ix :
          /\ ix[x] \in Seq(1 .. n) /\ Len(ix[x]) <= SPARSE_MANIFIEST_CAP_NUM
          /\ \A m \in 1 .. Len(ix[x]) : ix[x][m] \in DOMAIN store /\ x \in DOMAIN store[ix[x][m]]

(* An index and a database of kind k, when the IDs 1 .. n are given out. *)
ClosedPair(k, n, ix, store) ==
    /\ k = "EXTREME_BIN" => BinsClosed(ix, store)
    /\ k = "SPARSE_INDEX" => HooksClosed(n, ix, store)
    /\ k = "FREQ_INDEX" => DOMAIN ix \subseteq DOMAIN store

(* Bin IDs are never given out twice. *)
IDsUsed(k, n, ix) == k = "EXTREME_BIN" => \A x \in DOMAIN ix : ix[x].binID \in 1 .. n

Closed ==
    /\ IDsUsed(kind, ids, index) /\ IDsUsed(kind, ids, LoadedIndex)
    /\ "torn" \notin damage =>
          /\ phase # "off" => ClosedPair(kind, ids, index, indexStore)
          /\ phase \in {"off", "running"} => ClosedPair(kind, ids, LoadedIndex, LoadedStore)
          /\ phase \in {"indexSealed", "keysSaved"} => ClosedPair(kind, ids, LoadedIndex, indexStore)
          /\ kind = "SPARSE_INDEX" /\ phase = "running" => DOMAIN LoadedIndex \subseteq DOMAIN index
-----------------------------------------------------------------------------
(* Covered: what was uploaded is found again.                               *)

(* The size of the first n chunks of f. *)
Sums(f) == CHOOSE g \in [0 .. Len(f) -> Nat] :
               g[0] = 0 /\ \A n \in 1 .. Len(f) : g[n] = g[n - 1] + ChunkSize[f[n]]

(* Chunk k + 1 of f closes the segment that begins behind chunk p. *)
EndAt(f, p, k) ==
    LET size == Sums(f)[k + 1] - Sums(f)[p] IN
    \/ k - p + 1 > MaxSegmentChunkNum
    \/ size >= MIN_SEGMENT_SIZE /\ (size > MAX_SEGMENT_SIZE \/ HashVal[f[k + 1]] % DIVISOR = PATTERN)

(* Chunks p + 1 to q of f are one segment, however often f is uploaded. *)
IsSegment(f, p, q) ==
    /\ p < q /\ q <= Len(f)
    /\ \A k \in p + 1 .. q - 1 : ~EndAt(f, p, k)
    /\ q < Len(f) => EndAt(f, p, q)

Filled(s, ix, store) ==
    /\ MinHash(s) \in DOMAIN ix
    /\ ix[MinHash(s)].binID \in DOMAIN store
    /\ Range(s) \subseteq DOMAIN store[ix[MinHash(s)].binID]

(* The segments of f up to chunk n are in their bins; B is where they end. *)
Chain(f, B, n, ix, store) ==
    /\ 0 \in B /\ n \in B
    /\ \A p \in B : p < n =>
          \E q \in B : q <= n /\ IsSegment(f, p, q) /\ Filled(SubSeq(f, p + 1, q), ix, store)

(* The first n chunks of f are found in an index and a database of kind k    *)
(* after the mishaps dm; m is a place in f where a segment begins.           *)
Covers(k, dm, f, n, m, ix, store) ==
    /\ k = "IN_ENCLAVE" => \A j \in 1 .. n : f[j] \in DOMAIN ix
    /\ k = "OUT_ENCLAVE" => \A j \in 1 .. n : f[j] \in DOMAIN store
    /\ k = "FREQ_INDEX" /\ "torn" \notin dm => \A j \in 1 .. n : f[j] \in DOMAIN store
    /\ k = "EXTREME_BIN" => \E B \in SUBSET (0 .. Len(f)) : m \in B /\ Chain(f, B, n, ix, store)

(* Where the next segment of f begins, if f is being uploaded. *)
Place(f) == IF uploading = f THEN Len(entries) ELSE 0

CurrentSegment ==
    uploading # None /\ Segmented =>
        /\ segment.size = Sums(uploading)[received] - Sums(uploading)[Len(entries)]
        /\ \A k \in Len(entries) + 1 .. received - 1 : ~EndAt(uploading, Len(entries), k)

Finds(f, n, m, ix, store) == Covers(kind, damage, f, n, m, ix, store)

KnownFound ==
    /\ uploading # None => Finds(uploading, Len(entries), Len(entries), index, indexStore)
    /\ phase # "off" => \A f \in known : Finds(f, Len(f), Place(f), index, indexStore)
    /\ phase # "off" => \A f \in savedKnown : Finds(f, Len(f), 0, index, LoadedStore)
    /\ \A f \in savedKnown : Finds(f, Len(f), 0, LoadedIndex, LoadedStore)
    /\ phase \in {"indexSealed", "keysSaved"} =>
          \A f \in known : Finds(f, Len(f), 0, LoadedIndex, indexStore)

Covered ==
    /\ CurrentSegment
    /\ known \subseteq Files /\ savedKnown \subseteq Files
    /\ phase = "off" => known = savedKnown
    /\ KnownFound
-----------------------------------------------------------------------------
(* Facts about the operators on functions and files.                        *)

(* A nonempty set of naturals has a least element. *)
LEMMA Least ==
    ASSUME NEW T \in SUBSET Nat, T # {}
    PROVE  \E n \in T : \A m \in T : n <= m
<1> DEFINE R == OpToRel(<, Nat)
<1>1. IsWellFoundedOn(R, Nat)
  BY NatLessThanWellFounded
<1>2. \A m, n \in Nat : m < n => <<m, n>> \in R
  BY DEF OpToRel
<1> HIDE DEF R
<1>3. \E x \in T : \A y \in T : ~ (<<y, x>> \in R)
  BY <1>1, WFMin, Zenon
<1>4. PICK x \in T : \A y \in T : ~ (<<y, x>> \in R)
  BY <1>3
<1>5. ASSUME NEW m \in T PROVE x <= m
  <2>1. x \in Nat /\ m \in Nat
    OBVIOUS
  <2>2. ~(<<m, x>> \in R)
    BY <1>4
  <2> QED
    BY <2>1, <2>2, <1>2
<1> QED
  BY <1>5

(* A set of naturals that holds 0 and, with each n, n + 1 up to N. *)
LEMMA UpTo ==
    ASSUME NEW N \in Nat, NEW T, 0 \in T, \A n \in 0 .. N : n < N /\ n \in T => n + 1 \in T
    PROVE  \A n \in 0 .. N : n \in T
<1> SUFFICES ASSUME \E n \in 0 .. N : n \notin T PROVE FALSE
  OBVIOUS
<1> DEFINE F == {n \in 0 .. N : n \notin T}
<1>1. F \in SUBSET Nat /\ F # {}
  OBVIOUS
<1>2. PICK n \in F : \A m \in F : n <= m
  BY <1>1, Least
<1>3. n \in 1 .. N /\ n \notin T
  BY <1>2
<1>4. n - 1 \in 0 .. N /\ n - 1 < N /\ (n - 1) + 1 = n
  BY <1>3
<1>5. n - 1 \in T
  BY <1>2, <1>4
<1> QED
  BY <1>3, <1>4, <1>5

LEMMA InsertDomain ==
    ASSUME NEW f, NEW g PROVE DOMAIN Insert(f, g) = DOMAIN f \cup DOMAIN g
BY DEF Insert

LEMMA InsertOld ==
    ASSUME NEW f, NEW g, NEW k \in DOMAIN f PROVE Insert(f, g)[k] = f[k]
BY DEF Insert

LEMMA InsertNew ==
    ASSUME NEW f, NEW g, NEW k \in DOMAIN g, k \notin DOMAIN f PROVE Insert(f, g)[k] = g[k]
BY DEF Insert

LEMMA SingleIs ==
    ASSUME NEW k, NEW v PROVE DOMAIN Single(k, v) = {k} /\ Single(k, v)[k] = v
BY DEF Single

LEMMA WithoutDomain ==
    ASSUME NEW f, NEW k PROVE DOMAIN Without(f, k) = DOMAIN f \ {k}
BY DEF Without

LEMMA WithoutOld ==
    ASSUME NEW f, NEW k, NEW j \in DOMAIN f, j # k PROVE Without(f, k)[j] = f[j]
BY DEF Without

LEMMA EmptyDomain == DOMAIN << >> = {}
OBVIOUS

(* Reading back a set of pairs with one pair for a key gives that pair. *)
LEMMA FromPairsDomain ==
    ASSUME NEW f, NEW P, P \subseteq Pairs(f)
    PROVE  /\ DOMAIN FromPairs(P) = {p[1] : p \in P}
           /\ DOMAIN FromPairs(P) \subseteq DOMAIN f
<1>1. DOMAIN FromPairs(P) = {p[1] : p \in P}
  BY DEF FromPairs
<1>2. \A p \in P : p[1] \in DOMAIN f
  BY DEF Pairs
<1>3. ASSUME NEW k \in DOMAIN FromPairs(P) PROVE k \in DOMAIN f
  <2>1. PICK p \in P : p[1] = k
    BY <1>1
  <2> QED
    BY <2>1, <1>2
<1> QED
  BY <1>1, <1>3

LEMMA FromPairsValue ==
    ASSUME NEW f, NEW P, P \subseteq Pairs(f), NEW k \in DOMAIN FromPairs(P)
    PROVE  FromPairs(P)[k] = f[k]
<1>1. DOMAIN FromPairs(P) = {p[1] : p \in P}
  BY DEF FromPairs
<1>2. \A p \in P : p[1] \in DOMAIN f /\ p[2] = f[p[1]]
  BY DEF Pairs
<1>3. \E p \in P : p[1] = k
  BY <1>1
<1>4. (CHOOSE p \in P : p[1] = k) \in P /\ (CHOOSE p \in P : p[1] = k)[1] = k
  BY <1>3
<1>5. FromPairs(P)[k] = (CHOOSE p \in P : p[1] = k)[2]
  BY <1>1 DEF FromPairs
<1> QED
  BY <1>4, <1>5, <1>2

LEMMA PairsBack == ASSUME NEW f PROVE Same(FromPairs(Pairs(f)), f)
<1>1. DOMAIN FromPairs(Pairs(f)) = {p[1] : p \in Pairs(f)}
  BY FromPairsDomain
<1>2. ASSUME NEW k \in DOMAIN f PROVE k \in {p[1] : p \in Pairs(f)}
  <2>1. <<k, f[k]>> \in Pairs(f) /\ <<k, f[k]>>[1] = k
    BY DEF Pairs
  <2> QED
    BY <2>1, Zenon
<1> QED
  BY <1>1, <1>2, FromPairsDomain, FromPairsValue DEF Same

(* The part of a sequence between two places. *)
LEMMA RangeSub ==
    ASSUME NEW S, NEW q \in Seq(S), NEW a \in Nat \ {0}, NEW b \in Nat, a <= b + 1, b <= Len(q)
    PROVE  Range(SubSeq(q, a, b)) = {q[n] : n \in a .. b}
<1> DEFINE t == SubSeq(q, a, b)
<1>1. t = [i \in 1 .. b - a + 1 |-> q[a + i - 1]]
  OBVIOUS
<1>2. DOMAIN t = 1 .. b - a + 1 /\ \A i \in 1 .. b - a + 1 : t[i] = q[a + i - 1]
  BY <1>1
<1> HIDE DEF t
<1>3. ASSUME NEW n \in a .. b PROVE q[n] \in Range(t)
  <2>1. n - a + 1 \in 1 .. b - a + 1 /\ a + (n - a + 1) - 1 = n
    OBVIOUS
  <2>2. t[n - a + 1] = q[n]
    BY <2>1, <1>2
  <2> QED
    BY <2>1, <2>2, <1>2 DEF Range
<1>4. ASSUME NEW i \in DOMAIN t PROVE t[i] \in {q[n] : n \in a .. b}
  <2>1. a + i - 1 \in a .. b
    BY <1>2
  <2> QED
    BY <2>1, <1>2
<1>5. Range(t) = {q[n] : n \in a .. b}
  BY <1>3, <1>4, Zenon DEF Range
<1> QED
  BY <1>5 DEF t

(* What is read back from a part of the items of f. *)
LEMMA ItemsBack ==
    ASSUME NEW f, NEW q \in Seq(Pairs(f)),
           NEW a \in Nat \ {0}, NEW b \in Nat, a <= b + 1, b <= Len(q), NEW k
    PROVE  /\ k \in DOMAIN FromItems(SubSeq(q, a, b)) <=> \E n \in a .. b : q[n][1] = k
           /\ k \in DOMAIN FromItems(SubSeq(q, a, b)) => k \in DOMAIN f
<1> DEFINE P == Range(SubSeq(q, a, b))
<1>1. P = {q[n] : n \in a .. b}
  BY RangeSub
<1>2. FromItems(SubSeq(q, a, b)) = FromPairs(P)
  BY DEF FromItems
<1> HIDE DEF P
<1>3. \A n \in a .. b : q[n] \in Pairs(f)
  OBVIOUS
<1>4. P \subseteq Pairs(f)
  BY <1>1, <1>3
<1>5. {p[1] : p \in P} = {q[n][1] : n \in a .. b}
  BY <1>1, Zenon
<1>6. /\ DOMAIN FromPairs(P) = {p[1] : p \in P}
      /\ DOMAIN FromPairs(P) \subseteq DOMAIN f
  BY <1>4, FromPairsDomain
<1> QED
  BY <1>2, <1>5, <1>6

LEMMA ItemsBackValue ==
    ASSUME NEW f, NEW q \in Seq(Pairs(f)),
           NEW a \in Nat \ {0}, NEW b \in Nat, a <= b + 1, b <= Len(q),
           NEW k \in DOMAIN FromItems(SubSeq(q, a, b))
    PROVE  FromItems(SubSeq(q, a, b))[k] = f[k]
<1> DEFINE P == Range(SubSeq(q, a, b))
<1>1. P = {q[n] : n \in a .. b}
  BY RangeSub
<1>2. FromItems(SubSeq(q, a, b)) = FromPairs(P)
  BY DEF FromItems
<1> HIDE DEF P
<1>3. \A n \in a .. b : q[n] \in Pairs(f)
  OBVIOUS
<1>4. P \subseteq Pairs(f)
  BY <1>1, <1>3
<1> QED
  BY <1>2, <1>4, FromPairsValue

LEMMA SetToSeqIs ==
    ASSUME NEW S, IsFiniteSet(S)
    PROVE  /\ Cardinality(S) \in Nat
           /\ SetToSeq(S) \in [1 .. Cardinality(S) -> S]
           /\ IsInjective(SetToSeq(S))
           /\ \A e \in S : \E n \in 1 .. Cardinality(S) : SetToSeq(S)[n] = e
<1>1. Cardinality(S) \in Nat /\ ExistsBijection(1 .. Cardinality(S), S)
  BY FS_CardinalityType
<1>2. \E f \in [1 .. Cardinality(S) -> S] : IsInjective(f)
  BY <1>1 DEF ExistsBijection, Bijection, Injection
<1>3. SetToSeq(S) \in [1 .. Cardinality(S) -> S] /\ IsInjective(SetToSeq(S))
  BY <1>2 DEF SetToSeq
<1>4. SetToSeq(S) \in Injection(1 .. Cardinality(S), S)
  BY <1>3 DEF Injection
<1>5. Cardinality(1 .. Cardinality(S)) = Cardinality(S)
  BY <1>1, FS_Interval
<1>6. SetToSeq(S) \in Surjection(1 .. Cardinality(S), S)
  BY <1>4, <1>5, FS_Injection
<1> QED
  BY <1>1, <1>3, <1>6 DEF Surjection

(* The items of a finite index are a sequence of as many pairs. *)
LEMMA ItemsOf ==
    ASSUME NEW f, IsFiniteSet(DOMAIN f)
    PROVE  /\ Cardinality(DOMAIN f) \in Nat
           /\ SetToSeq(Pairs(f)) \in [1 .. Cardinality(DOMAIN f) -> Pairs(f)]
           /\ SetToSeq(Pairs(f)) \in Seq(Pairs(f))
           /\ Len(SetToSeq(Pairs(f))) = Cardinality(DOMAIN f)
           /\ \A k \in DOMAIN f : \E n \in 1 .. Cardinality(DOMAIN f) :
                  SetToSeq(Pairs(f))[n] = <<k, f[k]>>
           /\ \A m, n \in 1 .. Cardinality(DOMAIN f) :
                  SetToSeq(Pairs(f))[m][1] = SetToSeq(Pairs(f))[n][1] => m = n
<1> DEFINE b == [k \in DOMAIN f |-> <<k, f[k]>>]
<1>1. b \in Bijection(DOMAIN f, Pairs(f))
  BY DEF Bijection, Injection, Surjection, IsInjective, Pairs
<1>2. IsFiniteSet(Pairs(f)) /\ Cardinality(Pairs(f)) = Cardinality(DOMAIN f)
  BY <1>1, FS_Bijection DEF ExistsBijection
<1> DEFINE q == SetToSeq(Pairs(f))
           N == Cardinality(DOMAIN f)
<1>3. /\ N \in Nat /\ q \in [1 .. N -> Pairs(f)] /\ IsInjective(q)
      /\ \A e \in Pairs(f) : \E n \in 1 .. N : q[n] = e
  BY <1>2, SetToSeqIs
<1> HIDE DEF q, N
<1>4. q \in Seq(Pairs(f)) /\ Len(q) = N
  BY <1>3
<1>5. \A k \in DOMAIN f : \E n \in 1 .. N : q[n] = <<k, f[k]>>
  BY <1>3 DEF Pairs
<1>6. ASSUME NEW m \in 1 .. N, NEW n \in 1 .. N, q[m][1] = q[n][1] PROVE m = n
  <2>1. q[m] \in Pairs(f) /\ q[n] \in Pairs(f)
    BY <1>3
  <2>2. q[m] = q[n]
    BY <2>1, <1>6 DEF Pairs
  <2> QED
    BY <2>2, <1>3 DEF IsInjective
<1> QED
  BY <1>3, <1>4, <1>5, <1>6 DEF q, N

(* LoadDedupIndex undoes PersistDedupIndex, whatever the block size. *)
LEMMA DedupIndexBack ==
    ASSUME IsFiniteSet(DOMAIN index)
    PROVE  Same(LoadDedupIndex(PersistDedupIndex[1]), index)
<1> DEFINE N == Cardinality(DOMAIN index)
           q == SetToSeq(Pairs(index))
           B == SendChunkBatchSize
           full == (N \div B) * B
           blocks == FromItems(SubSeq(q, 1, full))
           remain == N - Cardinality(DOMAIN blocks)
           tail == FromItems(SubSeq(q, full + 1, full + remain))
<1>1. /\ N \in Nat /\ q \in [1 .. N -> Pairs(index)] /\ q \in Seq(Pairs(index)) /\ Len(q) = N
      /\ \A k \in DOMAIN index : \E n \in 1 .. N : q[n] = <<k, index[k]>>
      /\ \A m, n \in 1 .. N : q[m][1] = q[n][1] => m = n
  BY ItemsOf
<1>2. LoadDedupIndex(PersistDedupIndex[1]) = Insert(blocks, tail)
  BY DEF LoadDedupIndex, PersistDedupIndex
<1>3. B \in Nat /\ B > 0
  BY IndexAssumption
<1> HIDE DEF N, q, B
<1>4. full \in 0 .. N
  <2>1. N \div B \in Nat /\ N = B * (N \div B) + (N % B) /\ N % B \in 0 .. B - 1
    BY <1>1, <1>3
  <2> DEFINE d == N \div B
             r == N % B
  <2> HIDE DEF d, r
  <2>2. d \in Nat /\ N = B * d + r /\ r \in Nat
    BY <2>1, <1>3 DEF d, r
  <2>3. d * B = B * d /\ d * B \in Nat
    BY <2>2, <1>3
  <2>4. d * B <= N
    BY <2>2, <2>3, <1>1
  <2> QED
    BY <2>3, <2>4, <1>1 DEF d
<1> HIDE DEF full
<1>7. /\ \A k : k \in DOMAIN blocks <=> \E n \in 1 .. full : q[n][1] = k
      /\ DOMAIN blocks \subseteq DOMAIN index
      /\ \A k \in DOMAIN blocks : blocks[k] = index[k]
  <2>1. full \in Nat /\ 1 \in Nat \ {0} /\ 1 <= full + 1 /\ full <= Len(q) /\ q \in Seq(Pairs(index))
    BY <1>1, <1>4
  <2>2. ASSUME NEW k
        PROVE  /\ k \in DOMAIN blocks <=> \E n \in 1 .. full : q[n][1] = k
               /\ k \in DOMAIN blocks => k \in DOMAIN index
    BY <2>1, ItemsBack
  <2>3. ASSUME NEW k \in DOMAIN blocks PROVE blocks[k] = index[k]
    BY <2>1, ItemsBackValue
  <2> QED
    BY <2>2, <2>3
<1> HIDE DEF blocks
<1>8. Cardinality(DOMAIN blocks) = full
  <2> DEFINE h == [n \in 1 .. full |-> q[n][1]]
  <2>1. \A n \in 1 .. full : h[n] \in DOMAIN blocks
    BY <1>7
  <2>2. \A k \in DOMAIN blocks : \E n \in 1 .. full : h[n] = k
    BY <1>7
  <2>3. \A m, n \in 1 .. full : h[m] = h[n] => m = n
    BY <1>1, <1>4
  <2>4. h \in [1 .. full -> DOMAIN blocks]
    BY <2>1
  <2> HIDE DEF h
  <2>5. h \in Bijection(1 .. full, DOMAIN blocks)
    BY <2>2, <2>3, <2>4 DEF Bijection, Injection, Surjection, IsInjective
  <2>6. ExistsBijection(1 .. full, DOMAIN blocks)
    BY <2>5 DEF ExistsBijection
  <2> QED
    BY <2>6, <1>4, FS_CountingElements
<1>9. remain = N - full /\ full + remain = N
  BY <1>1, <1>4, <1>8
<1> HIDE DEF remain
<1>12. /\ \A k : k \in DOMAIN tail <=> \E n \in full + 1 .. N : q[n][1] = k
       /\ DOMAIN tail \subseteq DOMAIN index
       /\ \A k \in DOMAIN tail : tail[k] = index[k]
  <2>1. /\ full + 1 \in Nat \ {0} /\ N \in Nat /\ full + 1 <= N + 1 /\ N <= Len(q)
        /\ q \in Seq(Pairs(index))
    BY <1>1, <1>4
  <2>2. tail = FromItems(SubSeq(q, full + 1, N))
    BY <1>9
  <2> HIDE DEF tail
  <2>3. ASSUME NEW k
        PROVE  /\ k \in DOMAIN tail <=> \E n \in full + 1 .. N : q[n][1] = k
               /\ k \in DOMAIN tail => k \in DOMAIN index
    BY <2>2, <2>1, ItemsBack
  <2>4. ASSUME NEW k \in DOMAIN tail PROVE tail[k] = index[k]
    BY <2>2, <2>1, ItemsBackValue
  <2> QED
    BY <2>3, <2>4
<1> HIDE DEF tail
<1>14. DOMAIN blocks \cup DOMAIN tail = DOMAIN index
  <2>1. DOMAIN blocks \cup DOMAIN tail \subseteq DOMAIN index
    BY <1>7, <1>12
  <2>2. ASSUME NEW k \in DOMAIN index PROVE k \in DOMAIN blocks \cup DOMAIN tail
    <3>1. PICK n \in 1 .. N : q[n] = <<k, index[k]>>
      BY <1>1
    <3>2. q[n][1] = k
      BY <3>1
    <3>3. n \in 1 .. full \/ n \in full + 1 .. N
      BY <1>1, <1>4
    <3> QED
      BY <3>2, <3>3, <1>7, <1>12
  <2> QED
    BY <2>1, <2>2
<1>15. Same(Insert(blocks, tail), index)
  <2>1. DOMAIN Insert(blocks, tail) = DOMAIN index
    BY <1>14, InsertDomain
  <2>2. ASSUME NEW k \in DOMAIN index PROVE Insert(blocks, tail)[k] = index[k]
    BY <1>7, <1>12, <1>14, InsertOld, InsertNew
  <2> QED
    BY <2>1, <2>2 DEF Same
<1> QED
  BY <1>2, <1>15

LEMMA FreqIndexBack ==
    ASSUME IsFiniteSet(DOMAIN index)
    PROVE  Same(LoadFreqIndex(PersistFreqIndex[1]), index)
<1> DEFINE N == Cardinality(DOMAIN index)
           q == SetToSeq(Pairs(index))
<1>1. /\ N \in Nat /\ q \in [1 .. N -> Pairs(index)] /\ q \in Seq(Pairs(index)) /\ Len(q) = N
      /\ \A k \in DOMAIN index : \E n \in 1 .. N : q[n] = <<k, index[k]>>
  BY ItemsOf
<1>2. LoadFreqIndex(PersistFreqIndex[1]) = FromPairs(Range(SubSeq(q, 1, N)))
  BY DEF LoadFreqIndex, PersistFreqIndex, FromItems
<1> HIDE DEF N, q
<1>3. q \in Seq(Pairs(index)) /\ 1 \in Nat \ {0} /\ N \in Nat /\ 1 <= N + 1 /\ N <= Len(q)
  BY <1>1
<1>4. Range(SubSeq(q, 1, N)) = {q[n] : n \in 1 .. N}
  BY ONLY <1>3, RangeSub, ZenonT(90)
<1>5. {q[n] : n \in 1 .. N} = Pairs(index)
  BY <1>1 DEF Pairs
<1> QED
  BY <1>2, <1>4, <1>5, PairsBack
-----------------------------------------------------------------------------
(* Addresses for new chunks.                                                *)

LEMMA FirstAtIs ==
    ASSUME NEW S, NEW s \in Seq(S), NEW fp \in Range(s)
    PROVE  FirstAt(s, fp) \in 1 .. Len(s) /\ s[FirstAt(s, fp)] = fp
<1> DEFINE T == {n \in 1 .. Len(s) : s[n] = fp}
<1>1. DOMAIN s = 1 .. Len(s) /\ Len(s) \in Nat
  OBVIOUS
<1>2. PICK x \in DOMAIN s : s[x] = fp
  BY DEF Range
<1>3. T \in SUBSET Nat /\ T # {}
  BY <1>1, <1>2
<1>4. PICK n \in T : \A m \in T : n <= m
  BY <1>3, Least
<1>5. n \in DOMAIN s /\ s[n] = fp
  BY <1>1, <1>4
<1>6. ASSUME NEW m \in 1 .. n - 1 PROVE s[m] # fp
  <2>1. m \in 1 .. Len(s) /\ ~(n <= m)
    BY <1>1, <1>4
  <2> QED
    BY <2>1, <1>4
<1>7. \E k \in DOMAIN s : s[k] = fp /\ \A m \in 1 .. k - 1 : s[m] # fp
  BY <1>5, <1>6
<1>8. FirstAt(s, fp) \in DOMAIN s /\ s[FirstAt(s, fp)] = fp
  BY <1>7 DEF FirstAt
<1> QED
  BY <1>1, <1>8

LEMMA SequenceIs ==
    ASSUME NEW S, NEW q \in Seq(S) PROVE Sequence(q)
<1>1. q \in [1 .. Len(q) -> Range(q)] /\ Len(q) \in Nat
  BY DEF Range
<1> QED
  BY <1>1 DEF Sequence

LEMMA UniqueFinite ==
    ASSUME NEW S, NEW s \in Seq(S), NEW d
    PROVE  IsFiniteSet(Unique(s, d)) /\ Cardinality(Unique(s, d)) \in Nat
<1> DEFINE h == [fp \in Unique(s, d) |-> FirstAt(s, fp)]
<1>1. \A fp \in Unique(s, d) : FirstAt(s, fp) \in 1 .. Len(s) /\ s[FirstAt(s, fp)] = fp
  BY FirstAtIs DEF Unique
<1>2. h \in Injection(Unique(s, d), 1 .. Len(s))
  BY <1>1 DEF Injection, IsInjective
<1>3. IsFiniteSet(1 .. Len(s))
  BY FS_Interval
<1>4. IsFiniteSet(Unique(s, d))
  BY <1>2, <1>3, FS_Injection
<1> QED
  BY <1>4, FS_CardinalityType

(* The new chunks that are met no later than fp. *)
UpToFirst(s, d, fp) == {g \in Unique(s, d) : FirstAt(s, g) <= FirstAt(s, fp)}

LEMMA UpToFirstIs ==
    ASSUME NEW S, NEW s \in Seq(S), NEW d, NEW fp \in Unique(s, d)
    PROVE  /\ IsFiniteSet(UpToFirst(s, d, fp))
           /\ Cardinality(UpToFirst(s, d, fp)) \in 1 .. Cardinality(Unique(s, d))
<1>1. UpToFirst(s, d, fp) \in SUBSET Unique(s, d)
  BY DEF UpToFirst
<1>2. IsFiniteSet(UpToFirst(s, d, fp)) /\ Cardinality(UpToFirst(s, d, fp)) <= Cardinality(Unique(s, d))
  BY <1>1, UniqueFinite, FS_Subset
<1>3. FirstAt(s, fp) \in Nat
  BY FirstAtIs DEF Unique
<1>4. fp \in UpToFirst(s, d, fp)
  BY <1>3 DEF UpToFirst
<1>5. Cardinality(UpToFirst(s, d, fp)) \in Nat /\ Cardinality(UpToFirst(s, d, fp)) # 0
  BY <1>2, <1>4, FS_CardinalityType, FS_EmptySet
<1> QED
  BY <1>2, <1>5, UniqueFinite

LEMMA NewAddrsDomain ==
    ASSUME NEW s, NEW d PROVE DOMAIN NewAddrs(s, d) = Unique(s, d)
BY DEF NewAddrs

LEMMA NewAddrsRange ==
    ASSUME NEW S, NEW s \in Seq(S), NEW d, NEW fp \in Unique(s, d), addresses \in Nat
    PROVE  NewAddrs(s, d)[fp] \in addresses + 1 .. addresses + Cardinality(Unique(s, d))
<1>1. NewAddrs(s, d)[fp] = addresses + Cardinality(UpToFirst(s, d, fp))
  BY DEF NewAddrs, UpToFirst
<1>2. Cardinality(UpToFirst(s, d, fp)) \in 1 .. Cardinality(Unique(s, d))
  BY UpToFirstIs
<1>3. Cardinality(Unique(s, d)) \in Nat
  BY UniqueFinite
<1> QED
  BY <1>1, <1>2, <1>3

LEMMA NewAddrsInjective ==
    ASSUME NEW S, NEW s \in Seq(S), NEW d, NEW g \in Unique(s, d), NEW h \in Unique(s, d),
           addresses \in Nat, NewAddrs(s, d)[g] = NewAddrs(s, d)[h]
    PROVE  g = h
<1>1. /\ NewAddrs(s, d)[g] = addresses + Cardinality(UpToFirst(s, d, g))
      /\ NewAddrs(s, d)[h] = addresses + Cardinality(UpToFirst(s, d, h))
  BY DEF NewAddrs, UpToFirst
<1>2. /\ Cardinality(UpToFirst(s, d, g)) \in Nat /\ IsFiniteSet(UpToFirst(s, d, g))
      /\ Cardinality(UpToFirst(s, d, h)) \in Nat /\ IsFiniteSet(UpToFirst(s, d, h))
  BY UpToFirstIs
<1>3. Cardinality(UpToFirst(s, d, g)) = Cardinality(UpToFirst(s, d, h))
  <2>1. \A a, b, c \in Nat : a + b = a + c => b = c
    OBVIOUS
  <2> QED
    BY <1>1, <1>2, <2>1, ZenonT(30)
<1>4. \A fp \in Unique(s, d) : FirstAt(s, fp) \in Nat /\ s[FirstAt(s, fp)] = fp
  BY FirstAtIs DEF Unique
<1>5. ASSUME NEW x \in Unique(s, d), NEW y \in Unique(s, d), FirstAt(s, x) <= FirstAt(s, y),
             Cardinality(UpToFirst(s, d, x)) = Cardinality(UpToFirst(s, d, y)),
             IsFiniteSet(UpToFirst(s, d, y))
      PROVE  x = y
  <2>1. UpToFirst(s, d, x) \in SUBSET UpToFirst(s, d, y)
    BY <1>4, <1>5 DEF UpToFirst
  <2>2. UpToFirst(s, d, x) = UpToFirst(s, d, y)
    BY <2>1, <1>5, FS_Subset
  <2>3. FirstAt(s, y) <= FirstAt(s, x)
    BY <2>2, <1>4 DEF UpToFirst
  <2>4. FirstAt(s, y) = FirstAt(s, x)
    BY <2>3, <1>4, <1>5
  <2> QED
    BY <2>4, <1>4
<1>6. FirstAt(s, g) <= FirstAt(s, h) \/ FirstAt(s, h) <= FirstAt(s, g)
  BY <1>4
<1> QED
  BY <1>2, <1>3, <1>5, <1>6
-----------------------------------------------------------------------------
(* What Dedup does for the chunks s and the deduplication index d.          *)

LEMMA DedupAddresses ==
    ASSUME NEW S, NEW s \in Seq(S), NEW d, addresses \in Nat, Dedup(s, d)
    PROVE  /\ addresses' \in Nat /\ addresses <= addresses'
           /\ Unique(s, d) = {} => addresses' = addresses
           /\ addresses' = addresses + Cardinality(Unique(s, d))
<1>1. addresses' = addresses + Cardinality(Unique(s, d))
  BY NewAddrsDomain DEF Dedup
<1>2. Unique(s, d) = {} => Cardinality(Unique(s, d)) = 0
  BY FS_EmptySet
<1> QED
  BY <1>1, <1>2, UniqueFinite

(* The container entries that Dedup adds. *)
Added(s, d) == [a \in Range(NewAddrs(s, d)) |->
                  [fp |-> CHOOSE fp \in Unique(s, d) : NewAddrs(s, d)[fp] = a, key |-> enclaveKey]]

LEMMA DedupPending ==
    ASSUME NEW s, NEW d, Dedup(s, d) PROVE pending' = Insert(pending, Added(s, d))
BY NewAddrsDomain DEF Dedup, Added

LEMMA AddedDomain ==
    ASSUME NEW S, NEW s \in Seq(S), NEW d, addresses \in Nat, NEW a \in DOMAIN Added(s, d)
    PROVE  a \in addresses + 1 .. addresses + Cardinality(Unique(s, d))
<1>1. a \in Range(NewAddrs(s, d))
  BY DEF Added
<1>2. PICK fp \in Unique(s, d) : a = NewAddrs(s, d)[fp]
  BY <1>1, NewAddrsDomain DEF Range
<1> QED
  BY <1>2, NewAddrsRange

LEMMA AddedIs ==
    ASSUME NEW S, NEW s \in Seq(S), NEW d, addresses \in Nat, NEW fp \in Unique(s, d)
    PROVE  /\ NewAddrs(s, d)[fp] \in DOMAIN Added(s, d)
           /\ Added(s, d)[NewAddrs(s, d)[fp]] = [fp |-> fp, key |-> enclaveKey]
<1> DEFINE a == NewAddrs(s, d)[fp]
           g == CHOOSE g \in Unique(s, d) : NewAddrs(s, d)[g] = a
<1>1. a \in Range(NewAddrs(s, d))
  BY NewAddrsDomain DEF Range
<1>2. \E h \in Unique(s, d) : NewAddrs(s, d)[h] = a
  OBVIOUS
<1>3. g \in Unique(s, d) /\ NewAddrs(s, d)[g] = NewAddrs(s, d)[fp]
  BY <1>2
<1>4. g = fp
  <2> HIDE DEF g
  <2> QED
    BY <1>3, NewAddrsInjective
<1>5. a \in DOMAIN Added(s, d) /\ Added(s, d)[a] = [fp |-> g, key |-> enclaveKey]
  BY <1>1 DEF Added
<1> QED
  BY <1>4, <1>5

LEMMA DedupPendingDomain ==
    ASSUME NEW S, NEW s \in Seq(S), NEW d, addresses \in Nat, Dedup(s, d), NEW a \in DOMAIN pending'
    PROVE  a \in DOMAIN pending \/ a \in addresses + 1 .. addresses'
<1>1. a \in DOMAIN pending \/ a \in DOMAIN Added(s, d)
  BY DedupPending DEF Insert
<1> QED
  BY <1>1, AddedDomain, DedupAddresses

LEMMA DedupPendingOld ==
    ASSUME NEW s, NEW d, Dedup(s, d), NEW a \in DOMAIN pending
    PROVE  a \in DOMAIN pending' /\ pending'[a] = pending[a]
BY DedupPending DEF Insert

LEMMA DedupPendingNew ==
    ASSUME NEW S, NEW s \in Seq(S), NEW d, addresses \in Nat, DOMAIN pending \subseteq 1 .. addresses,
           Dedup(s, d), NEW fp \in Unique(s, d)
    PROVE  /\ NewAddrs(s, d)[fp] \in DOMAIN pending'
           /\ pending'[NewAddrs(s, d)[fp]] = [fp |-> fp, key |-> enclaveKey]
<1> DEFINE a == NewAddrs(s, d)[fp]
<1>1. a \in addresses + 1 .. addresses + Cardinality(Unique(s, d)) /\ Cardinality(Unique(s, d)) \in Nat
  BY NewAddrsRange, UniqueFinite
<1>2. a \notin DOMAIN pending
  BY <1>1
<1>3. a \in DOMAIN Added(s, d) /\ Added(s, d)[a] = [fp |-> fp, key |-> enclaveKey]
  BY AddedIs
<1> HIDE DEF a
<1>4. a \in DOMAIN Insert(pending, Added(s, d)) /\ Insert(pending, Added(s, d))[a] = Added(s, d)[a]
  BY <1>2, <1>3 DEF Insert
<1> QED
  BY <1>3, <1>4, DedupPending DEF a

(* The recipe entry for a chunk of s. *)
EntryOf(s, d, fp) == IF fp \in DOMAIN d THEN d[fp] ELSE NewAddrs(s, d)[fp]

LEMMA EntryIs ==
    ASSUME NEW s, NEW d, NEW fp \in Range(s)
    PROVE  /\ fp \in DOMAIN Insert(d, NewAddrs(s, d))
           /\ Insert(d, NewAddrs(s, d))[fp] = EntryOf(s, d, fp)
<1>1. fp \notin DOMAIN d => fp \in DOMAIN NewAddrs(s, d)
  BY NewAddrsDomain DEF Unique
<1> QED
  BY <1>1 DEF EntryOf, Insert

LEMMA DedupEntries ==
    ASSUME NEW S, NEW s \in Seq(S), NEW d, Sequence(entries), Dedup(s, d)
    PROVE  /\ Sequence(entries')
           /\ Len(entries') = Len(entries) + Len(s)
           /\ \A n \in 1 .. Len(entries) : entries'[n] = entries[n]
           /\ \A n \in 1 .. Len(s) : entries'[Len(entries) + n] = EntryOf(s, d, s[n])
<1> DEFINE e == [n \in DOMAIN s |-> Insert(d, NewAddrs(s, d))[s[n]]]
           T == Range(entries) \cup Range(e)
<1>1. entries' = entries \o e
  BY DEF Dedup
<1>2. DOMAIN s = 1 .. Len(s) /\ Len(s) \in Nat
  OBVIOUS
<1>3. \A n \in 1 .. Len(s) : e[n] = EntryOf(s, d, s[n])
  <2>1. \A n \in 1 .. Len(s) : s[n] \in Range(s)
    BY <1>2 DEF Range
  <2>2. \A n \in 1 .. Len(s) : e[n] = Insert(d, NewAddrs(s, d))[s[n]]
    BY <1>2
  <2> QED
    BY <2>1, <2>2, EntryIs
<1>4. DOMAIN e = 1 .. Len(s)
  BY <1>2
<1> HIDE DEF e
<1>5. e \in Seq(T) /\ Len(e) = Len(s)
  <2>1. e \in [1 .. Len(s) -> T]
    <3>1. e = [n \in 1 .. Len(s) |-> e[n]]
      BY <1>2 DEF e
    <3>2. \A n \in 1 .. Len(s) : e[n] \in T
      BY <1>4 DEF Range
    <3> QED
      BY <3>1, <3>2
  <2> QED
    BY <2>1, <1>2
<1>6. entries \in Seq(T)
  <2>1. entries \in Seq(Range(entries)) /\ Range(entries) \subseteq T
    BY DEF Sequence
  <2> QED
    BY <2>1, SeqMonotonic
<1> HIDE DEF T
<1>7. /\ entries \o e \in Seq(T) /\ Len(entries \o e) = Len(entries) + Len(e)
      /\ \A i \in 1 .. Len(entries) + Len(e) :
            (entries \o e)[i] = IF i <= Len(entries) THEN entries[i] ELSE e[i - Len(entries)]
  BY <1>5, <1>6, ConcatProperties
<1>8. Len(entries) \in Nat
  BY <1>6
<1>9. ASSUME NEW n \in 1 .. Len(entries) PROVE (entries \o e)[n] = entries[n]
  <2>1. n \in 1 .. Len(entries) + Len(e) /\ n <= Len(entries)
    BY <1>8, <1>5, <1>2
  <2> QED
    BY <2>1, <1>7
<1>10. ASSUME NEW n \in 1 .. Len(s) PROVE (entries \o e)[Len(entries) + n] = EntryOf(s, d, s[n])
  <2>1. /\ Len(entries) + n \in 1 .. Len(entries) + Len(e) /\ ~(Len(entries) + n <= Len(entries))
        /\ (Len(entries) + n) - Len(entries) = n
    BY <1>8, <1>5, <1>2
  <2> QED
    BY <2>1, <1>7, <1>3
<1>11. Sequence(entries')
  BY <1>1, <1>7, SequenceIs
<1> QED
  BY <1>1, <1>5, <1>7, <1>9, <1>10, <1>11
-----------------------------------------------------------------------------
(* Basics is inductive.                                                     *)

LEMMA Processed == ASSUME NEW s, ProcessOneSegment(s) PROVE \E d : Dedup(s, d)
<1>1. CASE ExtremeSegment(s)
  BY <1>1 DEF ExtremeSegment
<1>2. CASE SparseSegment(s)
  BY <1>2 DEF SparseSegment
<1> QED
  BY <1>1, <1>2 DEF ProcessOneSegment

LEMMA Looked == ASSUME DirectChunk PROVE \E d : Dedup(<<Chunk>>, d)
<1>1. CASE InEnclaveChunk(Chunk)
  BY <1>1 DEF InEnclaveChunk
<1>2. CASE OutEnclaveChunk(Chunk)
  BY <1>2 DEF OutEnclaveChunk
<1>3. CASE FreqChunk(Chunk)
  BY <1>3 DEF FreqChunk
<1> QED
  BY <1>1, <1>2, <1>3 DEF DirectChunk

LEMMA ChunkIs ==
    ASSUME Position, Receiving
    PROVE  /\ uploading \in Files /\ uploading \in Seq(Fp) /\ received + 1 \in 1 .. Len(uploading)
           /\ Chunk \in Fp
           /\ ChunkSize[Chunk] \in 1 .. MIN_SEGMENT_SIZE - 1
<1>1. uploading \in Files /\ uploading \in Seq(Fp)
  BY IndexAssumption DEF Position, Receiving
<1>2. received \in Nat /\ received < Len(uploading) /\ Len(uploading) \in Nat
  BY <1>1 DEF Position, Receiving
<1>3. received + 1 \in 1 .. Len(uploading)
  BY <1>2
<1>4. uploading[received + 1] \in Fp
  BY <1>1, <1>3
<1> QED
  BY <1>1, <1>3, <1>4, IndexAssumption DEF Chunk

LEMMA EmptySegmentOK == EmptySegment.chunks = << >> /\ EmptySegment.size = 0
BY DEF EmptySegment

LEMMA SegmentStep ==
    ASSUME SegmentOK, Position, [Next]_vars
    PROVE  SegmentOK'
<1>1. CASE segment' = segment
  BY <1>1 DEF SegmentOK, SegmentWithinBuffer
<1>2. CASE segment' = EmptySegment
  BY <1>2, EmptySegmentOK, IndexAssumption DEF SegmentOK, SegmentWithinBuffer
<1>3. CASE BufferChunk
  <2>1. /\ segment'.chunks = Append(segment.chunks, Chunk)
        /\ segment'.size = segment.size + ChunkSize[Chunk]
    BY <1>3 DEF BufferChunk, AddToSegment
  <2>2. Chunk \in Fp /\ ChunkSize[Chunk] \in Nat
    BY <1>3, ChunkIs, IndexAssumption DEF BufferChunk
  <2>3. ~(Len(segment.chunks) + 1 > MaxSegmentChunkNum)
    BY <1>3 DEF BufferChunk, IsEndOfSegment
  <2>4. LET size == segment.size + ChunkSize[Chunk] IN ~(size >= MIN_SEGMENT_SIZE /\ size > MAX_SEGMENT_SIZE)
    BY <1>3 DEF BufferChunk, IsEndOfSegment
  <2>5. segment.chunks \in Seq(Fp) /\ segment.size \in Nat
    BY DEF SegmentOK
  <2>6. segment'.chunks \in Seq(Fp) /\ Len(segment'.chunks) = Len(segment.chunks) + 1
    BY <2>1, <2>2, <2>5
  <2>7. segment'.size \in Nat /\ segment'.size <= MAX_SEGMENT_SIZE
    BY <2>1, <2>2, <2>4, <2>5, IndexAssumption
  <2>8. Len(segment'.chunks) <= MaxSegmentChunkNum
    BY <2>3, <2>5, <2>6, IndexAssumption
  <2> QED
    BY <2>6, <2>7, <2>8 DEF SegmentOK, SegmentWithinBuffer
<1>4. CASE SegmentEnd
  <2>1. segment'.chunks = <<Chunk>> /\ segment'.size = 0 + ChunkSize[Chunk]
    BY <1>4 DEF SegmentEnd, AddToSegment, EmptySegment
  <2>2. Chunk \in Fp /\ ChunkSize[Chunk] \in 1 .. MIN_SEGMENT_SIZE - 1
    BY <1>4, ChunkIs DEF SegmentEnd
  <2>3. segment'.size \in Nat /\ segment'.size <= MAX_SEGMENT_SIZE
    BY <2>1, <2>2, IndexAssumption
  <2>4. segment'.chunks \in Seq(Fp) /\ Len(segment'.chunks) = 1
    BY <2>1, <2>2
  <2> QED
    BY <2>3, <2>4, IndexAssumption DEF SegmentOK, SegmentWithinBuffer
<1>5. BufferChunk \/ SegmentEnd \/ segment' = segment \/ segment' = EmptySegment
  BY DEF Next, vars, session, Boot, SealIndex, SaveKeys, SaveDatabase, BeginUpload, DirectChunk,
         RecipeEnd, EndUpload, Abort, Crash, ExitMissing, Die, NoSession
<1> QED
  BY <1>1, <1>2, <1>3, <1>4, <1>5

(* What NoSession leaves. *)
LEMMA NoSessionIs ==
    ASSUME NoSession
    PROVE  /\ uploading' = None /\ received' = 0 /\ segment' = EmptySegment /\ entries' = << >>
           /\ Sequence(entries') /\ DOMAIN pending' = {}
<1>1. << >> \in Seq({})
  OBVIOUS
<1>2. Sequence(<< >>)
  BY <1>1, SequenceIs
<1> QED
  BY <1>2 DEF NoSession

LEMMA PositionStep ==
    ASSUME SegmentOK, Position, [Next]_vars
    PROVE  Position'
<1> USE DEF Segmented
<1>0. None \notin Files
  BY IndexAssumption
<1>1. CASE UNCHANGED <<session, recipes, kind>> /\ (phase' = "running" \/ uploading = None)
  BY <1>1 DEF Position, session
<1>2. ASSUME NEW f \in Files, BeginUpload(f) PROVE Position'
  <2>1. /\ uploading = None /\ uploading' = f /\ phase' = "running" /\ UNCHANGED <<received, segment, entries, kind>>
        /\ DOMAIN recipes' = DOMAIN recipes \ {f}
    BY <1>2, WithoutDomain DEF BeginUpload
  <2>2. received' = 0 /\ segment' = EmptySegment /\ entries' = << >> /\ Sequence(entries')
    BY <2>1 DEF Position
  <2>3. f \in Seq(Fp) /\ Len(f) \in Nat
    BY IndexAssumption
  <2>4. Len(entries') = 0 /\ Len(segment'.chunks) = 0
    BY <2>2, EmptySegmentOK
  <2> QED
    BY <2>1, <2>2, <2>3, <2>4, <1>0 DEF Position
<1>3. CASE NoSession /\ UNCHANGED <<recipes, kind>>
  BY <1>3, <1>0, NoSessionIs DEF Position
<1>4. CASE DirectChunk
  <2>1. /\ uploading \in Files /\ received < Len(uploading) /\ ~Segmented
        /\ UNCHANGED <<uploading, segment, recipes, kind, phase>> /\ received' = received + 1
    BY <1>4, ChunkIs DEF DirectChunk, Receiving, InEnclaveChunk, OutEnclaveChunk, FreqChunk
  <2>2. PICK d : Dedup(<<Chunk>>, d)
    BY <1>4, Looked
  <2>3. <<Chunk>> \in Seq({Chunk}) /\ Len(<<Chunk>>) = 1
    OBVIOUS
  <2>4. Sequence(entries') /\ Len(entries') = Len(entries) + 1
    BY <2>2, <2>3, DedupEntries DEF Position
  <2>5. segment = EmptySegment /\ Len(segment.chunks) = 0 /\ Len(entries) \in Nat
    BY <2>1, EmptySegmentOK DEF Position, Sequence
  <2>6. uploading \in Seq(Fp) /\ Len(uploading) \in Nat
    BY <2>1, IndexAssumption
  <2>7. received \in Nat /\ uploading \notin DOMAIN recipes /\ Len(entries) = received
    BY <2>1, <2>5, <2>6, <1>0 DEF Position
  <2>8. received' \in Nat /\ received' <= Len(uploading') /\ Len(entries') + Len(segment'.chunks) = received'
    BY <2>1, <2>4, <2>5, <2>6, <2>7
  <2>9. uploading' # None /\ uploading' \notin DOMAIN recipes' /\ uploading' \in Files
    BY <2>1, <2>7, <1>0
  <2>10. \A m \in 1 .. Len(segment'.chunks) : segment'.chunks[m] = uploading'[Len(entries') + m]
    BY <2>1, <2>5
  <2>11. phase' = "running" /\ segment' = EmptySegment /\ DOMAIN recipes' \subseteq Files
    BY <2>1, <2>5, <1>4 DEF DirectChunk, Receiving, Position
  <2> QED
    BY <2>4, <2>8, <2>9, <2>10, <2>11 DEF Position
<1>5. CASE BufferChunk
  <2>1. /\ uploading \in Files /\ uploading \in Seq(Fp) /\ received < Len(uploading) /\ Segmented
        /\ UNCHANGED <<uploading, entries, recipes, kind, phase>> /\ received' = received + 1
        /\ segment'.chunks = Append(segment.chunks, Chunk) /\ phase = "running"
        /\ Chunk = uploading[received + 1]
    BY <1>5, ChunkIs DEF BufferChunk, Receiving, AddToSegment, Chunk
  <2>2. segment.chunks \in Seq(Fp) /\ Chunk \in Fp /\ Len(entries) \in Nat /\ Len(uploading) \in Nat
    BY <1>5, <2>1, ChunkIs DEF BufferChunk, SegmentOK, Position, Sequence
  <2>3. /\ Len(segment'.chunks) = Len(segment.chunks) + 1
        /\ \A m \in 1 .. Len(segment.chunks) : segment'.chunks[m] = segment.chunks[m]
        /\ segment'.chunks[Len(segment.chunks) + 1] = Chunk
    BY <2>1, <2>2
  <2>4. /\ received \in Nat /\ uploading \notin DOMAIN recipes
        /\ Len(entries) + Len(segment.chunks) = received
        /\ \A m \in 1 .. Len(segment.chunks) : segment.chunks[m] = uploading[Len(entries) + m]
    BY <2>1, <2>2, <1>0 DEF Position
  <2>5. Len(segment.chunks) \in Nat
    BY <2>2
  <2>6. received' \in Nat /\ received' <= Len(uploading') /\ Len(entries') + Len(segment'.chunks) = received'
    <3>1. received' = received + 1 /\ uploading' = uploading /\ entries' = entries /\ received < Len(uploading)
      BY <2>1
    <3> QED
      BY <3>1, <2>2, <2>3, <2>4, <2>5
  <2>7. ASSUME NEW m \in 1 .. Len(segment'.chunks)
        PROVE segment'.chunks[m] = uploading'[Len(entries') + m]
    <3>1. m \in 1 .. Len(segment.chunks) \/ (m = Len(segment.chunks) + 1 /\ Len(entries) + m = received + 1)
      BY <2>3, <2>4, <2>5, <2>2
    <3> QED
      BY <3>1, <2>1, <2>3, <2>4
  <2> QED
    BY <2>1, <2>4, <2>6, <2>7, <1>0 DEF Position
<1>6. CASE SegmentEnd
  <2>1. /\ uploading \in Files /\ uploading \in Seq(Fp) /\ received < Len(uploading) /\ Segmented
        /\ UNCHANGED <<uploading, recipes, kind, phase>> /\ received' = received + 1
        /\ segment'.chunks = <<Chunk>> /\ phase = "running" /\ Chunk = uploading[received + 1]
        /\ ProcessOneSegment(segment.chunks)
    BY <1>6, ChunkIs DEF SegmentEnd, Receiving, AddToSegment, EmptySegment, Chunk
  <2>2. segment.chunks \in Seq(Fp) /\ Sequence(entries) /\ Len(entries) \in Nat /\ Len(uploading) \in Nat
    BY <2>1 DEF SegmentOK, Position, Sequence
  <2>3. PICK d : Dedup(segment.chunks, d)
    BY <2>1, Processed
  <2>4. Sequence(entries') /\ Len(entries') = Len(entries) + Len(segment.chunks)
    BY <2>2, <2>3, DedupEntries
  <2>5. received \in Nat /\ uploading \notin DOMAIN recipes /\ Len(entries) + Len(segment.chunks) = received
    BY <2>1, <2>2, <1>0 DEF Position
  <2>6. /\ Len(segment'.chunks) = 1 /\ Len(entries') = received
        /\ \A m \in 1 .. Len(segment'.chunks) : segment'.chunks[m] = uploading'[Len(entries') + m]
    BY <2>1, <2>4, <2>5
  <2>7. received' \in Nat /\ received' <= Len(uploading') /\ Len(entries') + Len(segment'.chunks) = received'
    BY <2>1, <2>2, <2>5, <2>6
  <2>8. DOMAIN recipes' \subseteq Files /\ uploading' # None /\ uploading' \notin DOMAIN recipes'
    BY <2>1, <2>5, <1>0 DEF Position
  <2> QED
    BY <2>1, <2>4, <2>6, <2>7, <2>8 DEF Position
<1>7. CASE RecipeEnd
  <2>1. /\ uploading \in Files /\ uploading \in Seq(Fp) /\ received = Len(uploading) /\ uploading \notin DOMAIN recipes
        /\ UNCHANGED <<uploading, kind, phase, received>>
        /\ segment' = EmptySegment /\ phase = "running"
        /\ recipes' = Insert(recipes, Single(uploading, entries'))
    BY <1>7, IndexAssumption DEF RecipeEnd, AtRecipeEnd, Position
  <2>2. /\ segment.chunks \in Seq(Fp) /\ Sequence(entries) /\ Len(entries) \in Nat /\ Len(uploading) \in Nat
        /\ Len(entries) + Len(segment.chunks) = received /\ received \in Nat
    BY <2>1, <1>0 DEF SegmentOK, Position, Sequence
  <2>3. Sequence(entries') /\ Len(entries') = received
    <3>1. CASE segment.chunks # << >>
      <4>1. PICK d : Dedup(segment.chunks, d)
        BY <1>7, <3>1, Processed DEF RecipeEnd
      <4> QED
        BY <4>1, <2>2, DedupEntries
    <3>2. CASE segment.chunks = << >>
      <4>1. entries' = entries /\ Len(segment.chunks) = 0
        BY <1>7, <3>2 DEF RecipeEnd
      <4> QED
        BY <4>1, <2>2
    <3> QED
      BY <3>1, <3>2
  <2>4. DOMAIN recipes' = DOMAIN recipes \cup {uploading} /\ recipes'[uploading] = entries'
    BY <2>1 DEF Insert, Single
  <2>5. DOMAIN recipes' \subseteq Files /\ uploading' # None
    BY <2>1, <2>4, <1>0 DEF Position
  <2>6. Len(segment'.chunks) = 0
    BY <2>1, EmptySegmentOK
  <2> QED
    BY <2>1, <2>2, <2>3, <2>4, <2>5, <2>6 DEF Position
<1>8. CASE Boot \/ SealIndex \/ SaveKeys \/ SaveDatabase \/ UNCHANGED vars
  <2>1. UNCHANGED <<session, recipes, kind>> /\ (phase' = "running" \/ uploading = None)
    BY <1>8 DEF Position, vars, Boot, SealIndex, SaveKeys, SaveDatabase
  <2> QED
    BY <2>1, <1>1
<1>9. CASE EndUpload \/ Abort \/ Crash \/ ExitMissing
  <2>1. NoSession /\ UNCHANGED <<recipes, kind>>
    BY <1>9 DEF EndUpload, Abort, Crash, ExitMissing, Die
  <2> QED
    BY <2>1, <1>3
<1> QED
  BY <1>2, <1>4, <1>5, <1>6, <1>7, <1>8, <1>9 DEF Next

LEMMA AddressesStep ==
    ASSUME SegmentOK, Position, Addresses, [Next]_vars
    PROVE  Addresses'
<1> DEFINE quiet == UNCHANGED <<addresses, containers, pending, uploading>>
<1>0. addresses \in Nat /\ ids \in Nat /\ boots \in Nat
  BY DEF Addresses
<1>1. ids' \in Nat /\ boots' \in Nat
  <2>1. ASSUME NEW s, ProcessOneSegment(s) PROVE ids' = ids \/ ids' = ids + 1
    BY <2>1 DEF ProcessOneSegment, ExtremeSegment, SparseSegment
  <2>2. ids' = ids \/ ids' = ids + 1
    <3>1. CASE SegmentEnd \/ RecipeEnd
      BY <2>1, <3>1 DEF SegmentEnd, RecipeEnd
    <3>2. CASE UNCHANGED vars \/ Boot \/ SealIndex \/ SaveKeys \/ SaveDatabase
      BY <3>2 DEF vars, counts, Boot, SealIndex, SaveKeys, SaveDatabase
    <3>3. CASE (\E f \in Files : BeginUpload(f)) \/ DirectChunk \/ BufferChunk \/ EndUpload
      BY <3>3 DEF BeginUpload, DirectChunk, BufferChunk, EndUpload, counts
    <3>4. CASE Abort \/ Crash \/ ExitMissing
      BY <3>4 DEF Abort, Crash, ExitMissing, Die
    <3> QED
      BY <3>1, <3>2, <3>3, <3>4 DEF Next
  <2>3. boots' = boots \/ boots' = boots + 1
    <3>1. CASE SegmentEnd \/ RecipeEnd
      BY <3>1 DEF SegmentEnd, RecipeEnd
    <3>2. CASE UNCHANGED vars \/ Boot \/ SealIndex \/ SaveKeys \/ SaveDatabase
      BY <3>2 DEF vars, counts, Boot, SealIndex, SaveKeys, SaveDatabase
    <3>3. CASE (\E f \in Files : BeginUpload(f)) \/ DirectChunk \/ BufferChunk \/ EndUpload
      BY <3>3 DEF BeginUpload, DirectChunk, BufferChunk, EndUpload, counts
    <3>4. CASE Abort \/ Crash \/ ExitMissing
      BY <3>4 DEF Abort, Crash, ExitMissing, Die
    <3> QED
      BY <3>1, <3>2, <3>3, <3>4 DEF Next
  <2> QED
    BY <1>0, <2>2, <2>3
<1>2. CASE quiet
  BY <1>1, <1>2 DEF Addresses
<1>3. ASSUME NEW s, NEW d, s \in Seq(Fp) \/ s \in Seq({Chunk}), Dedup(s, d), UNCHANGED containers,
             uploading # None, UNCHANGED uploading
      PROVE  Addresses'
  <2>1. addresses' \in Nat /\ addresses <= addresses'
    BY <1>0, <1>3, DedupAddresses
  <2>2. \A a \in DOMAIN pending' : a \in DOMAIN pending \/ a \in addresses + 1 .. addresses'
    BY <1>0, <1>3, DedupPendingDomain
  <2>3. DOMAIN pending' \subseteq 1 .. addresses' /\ DOMAIN containers \cap DOMAIN pending' = {}
    BY <1>0, <2>1, <2>2 DEF Addresses
  <2> QED
    BY <1>0, <1>1, <1>3, <2>1, <2>3 DEF Addresses
<1>4. CASE DirectChunk
  <2>1. PICK d : Dedup(<<Chunk>>, d)
    BY <1>4, Looked
  <2>2. <<Chunk>> \in Seq({Chunk})
    OBVIOUS
  <2>3. UNCHANGED <<containers, uploading>> /\ uploading # None
    BY <1>4 DEF DirectChunk, Receiving
  <2> QED
    BY <1>3, <2>1, <2>2, <2>3
<1>5. CASE SegmentEnd
  <2>1. PICK d : Dedup(segment.chunks, d)
    BY <1>5, Processed DEF SegmentEnd
  <2>2. segment.chunks \in Seq(Fp)
    BY DEF SegmentOK
  <2>3. UNCHANGED <<containers, uploading>> /\ uploading # None
    BY <1>5 DEF SegmentEnd, Receiving
  <2> QED
    BY <1>3, <2>1, <2>2, <2>3
<1>6. CASE RecipeEnd
  <2>1. UNCHANGED <<containers, uploading>> /\ uploading # None
    BY <1>6 DEF RecipeEnd, AtRecipeEnd
  <2>2. CASE segment.chunks # << >>
    <3>1. PICK d : Dedup(segment.chunks, d)
      BY <1>6, <2>2, Processed DEF RecipeEnd
    <3>2. segment.chunks \in Seq(Fp)
      BY DEF SegmentOK
    <3> QED
      BY <1>3, <2>1, <3>1, <3>2
  <2>3. CASE segment.chunks = << >>
    BY <1>2, <1>6, <2>1, <2>3 DEF RecipeEnd
  <2> QED
    BY <2>2, <2>3
<1>7. CASE EndUpload
  <2>1. /\ containers' = Insert(containers, pending) /\ UNCHANGED addresses /\ NoSession
    BY <1>7 DEF EndUpload, counts
  <2>2. DOMAIN containers' = DOMAIN containers \cup DOMAIN pending
    BY <2>1 DEF Insert
  <2> QED
    BY <1>1, <2>1, <2>2, NoSessionIs DEF Addresses
<1>8. CASE Abort \/ Crash \/ ExitMissing
  <2>1. SaveSome /\ UNCHANGED addresses /\ NoSession
    BY <1>8 DEF Abort, Crash, ExitMissing, Die
  <2>2. PICK n \in 0 .. addresses :
            containers' = Insert(containers, Restrict(pending, {a \in DOMAIN pending : a <= n}))
    BY <2>1 DEF SaveSome
  <2>3. DOMAIN containers' \subseteq DOMAIN containers \cup DOMAIN pending
    BY <2>2 DEF Insert, Restrict
  <2> QED
    BY <1>1, <2>1, <2>3, NoSessionIs DEF Addresses
<1>9. CASE Boot \/ SealIndex \/ SaveKeys \/ SaveDatabase \/ BufferChunk \/ UNCHANGED vars
  BY <1>2, <1>9 DEF vars, session, counts, Boot, SealIndex, SaveKeys, SaveDatabase, BufferChunk
<1>10. ASSUME NEW f \in Files, BeginUpload(f) PROVE Addresses'
  <2>1. UNCHANGED <<addresses, containers, pending>> /\ uploading = None
    BY <1>10 DEF BeginUpload
  <2> QED
    BY <1>1, <2>1 DEF Addresses
<1> QED
  BY <1>4, <1>5, <1>6, <1>7, <1>8, <1>9, <1>10 DEF Next

LEMMA KeysStep ==
    ASSUME Addresses, Keys, [Next]_vars
    PROVE  Keys'
<1> DEFINE quiet == UNCHANGED <<phase, enclaveKey, sealedKey, firstBootstrap, damage>>
<1>0. addresses \in Nat /\ boots \in Nat /\ None \notin Nat
  BY IndexAssumption DEF Addresses
<1>1. CASE quiet /\ phase = "running"
  BY <1>1 DEF Keys
<1>2. CASE DirectChunk \/ BufferChunk \/ SegmentEnd \/ RecipeEnd \/ EndUpload \/ (\E f \in Files : BeginUpload(f))
  BY <1>1, <1>2 DEF DirectChunk, BufferChunk, SegmentEnd, RecipeEnd, EndUpload, BeginUpload, Receiving,
         AtRecipeEnd, memory, disk, history
<1>3. CASE UNCHANGED vars
  BY <1>3 DEF vars, memory, disk, counts, history, Keys
<1>4. CASE Boot
  <2>1. /\ phase' = "running" /\ firstBootstrap' = (sealedKey = None) /\ UNCHANGED sealedKey
        /\ enclaveKey' = IF sealedKey = None THEN boots + 1 ELSE sealedKey
    BY <1>4 DEF Boot, disk
  <2>2. boots + 1 \in Nat /\ boots + 1 # None
    BY <1>0
  <2> QED
    BY <2>1, <2>2 DEF Keys
<1>5. CASE SealIndex
  BY <1>5 DEF SealIndex, Keys, memory, counts, history
<1>6. CASE SaveKeys
  BY <1>6 DEF SaveKeys, Keys, memory, counts, history
<1>7. CASE SaveDatabase
  BY <1>7 DEF SaveDatabase, MemoryGone, Keys, counts
<1>8. CASE Abort
  BY <1>8 DEF Abort, Keys, memory, disk
<1>9. CASE Crash \/ ExitMissing
  <2>1. Die
    BY <1>9 DEF Crash, ExitMissing
  <2>2. /\ phase' = "off" /\ enclaveKey' = None /\ UNCHANGED <<sealedKey, addresses>>
        /\ sealedKey = None /\ addresses > 0 => "keyLost" \in damage'
    BY <2>1 DEF Die, MemoryGone, disk
  <2>3. addresses > 0 \/ addresses = 0
    BY <1>0
  <2> QED
    BY <2>2, <2>3 DEF Keys
<1> QED
  BY <1>2, <1>3, <1>4, <1>5, <1>6, <1>7, <1>8, <1>9 DEF Next
-----------------------------------------------------------------------------
(* From one life to the next.                                               *)

LEMMA LoadedKept == ASSUME UNCHANGED <<kind, sealedIndex>> PROVE LoadedIndex' = LoadedIndex
BY DEF LoadedIndex

LEMMA StoreKept == ASSUME UNCHANGED dbFile PROVE LoadedStore' = LoadedStore
BY DEF LoadedStore

LEMMA Booted ==
    ASSUME Boot
    PROVE  /\ index' = LoadedIndex /\ indexStore' = LoadedStore
           /\ LoadedIndex' = LoadedIndex /\ LoadedStore' = LoadedStore
BY LoadedKept, StoreKept DEF Boot, LoadedIndex, LoadedStore, disk

LEMMA Sealed ==
    ASSUME IndexTypes, SealIndex, kind \in {"IN_ENCLAVE", "FREQ_INDEX", "EXTREME_BIN"}
    PROVE  Same(LoadedIndex', index)
<1>1. kind' = kind
  BY DEF SealIndex
<1>2. CASE kind = "IN_ENCLAVE"
  <2>1. sealedIndex' = PersistDedupIndex
    BY <1>2 DEF SealIndex
  <2>2. sealedIndex' # << >>
    BY <2>1 DEF PersistDedupIndex
  <2>3. LoadedIndex' = LoadDedupIndex(PersistDedupIndex[1])
    BY <1>1, <1>2, <2>1, <2>2 DEF LoadedIndex, LoadDedupIndex
  <2> QED
    BY <1>2, <2>3, DedupIndexBack DEF IndexTypes
<1>3. CASE kind = "FREQ_INDEX"
  <2>1. sealedIndex' = PersistFreqIndex
    BY <1>3 DEF SealIndex
  <2>2. sealedIndex' # << >>
    BY <2>1 DEF PersistFreqIndex
  <2>3. LoadedIndex' = LoadFreqIndex(PersistFreqIndex[1])
    BY <1>1, <1>3, <2>1, <2>2 DEF LoadedIndex, LoadFreqIndex
  <2> QED
    BY <1>3, <2>3, FreqIndexBack DEF IndexTypes
<1>4. CASE kind = "EXTREME_BIN" /\ index # << >>
  <2>1. sealedIndex' = <<Pairs(index)>>
    BY <1>4 DEF SealIndex, PersistPrimaryIndex
  <2>2. sealedIndex' # << >> /\ sealedIndex'[1] = Pairs(index)
    BY <2>1
  <2>3. LoadedIndex' = FromPairs(Pairs(index))
    BY <1>1, <1>4, <2>1, <2>2 DEF LoadedIndex, LoadPrimaryIndex
  <2> QED
    BY <2>3, PairsBack
<1>5. CASE kind = "EXTREME_BIN" /\ index = << >>
  <2>1. sealedIndex' = sealedIndex
    BY <1>5 DEF SealIndex, PersistPrimaryIndex
  <2>2. LoadedIndex' = LoadedIndex
    BY <1>1, <2>1, LoadedKept
  <2>3. DOMAIN LoadedIndex \subseteq DOMAIN index /\ DOMAIN index = {}
    BY <1>5 DEF IndexTypes, SealIndex
  <2> QED
    BY <2>2, <2>3 DEF Same
<1> QED
  BY <1>2, <1>3, <1>4, <1>5

LEMMA Stored == ASSUME SaveDatabase PROVE Same(LoadedStore', indexStore)
<1>1. LoadedStore' = FromPairs(Pairs(indexStore))
  BY DEF SaveDatabase, LoadedStore, OpenDB, PersistDB
<1> QED
  BY <1>1, PairsBack

LEMMA InsertFinite ==
    ASSUME NEW f, NEW g, IsFiniteSet(DOMAIN f), IsFiniteSet(DOMAIN g)
    PROVE  IsFiniteSet(DOMAIN Insert(f, g))
<1>1. IsFiniteSet(DOMAIN f \cup DOMAIN g)
  BY FS_Union
<1> QED
  BY <1>1, InsertDomain

LEMMA IndexTypesStep ==
    ASSUME SegmentOK, Position, IndexTypes, [Next]_vars
    PROVE  IndexTypes'
<1>0. kind' = kind
  BY DEF Next, vars, Boot, SealIndex, SaveKeys, SaveDatabase, BeginUpload, DirectChunk,
         BufferChunk, SegmentEnd, RecipeEnd, EndUpload, Abort, Crash, ExitMissing, Die
<1>1. CASE UNCHANGED <<index, sealedIndex>> /\ (phase' = phase \/ phase' # "running")
  BY <1>0, <1>1, LoadedKept DEF IndexTypes
<1>2. CASE index' = << >> /\ UNCHANGED sealedIndex /\ phase' # "running"
  <2>1. IsFiniteSet(DOMAIN index')
    BY <1>2, FS_EmptySet, EmptyDomain
  <2> QED
    BY <1>0, <1>2, <2>1, LoadedKept DEF IndexTypes
<1>3. CASE Boot
  BY <1>0, <1>3, Booted DEF IndexTypes
<1>4. CASE SealIndex
  <2>1. kind \in {"IN_ENCLAVE", "FREQ_INDEX"} => DOMAIN LoadedIndex' = DOMAIN index
    BY <1>4, Sealed DEF Same
  <2>2. index' = index /\ phase' # "running"
    BY <1>4 DEF SealIndex, memory
  <2> QED
    BY <1>0, <2>1, <2>2 DEF IndexTypes
<1>5. CASE DirectChunk
  <2>1. UNCHANGED <<sealedIndex, phase>> /\ kind # "EXTREME_BIN"
    BY <1>5 DEF DirectChunk, disk, InEnclaveChunk, OutEnclaveChunk, FreqChunk
  <2>2. <<Chunk>> \in Seq({Chunk})
    OBVIOUS
  <2>3. \A d : IsFiniteSet(DOMAIN NewAddrs(<<Chunk>>, d))
    BY <2>2, UniqueFinite, NewAddrsDomain
  <2>4. CASE InEnclaveChunk(Chunk)
    <3>1. index' = Insert(index, NewAddrs(<<Chunk>>, index)) /\ IsFiniteSet(DOMAIN index)
      BY <2>4 DEF InEnclaveChunk, IndexTypes
    <3>2. IsFiniteSet(DOMAIN index')
      BY <3>1, <2>3, InsertFinite
    <3> QED
      BY <1>0, <2>1, <3>2, LoadedKept DEF IndexTypes
  <2>5. CASE OutEnclaveChunk(Chunk)
    BY <1>0, <2>1, <2>5, LoadedKept DEF IndexTypes, OutEnclaveChunk
  <2>6. CASE FreqChunk(Chunk)
    <3>1. IsFiniteSet(DOMAIN index)
      BY <2>6 DEF FreqChunk, IndexTypes
    <3>2. ASSUME NEW v PROVE IsFiniteSet(DOMAIN Single(Chunk, v))
      <4>1. DOMAIN Single(Chunk, v) = {Chunk}
        BY SingleIs
      <4> QED
        BY <4>1, FS_Singleton
    <3>3. ASSUME NEW out PROVE IsFiniteSet(DOMAIN Without(index, out))
      <4>1. DOMAIN Without(index, out) = DOMAIN index \ {out}
        BY WithoutDomain
      <4> QED
        BY <3>1, <4>1, FS_RemoveElement
    <3>4. \/ index' = index
          \/ \E v : index' = Insert(index, Single(Chunk, v))
          \/ \E out, v : index' = Insert(Without(index, out), Single(Chunk, v))
      BY <2>6 DEF FreqChunk
    <3>5. IsFiniteSet(DOMAIN index')
      BY <3>1, <3>2, <3>3, <3>4, InsertFinite
    <3> QED
      BY <1>0, <2>1, <3>5, LoadedKept DEF IndexTypes
  <2> QED
    BY <1>5, <2>4, <2>5, <2>6 DEF DirectChunk
<1>6. CASE SegmentEnd \/ (RecipeEnd /\ segment.chunks # << >>)
  <2>1. UNCHANGED <<sealedIndex, phase>> /\ ProcessOneSegment(segment.chunks)
    BY <1>6 DEF SegmentEnd, RecipeEnd, disk
  <2>2. kind \notin {"IN_ENCLAVE", "FREQ_INDEX"}
    BY <2>1 DEF ProcessOneSegment, ExtremeSegment, SparseSegment
  <2>3. kind = "EXTREME_BIN" => DOMAIN index \subseteq DOMAIN index'
    <3>1. kind = "EXTREME_BIN" => \E g : index' = Insert(index, g)
      BY <2>1 DEF ProcessOneSegment, ExtremeSegment, SparseSegment
    <3> QED
      BY <3>1 DEF Insert
  <2> QED
    BY <1>0, <2>1, <2>2, <2>3, LoadedKept DEF IndexTypes
<1>7. CASE RecipeEnd /\ segment.chunks = << >>
  BY <1>1, <1>7 DEF RecipeEnd, disk
<1>8. CASE UNCHANGED vars \/ (\E f \in Files : BeginUpload(f)) \/ BufferChunk \/ EndUpload \/ Abort
  BY <1>1, <1>8 DEF vars, memory, disk, BeginUpload, BufferChunk, EndUpload, Abort
<1>9. CASE SaveKeys
  BY <1>1, <1>9 DEF SaveKeys, memory
<1>10. CASE SaveDatabase \/ Crash \/ ExitMissing
  BY <1>2, <1>10 DEF SaveDatabase, Crash, ExitMissing, Die, MemoryGone, disk
<1> QED
  BY <1>3, <1>4, <1>5, <1>6, <1>7, <1>8, <1>9, <1>10 DEF Next

LEMMA BasicsInit == ASSUME Init PROVE Basics
<1>1. SegmentOK
  BY EmptySegmentOK, IndexAssumption DEF Init, SegmentOK, SegmentWithinBuffer
<1>2. Position
  <2>1. << >> \in Seq({})
    OBVIOUS
  <2>2. Sequence(<< >>)
    BY <2>1, SequenceIs
  <2> QED
    BY <2>2, IndexAssumption DEF Init, Position
<1>3. Addresses
  BY DEF Init, Addresses
<1>4. Keys
  BY DEF Init, Keys
<1>5. IndexTypes
  BY FS_EmptySet, EmptyDomain DEF Init, IndexTypes, LoadedIndex
<1> QED
  BY <1>1, <1>2, <1>3, <1>4, <1>5 DEF Basics

LEMMA BasicsStep == ASSUME Basics, [Next]_vars PROVE Basics'
BY SegmentStep, PositionStep, AddressesStep, KeysStep, IndexTypesStep DEF Basics

LEMMA BasicsAlways == Spec => []Basics
BY BasicsInit, BasicsStep, PTL DEF Spec

(* The buffers of a segment suffice, whatever the sizes: a chunk that would *)
(* not fit closes the segment before it is appended, and a chunk alone fits *)
(* because it is smaller than the smallest segment.                         *)
THEOREM BuffersSuffice == Spec => []SegmentWithinBuffer
<1>1. Basics => SegmentWithinBuffer
  BY DEF Basics, SegmentOK
<1> QED
  BY <1>1, BasicsAlways, PTL
-----------------------------------------------------------------------------
(* Restorable is inductive.                                                 *)

LEMMA DamageGrows == ASSUME [Next]_vars PROVE damage \subseteq damage'
<1>1. CASE Abort \/ Crash \/ ExitMissing
  BY <1>1 DEF Abort, Crash, ExitMissing, Die
<1>2. CASE UNCHANGED vars \/ Boot \/ SealIndex \/ SaveKeys \/ SaveDatabase
  BY <1>2 DEF vars, history, Boot, SealIndex, SaveKeys, SaveDatabase
<1>3. CASE (\E f \in Files : BeginUpload(f)) \/ DirectChunk \/ BufferChunk \/ EndUpload \/ SegmentEnd \/ RecipeEnd
  BY <1>3 DEF BeginUpload, DirectChunk, BufferChunk, EndUpload, SegmentEnd, RecipeEnd, history
<1> QED
  BY <1>1, <1>2, <1>3 DEF Next

(* The key that containers are read with changes only before the first      *)
(* chunk is stored.                                                         *)
LEMMA KeyStep ==
    ASSUME Basics, [Next]_vars, Undamaged'
    PROVE  Key' = Key \/ addresses = 0
<1>0. Keys /\ Undamaged
  BY DamageGrows DEF Basics, Undamaged
<1>1. CASE Boot
  BY <1>0, <1>1 DEF Boot, disk, Key, Keys, Undamaged
<1>2. CASE SaveKeys
  BY <1>0, <1>2 DEF SaveKeys, memory, Key, Keys
<1>3. CASE SaveDatabase
  BY <1>0, <1>3 DEF SaveDatabase, Key, Keys
<1>4. CASE Crash \/ ExitMissing
  <2>1. Die /\ UNCHANGED sealedKey
    BY <1>4 DEF Crash, ExitMissing, Die, disk
  <2>2. ~(sealedKey = None /\ addresses > 0)
    BY <2>1 DEF Die, Undamaged
  <2> QED
    BY <2>1, <2>2 DEF Key, Basics, Addresses
<1>5. CASE UNCHANGED vars \/ SealIndex \/ (\E f \in Files : BeginUpload(f)) \/ BufferChunk \/ EndUpload \/ Abort
  BY <1>5 DEF vars, SealIndex, BeginUpload, BufferChunk, EndUpload, Abort, memory, disk, Key
<1>6. CASE DirectChunk \/ SegmentEnd \/ RecipeEnd
  BY <1>6 DEF DirectChunk, SegmentEnd, RecipeEnd, disk, Key
<1> QED
  BY <1>1, <1>2, <1>3, <1>4, <1>5, <1>6 DEF Next

LEMMA OnDiskStep ==
    ASSUME Basics, [Next]_vars, Undamaged', NEW a, NEW fp, Held(containers, Key, a, fp)
    PROVE  Held(containers', Key', a, fp)
<1>1. a \in DOMAIN containers /\ a \in 1 .. addresses /\ addresses \in Nat
  BY DEF Held, Basics, Addresses
<1>2. Key' = Key
  BY <1>1, KeyStep
<1>3. containers' = containers \/ \E g : containers' = Insert(containers, g)
  <2>1. CASE EndUpload \/ Abort \/ Crash \/ ExitMissing
    BY <2>1 DEF EndUpload, Abort, Crash, ExitMissing, Die, SaveSome
  <2>2. CASE UNCHANGED vars \/ Boot \/ SealIndex \/ SaveKeys \/ SaveDatabase
    BY <2>2 DEF vars, Boot, SealIndex, SaveKeys, SaveDatabase
  <2>3. CASE (\E f \in Files : BeginUpload(f)) \/ DirectChunk \/ BufferChunk \/ SegmentEnd \/ RecipeEnd
    BY <2>3 DEF BeginUpload, DirectChunk, BufferChunk, SegmentEnd, RecipeEnd
  <2> QED
    BY <2>1, <2>2, <2>3 DEF Next
<1>4. a \in DOMAIN containers' /\ containers'[a] = containers[a]
  BY <1>1, <1>3 DEF Insert
<1> QED
  BY <1>2, <1>4 DEF Held

(* While no upload is under way, what is live is on disk. *)
LEMMA LiveOnDisk ==
    ASSUME Addresses, uploading = None, NEW a, NEW fp, Live(a, fp)
    PROVE  Held(containers, Key, a, fp)
BY DEF Live, OnDisk, Held, Addresses

LEMMA DiskRightStep ==
    ASSUME Basics, Restorable, [Next]_vars, Undamaged'
    PROVE  DiskRight'
<1>0. Undamaged /\ MemoryRight /\ DiskRight
  BY DamageGrows DEF Restorable, Undamaged
<1>1. ASSUME NEW a, NEW fp, Held(containers, Key, a, fp) PROVE Held(containers', Key', a, fp)
  BY <1>1, OnDiskStep
<1>2. CASE UNCHANGED <<kind, sealedIndex, dbFile>>
  BY <1>0, <1>1, <1>2, LoadedKept, StoreKept DEF DiskRight, AllOnDisk, OnDisk, Segmented
<1>3. CASE SealIndex
  <2>1. UNCHANGED <<kind, dbFile, containers, Key>> /\ uploading = None
    BY <1>3 DEF SealIndex, memory, Key
  <2>2. kind \in {"IN_ENCLAVE", "FREQ_INDEX"} => Same(LoadedIndex', index)
    BY <1>3, Sealed DEF Basics
  <2>3. kind \in {"IN_ENCLAVE", "FREQ_INDEX"} =>
            \A fp \in DOMAIN index : Held(containers', Key', index[fp], fp)
    BY <1>0, <1>1, <2>1, LiveOnDisk DEF MemoryRight, AllLive, Basics
  <2>4. kind' \in {"IN_ENCLAVE", "FREQ_INDEX"} => AllOnDisk(LoadedIndex)'
    BY <2>1, <2>2, <2>3 DEF Same, AllOnDisk, OnDisk
  <2> QED
    BY <1>0, <1>1, <2>1, <2>4, StoreKept DEF DiskRight, AllOnDisk, OnDisk, Segmented
<1>4. CASE SaveDatabase
  <2>1. UNCHANGED <<kind, sealedIndex>> /\ uploading = None
    BY <1>4 DEF SaveDatabase, Basics, Position
  <2>2. Same(LoadedStore', indexStore)
    BY <1>4, Stored
  <2>3. ASSUME NEW m, AllLive(m) PROVE \A fp \in DOMAIN m : Held(containers', Key', m[fp], fp)
    BY <1>1, <2>1, <2>3, LiveOnDisk DEF AllLive, Basics
  <2>4. kind \in {"OUT_ENCLAVE", "FREQ_INDEX"} =>
            \A fp \in DOMAIN indexStore : Held(containers', Key', indexStore[fp], fp)
    BY <1>0, <2>3 DEF MemoryRight
  <2>5. Segmented => \A id \in DOMAIN indexStore : \A fp \in DOMAIN indexStore[id] :
            Held(containers', Key', indexStore[id][fp], fp)
    BY <1>0, <2>3 DEF MemoryRight
  <2>6. kind' \in {"OUT_ENCLAVE", "FREQ_INDEX"} => AllOnDisk(LoadedStore)'
    BY <2>1, <2>2, <2>4 DEF Same, AllOnDisk, OnDisk
  <2>7. Segmented' => \A id \in DOMAIN LoadedStore' : \A fp \in DOMAIN LoadedStore'[id] :
            Held(containers', Key', LoadedStore'[id][fp], fp)
    BY <2>1, <2>2, <2>5 DEF Same, Segmented
  <2>8. kind' \in {"IN_ENCLAVE", "FREQ_INDEX"} => AllOnDisk(LoadedIndex)'
    BY <1>0, <1>1, <2>1, LoadedKept DEF DiskRight, AllOnDisk, OnDisk
  <2> QED
    BY <2>6, <2>7, <2>8 DEF DiskRight, AllOnDisk, OnDisk
<1>5. CASE UNCHANGED vars \/ Boot \/ SaveKeys
  BY <1>2, <1>5 DEF vars, Boot, SaveKeys, disk
<1>6. CASE (\E f \in Files : BeginUpload(f)) \/ DirectChunk \/ BufferChunk \/ SegmentEnd \/ RecipeEnd
  BY <1>2, <1>6 DEF BeginUpload, DirectChunk, BufferChunk, SegmentEnd, RecipeEnd, disk
<1>7. CASE EndUpload \/ Abort \/ Crash \/ ExitMissing
  BY <1>2, <1>7 DEF EndUpload, Abort, Crash, ExitMissing, Die, disk
<1> QED
  BY <1>3, <1>4, <1>5, <1>6, <1>7 DEF Next

(* The end of an upload brings everything that is live to the disk. *)
LEMMA EndUploadSaves ==
    ASSUME Basics, EndUpload, NEW a, NEW fp, Live(a, fp)
    PROVE  Held(containers', Key', a, fp)
<1>1. containers' = Insert(containers, pending) /\ Key' = Key
  BY DEF EndUpload, memory, disk, Key
<1>2. DOMAIN containers \cap DOMAIN pending = {}
  BY DEF Basics, Addresses
<1>3. CASE Held(containers, Key, a, fp)
  BY <1>1, <1>3 DEF Insert, Held
<1>4. CASE Held(pending, Key, a, fp)
  BY <1>1, <1>2, <1>4 DEF Insert, Held
<1> QED
  BY <1>3, <1>4 DEF Live, OnDisk

LEMMA RecipesRightStep ==
    ASSUME Basics, Restorable, [Next]_vars, Undamaged'
    PROVE  RecipesRight'
<1>0. Undamaged /\ RecipesRight /\ EntriesRight
  BY DamageGrows DEF Restorable, Undamaged
<1>1. ASSUME NEW a, NEW fp, Held(containers, Key, a, fp) PROVE Held(containers', Key', a, fp)
  BY <1>1, OnDiskStep
<1>2. ASSUME NEW f \in DOMAIN recipes \ (cut \cup {uploading})
      PROVE  /\ f \in Files /\ Len(recipes[f]) = Len(f)
             /\ \A n \in 1 .. Len(f) : Held(containers', Key', recipes[f][n], f[n])
  BY <1>0, <1>1 DEF RecipesRight, OnDisk
<1>3. ASSUME DOMAIN recipes' \ (cut' \cup {uploading'}) \subseteq DOMAIN recipes \ (cut \cup {uploading}),
             \A f \in DOMAIN recipes' \ (cut' \cup {uploading'}) : recipes'[f] = recipes[f]
      PROVE  RecipesRight'
  BY <1>2, <1>3 DEF RecipesRight, OnDisk
<1>4. ASSUME NEW f \in Files, BeginUpload(f) PROVE RecipesRight'
  <2>1. recipes' = Without(recipes, f) /\ uploading' = f /\ uploading = None /\ cut' = cut
    BY <1>4 DEF BeginUpload, history
  <2>2. DOMAIN recipes \subseteq Files /\ None \notin Files
    BY IndexAssumption DEF Basics, Position
  <2>3. DOMAIN recipes' = DOMAIN recipes \ {f} /\ \A g \in DOMAIN recipes' : recipes'[g] = recipes[g]
    BY <2>1 DEF Without
  <2> QED
    BY <1>3, <2>1, <2>2, <2>3
<1>5. CASE RecipeEnd
  <2>1. recipes' = Insert(recipes, Single(uploading, entries')) /\ UNCHANGED <<uploading, cut>>
    BY <1>5 DEF RecipeEnd, history
  <2>2. /\ DOMAIN recipes' = DOMAIN recipes \cup {uploading}
        /\ \A g \in DOMAIN recipes : recipes'[g] = recipes[g]
    BY <2>1 DEF Insert, Single
  <2> QED
    BY <1>3, <2>1, <2>2
<1>6. CASE EndUpload
  <2>1. /\ uploading # None /\ uploading \in DOMAIN recipes /\ uploading' = None
        /\ UNCHANGED recipes /\ cut' = cut \ {uploading}
    BY <1>6, NoSessionIs DEF EndUpload
  <2>2. /\ uploading \in Files /\ recipes[uploading] = entries /\ received = Len(uploading)
        /\ segment = EmptySegment /\ Len(entries) + Len(segment.chunks) = received
        /\ Sequence(entries)
    BY <2>1 DEF Basics, Position
  <2>3. Len(entries) = Len(uploading)
    BY <2>2, EmptySegmentOK DEF Sequence
  <2>4. \A n \in 1 .. Len(uploading) : Held(containers', Key', recipes[uploading][n], uploading[n])
    BY <1>0, <1>6, <2>1, <2>2, <2>3, EndUploadSaves DEF EntriesRight
  <2>5. ASSUME NEW f \in DOMAIN recipes' \ (cut' \cup {uploading'})
        PROVE  /\ f \in Files /\ Len(recipes'[f]) = Len(f)
               /\ \A n \in 1 .. Len(f) : Held(containers', Key', recipes'[f][n], f[n])
    <3>1. CASE f = uploading
      BY <2>1, <2>2, <2>3, <2>4, <3>1
    <3>2. CASE f # uploading
      <4>1. f \in DOMAIN recipes \ (cut \cup {uploading})
        BY <2>1, <2>5, <3>2
      <4> QED
        BY <1>2, <2>1, <4>1
    <3> QED
      BY <3>1, <3>2
  <2> QED
    BY <2>5 DEF RecipesRight, OnDisk
<1>7. CASE Crash \/ ExitMissing
  <2>1. Die
    BY <1>7 DEF Crash, ExitMissing
  <2>2. UNCHANGED recipes /\ cut' = cut \cup ({uploading} \ {None}) /\ uploading' = None
    BY <2>1, NoSessionIs DEF Die
  <2>3. DOMAIN recipes \subseteq Files /\ None \notin Files
    BY IndexAssumption DEF Basics, Position
  <2>4. DOMAIN recipes' \ (cut' \cup {uploading'}) \subseteq DOMAIN recipes \ (cut \cup {uploading})
    BY <2>2, <2>3
  <2> QED
    BY <1>3, <2>2, <2>4
<1>8. CASE Abort
  BY <1>8 DEF Abort, Undamaged
<1>9. CASE UNCHANGED <<recipes, cut, uploading>>
  BY <1>3, <1>9
<1>10. CASE UNCHANGED vars \/ Boot \/ SealIndex \/ SaveKeys \/ SaveDatabase
  BY <1>9, <1>10 DEF vars, Boot, SealIndex, SaveKeys, SaveDatabase, history, session
<1>11. CASE DirectChunk \/ BufferChunk \/ SegmentEnd
  BY <1>9, <1>11 DEF DirectChunk, BufferChunk, SegmentEnd, history, session
<1> QED
  BY <1>4, <1>5, <1>6, <1>7, <1>8, <1>10, <1>11 DEF Next
-----------------------------------------------------------------------------
(* What a processing step does to live chunks.  Working(s, d) stands for    *)
(* the part that the five indexes share.                                    *)
Working(s, d) ==
    /\ Dedup(s, d) /\ Sequence(s) /\ phase = "running"
    /\ UNCHANGED <<containers, sealedKey, enclaveKey>>

LEMMA WorkingKey ==
    ASSUME Basics, NEW s, NEW d, Working(s, d)
    PROVE  Key = enclaveKey /\ Key' = Key
BY DEF Working, Basics, Keys, Key

LEMMA WorkingOld ==
    ASSUME Basics, NEW s, NEW d, Working(s, d), NEW a, NEW fp, Live(a, fp)
    PROVE  Held(containers', Key', a, fp) \/ Held(pending', Key', a, fp)
<1>1. Key' = Key /\ containers' = containers /\ Dedup(s, d)
  BY WorkingKey DEF Working
<1>2. CASE Held(containers, Key, a, fp)
  BY <1>1, <1>2
<1>3. CASE Held(pending, Key, a, fp)
  BY <1>1, <1>3, DedupPendingOld DEF Held
<1> QED
  BY <1>2, <1>3 DEF Live, OnDisk

LEMMA WorkingNew ==
    ASSUME Basics, NEW s, NEW d, Working(s, d), NEW fp \in Unique(s, d)
    PROVE  Held(pending', Key', NewAddrs(s, d)[fp], fp)
<1>1. Key' = enclaveKey /\ Dedup(s, d) /\ s \in Seq(Range(s))
  BY WorkingKey DEF Working, Sequence
<1>2. addresses \in Nat /\ DOMAIN pending \subseteq 1 .. addresses
  BY DEF Basics, Addresses
<1> QED
  BY <1>1, <1>2, DedupPendingNew DEF Held

LEMMA WorkingEntry ==
    ASSUME Basics, NEW s, NEW d, Working(s, d), AllLive(d), NEW fp \in Range(s)
    PROVE  \/ Held(containers', Key', EntryOf(s, d, fp), fp)
           \/ Held(pending', Key', EntryOf(s, d, fp), fp)
<1>1. CASE fp \in DOMAIN d
  BY <1>1, WorkingOld DEF AllLive, EntryOf
<1>2. CASE fp \notin DOMAIN d
  BY <1>2, WorkingNew DEF Unique, EntryOf
<1> QED
  BY <1>1, <1>2

(* A map made of old and new entries. *)
LEMMA WorkingInsert ==
    ASSUME Basics, NEW s, NEW d, Working(s, d), NEW m, AllLive(m),
           NEW fp \in DOMAIN Insert(m, NewAddrs(s, d))
    PROVE  \/ Held(containers', Key', Insert(m, NewAddrs(s, d))[fp], fp)
           \/ Held(pending', Key', Insert(m, NewAddrs(s, d))[fp], fp)
<1>1. CASE fp \in DOMAIN m
  <2>1. Insert(m, NewAddrs(s, d))[fp] = m[fp]
    BY <1>1, InsertOld
  <2> QED
    BY <1>1, <2>1, WorkingOld DEF AllLive
<1>2. CASE fp \notin DOMAIN m
  <2>1. fp \in DOMAIN NewAddrs(s, d)
    BY <1>2, InsertDomain
  <2>2. Insert(m, NewAddrs(s, d))[fp] = NewAddrs(s, d)[fp]
    BY <1>2, <2>1, InsertNew
  <2> QED
    BY <2>1, <2>2, WorkingNew, NewAddrsDomain
<1> QED
  BY <1>1, <1>2

LEMMA WorkingEntries ==
    ASSUME Basics, NEW s, NEW d, Working(s, d), AllLive(d), EntriesRight, uploading # None,
           UNCHANGED uploading, \A n \in 1 .. Len(s) : s[n] = uploading[Len(entries) + n]
    PROVE  EntriesRight'
<1>1. /\ Len(entries') = Len(entries) + Len(s)
      /\ \A n \in 1 .. Len(entries) : entries'[n] = entries[n]
      /\ \A n \in 1 .. Len(s) : entries'[Len(entries) + n] = EntryOf(s, d, s[n])
  BY DedupEntries DEF Working, Sequence, Basics, Position
<1>2. Len(entries) \in Nat /\ Len(s) \in Nat /\ DOMAIN s = 1 .. Len(s)
  BY DEF Basics, Position, Working, Sequence
<1>3. ASSUME NEW n \in 1 .. Len(entries')
      PROVE  Held(containers', Key', entries'[n], uploading[n]) \/ Held(pending', Key', entries'[n], uploading[n])
  <2>1. CASE n \in 1 .. Len(entries)
    BY <1>1, <2>1, WorkingOld DEF EntriesRight
  <2>2. CASE n \notin 1 .. Len(entries)
    <3>1. PICK k \in 1 .. Len(s) : n = Len(entries) + k
      <4>1. n - Len(entries) \in 1 .. Len(s) /\ n = Len(entries) + (n - Len(entries))
        BY <1>1, <1>2, <2>2
      <4> QED
        BY <4>1
    <3>2. s[k] \in Range(s)
      BY <1>2 DEF Range
    <3>3. entries'[n] = EntryOf(s, d, s[k]) /\ uploading[n] = s[k]
      BY <1>1, <3>1
    <3> QED
      BY <3>2, <3>3, WorkingEntry
  <2> QED
    BY <2>1, <2>2
<1> QED
  BY <1>3 DEF EntriesRight, Live, OnDisk

(* A chunk that is looked up at once. *)
LEMMA DirectIs ==
    ASSUME Basics, DirectChunk, NEW d, Dedup(<<Chunk>>, d)
    PROVE  /\ Working(<<Chunk>>, d) /\ uploading # None /\ UNCHANGED <<uploading, kind>>
           /\ \A n \in 1 .. Len(<<Chunk>>) : <<Chunk>>[n] = uploading[Len(entries) + n]
           /\ Range(<<Chunk>>) = {Chunk}
<1>1. <<Chunk>> \in Seq({Chunk})
  OBVIOUS
<1>2. Sequence(<<Chunk>>)
  BY <1>1, SequenceIs
<1>3. /\ phase = "running" /\ uploading # None
      /\ UNCHANGED <<uploading, kind, containers, sealedKey, enclaveKey>> /\ ~Segmented
  BY DEF DirectChunk, Receiving, disk, Segmented, InEnclaveChunk, OutEnclaveChunk, FreqChunk
<1>4. segment = EmptySegment /\ Len(entries) + Len(segment.chunks) = received /\ Sequence(entries)
  BY <1>3 DEF Basics, Position
<1>5. Len(entries) = received /\ Len(entries) \in Nat
  BY <1>4, EmptySegmentOK DEF Sequence
<1>6. \A n \in 1 .. Len(<<Chunk>>) : <<Chunk>>[n] = uploading[Len(entries) + n]
  BY <1>5 DEF Chunk
<1>7. Range(<<Chunk>>) = {Chunk}
  BY DEF Range
<1> QED
  BY <1>2, <1>3, <1>6, <1>7 DEF Working

LEMMA DirectRight ==
    ASSUME Basics, MemoryRight, EntriesRight, DirectChunk
    PROVE  MemoryRight' /\ EntriesRight'
<1> DEFINE live(m) == \A fp \in DOMAIN m : Held(containers', Key', m[fp], fp) \/ Held(pending', Key', m[fp], fp)
<1>1. CASE InEnclaveChunk(Chunk)
  <2>1. /\ kind = "IN_ENCLAVE" /\ Dedup(<<Chunk>>, index) /\ AllLive(index)
        /\ index' = Insert(index, NewAddrs(<<Chunk>>, index))
    BY <1>1 DEF InEnclaveChunk, MemoryRight
  <2>2. Working(<<Chunk>>, index) /\ EntriesRight' /\ UNCHANGED kind
    BY <2>1, DirectIs, WorkingEntries
  <2>3. live(index')
    BY <2>1, <2>2, WorkingInsert
  <2> QED
    BY <2>1, <2>2, <2>3 DEF MemoryRight, AllLive, Live, OnDisk, Segmented
<1>2. CASE OutEnclaveChunk(Chunk)
  <2>1. /\ kind = "OUT_ENCLAVE" /\ Dedup(<<Chunk>>, indexStore) /\ AllLive(indexStore)
        /\ indexStore' = Insert(indexStore, NewAddrs(<<Chunk>>, indexStore))
    BY <1>2 DEF OutEnclaveChunk, MemoryRight
  <2>2. Working(<<Chunk>>, indexStore) /\ EntriesRight' /\ UNCHANGED kind
    BY <2>1, DirectIs, WorkingEntries
  <2>3. live(indexStore')
    BY <2>1, <2>2, WorkingInsert
  <2> QED
    BY <2>1, <2>2, <2>3 DEF MemoryRight, AllLive, Live, OnDisk, Segmented
<1>3. CASE FreqChunk(Chunk)
  <2> DEFINE d == Insert(index, indexStore)
             s == <<Chunk>>
             addr == Insert(d, NewAddrs(s, d))[Chunk]
  <2>1. /\ kind = "FREQ_INDEX" /\ Dedup(s, d) /\ AllLive(index) /\ AllLive(indexStore)
        /\ indexStore' = Insert(indexStore, NewAddrs(s, d))
        /\ \/ index' = index
           \/ index' = Insert(index, Single(Chunk, addr))
           \/ \E out : index' = Insert(Without(index, out), Single(Chunk, addr))
    BY <1>3 DEF FreqChunk, MemoryRight
  <2>2. AllLive(d)
    <3>1. ASSUME NEW fp \in DOMAIN d PROVE Live(d[fp], fp)
      <4>1. fp \in DOMAIN index => d[fp] = index[fp]
        BY InsertOld
      <4>2. fp \notin DOMAIN index => fp \in DOMAIN indexStore /\ d[fp] = indexStore[fp]
        BY <3>1 DEF Insert
      <4> QED
        BY <2>1, <4>1, <4>2 DEF AllLive
    <3> QED
      BY <3>1 DEF AllLive
  <2> HIDE DEF d
  <2>3. Working(s, d) /\ EntriesRight' /\ UNCHANGED kind /\ Range(s) = {Chunk}
    BY <2>1, <2>2, DirectIs, WorkingEntries
  <2>4. live(indexStore')
    BY <2>1, <2>3, WorkingInsert
  <2>5. addr = EntryOf(s, d, Chunk)
    BY <2>3, EntryIs
  <2>6. Held(containers', Key', addr, Chunk) \/ Held(pending', Key', addr, Chunk)
    BY <2>2, <2>3, <2>5, WorkingEntry
  <2>7. ASSUME NEW m, AllLive(m) PROVE live(m)
    BY <2>3, <2>7, WorkingOld DEF AllLive
  <2> HIDE DEF addr
  <2>8. ASSUME NEW m, AllLive(m) PROVE live(Insert(m, Single(Chunk, addr)))
    <3>1. ASSUME NEW fp \in DOMAIN Insert(m, Single(Chunk, addr))
          PROVE  \/ fp \in DOMAIN m /\ Insert(m, Single(Chunk, addr))[fp] = m[fp]
                 \/ fp = Chunk /\ Insert(m, Single(Chunk, addr))[fp] = addr
      BY <3>1 DEF Insert, Single
    <3> QED
      BY <2>6, <2>7, <2>8, <3>1
  <2>9. ASSUME NEW out PROVE AllLive(Without(index, out))
    <3>1. \A fp \in DOMAIN Without(index, out) : fp \in DOMAIN index /\ Without(index, out)[fp] = index[fp]
      BY DEF Without
    <3> QED
      BY <2>1, <3>1 DEF AllLive
  <2>10. live(index')
    BY <2>1, <2>7, <2>8, <2>9
  <2> QED
    BY <2>1, <2>3, <2>4, <2>10 DEF MemoryRight, AllLive, Live, OnDisk, Segmented
<1> QED
  BY <1>1, <1>2, <1>3 DEF DirectChunk

(* A segment that is processed as a whole. *)
LEMMA SegmentIs ==
    ASSUME Basics, SegmentEnd \/ (RecipeEnd /\ segment.chunks # << >>), NEW d, Dedup(segment.chunks, d)
    PROVE  /\ Working(segment.chunks, d) /\ uploading # None /\ UNCHANGED <<uploading, kind>>
           /\ \A n \in 1 .. Len(segment.chunks) : segment.chunks[n] = uploading[Len(entries) + n]
<1>1. segment.chunks \in Seq(Fp)
  BY DEF Basics, SegmentOK
<1>2. Sequence(segment.chunks)
  BY <1>1, SequenceIs
<1>3. /\ phase = "running" /\ uploading # None
      /\ UNCHANGED <<uploading, kind, containers, sealedKey, enclaveKey>>
  BY DEF SegmentEnd, RecipeEnd, Receiving, AtRecipeEnd, disk
<1>4. \A n \in 1 .. Len(segment.chunks) : segment.chunks[n] = uploading[Len(entries) + n]
  BY <1>3 DEF Basics, Position
<1> QED
  BY <1>2, <1>3, <1>4 DEF Working

LEMMA ChampionsAt ==
    ASSUME NEW s, NEW champions \in FindChampionSegment(s)
    PROVE  DOMAIN champions \subseteq Nat
<1>1. \A q \in SetToSeqs(Candidates(s)) : DOMAIN q = 1 .. Cardinality(Candidates(s))
  BY DEF SetToSeqs
<1>2. CASE champions \in SetToSeqs(Candidates(s))
  <2>1. 1 .. Cardinality(Candidates(s)) \subseteq Nat
    OBVIOUS
  <2> QED
    BY <1>1, <1>2, <2>1
<1>3. CASE \E q : champions = SubSeq(q, 1, SPARSE_CHAMPION_NUM)
  BY <1>3, IndexAssumption
<1> QED
  BY <1>2, <1>3 DEF FindChampionSegment

(* Every entry of LoadManifiests is the entry of one of the champions. *)
LEMMA ManifestEntry ==
    ASSUME NEW champions, DOMAIN champions \subseteq Nat, NEW fp \in DOMAIN LoadManifiests(champions)
    PROVE  \E id \in Range(champions) :
               /\ fp \in DOMAIN indexStore[id]
               /\ LoadManifiests(champions)[fp] = indexStore[id][fp]
<1> DEFINE T == {m \in DOMAIN champions : fp \in DOMAIN indexStore[champions[m]]}
           n == Min(T)
<1>1. fp \in UNION {DOMAIN indexStore[id] : id \in Range(champions)}
  BY DEF LoadManifiests
<1>2. PICK id \in Range(champions) : fp \in DOMAIN indexStore[id]
  BY <1>1
<1>3. T \in SUBSET Nat /\ T # {}
  BY <1>2 DEF Range
<1> HIDE DEF T
<1>4. n \in T
  BY <1>3, Least DEF Min
<1>5. LoadManifiests(champions)[fp] = indexStore[champions[n]][fp]
  BY <1>1 DEF LoadManifiests, T
<1> HIDE DEF n
<1>6. champions[n] \in Range(champions) /\ fp \in DOMAIN indexStore[champions[n]]
  BY <1>4 DEF T, Range
<1> QED
  BY <1>5, <1>6

LEMMA SegmentRight ==
    ASSUME Basics, MemoryRight, EntriesRight, SegmentEnd \/ (RecipeEnd /\ segment.chunks # << >>)
    PROVE  MemoryRight' /\ EntriesRight'
<1> DEFINE s == segment.chunks
           live(m) == \A fp \in DOMAIN m : Held(containers', Key', m[fp], fp) \/ Held(pending', Key', m[fp], fp)
<1>0. ProcessOneSegment(s) /\ kind' = kind
  BY DEF SegmentEnd, RecipeEnd
<1>1. CASE ExtremeSegment(s)
  <2> DEFINE d == FetchBin(s)
             bin == UpdateBinStore(s, d)
  <2>1. /\ kind = "EXTREME_BIN" /\ Dedup(s, d) /\ ~ExtremeFails(s)
        /\ indexStore' = Insert(Single(Bin(s), bin), indexStore)
    BY <1>1 DEF ExtremeSegment
  <2>2. \A id \in DOMAIN indexStore : AllLive(indexStore[id])
    BY <2>1 DEF MemoryRight, Segmented
  <2>3. AllLive(d)
    <3>1. CASE MinHash(s) \in DOMAIN index
      <4>1. Bin(s) \in DOMAIN indexStore /\ d = indexStore[Bin(s)]
        BY <2>1, <3>1 DEF ExtremeFails, FetchBin
      <4> QED
        BY <2>2, <4>1
    <3>2. CASE MinHash(s) \notin DOMAIN index
      BY <3>2 DEF FetchBin, AllLive
    <3> QED
      BY <3>1, <3>2
  <2> HIDE DEF d
  <2>4. Working(s, d) /\ EntriesRight'
    BY <2>1, <2>3, SegmentIs, WorkingEntries
  <2>5. live(bin)
    BY <2>3, <2>4, WorkingInsert DEF UpdateBinStore
  <2> HIDE DEF bin
  <2>6. ASSUME NEW m, AllLive(m) PROVE live(m)
    BY <2>4, <2>6, WorkingOld DEF AllLive
  <2>7. ASSUME NEW id \in DOMAIN indexStore' PROVE live(indexStore'[id])
    <3>1. \/ indexStore'[id] = bin
          \/ id \in DOMAIN indexStore /\ indexStore'[id] = indexStore[id]
      BY <2>1 DEF Insert, Single
    <3> QED
      BY <2>2, <2>5, <2>6, <3>1
  <2> QED
    BY <1>0, <2>1, <2>4, <2>7 DEF MemoryRight, AllLive, Live, OnDisk, Segmented
<1>2. CASE SparseSegment(s)
  <2>1. kind = "SPARSE_INDEX"
    BY <1>2 DEF SparseSegment
  <2>2. PICK champions \in FindChampionSegment(s) :
          /\ ~SparseFails(champions)
          /\ LET d == LoadManifiests(champions)
                 manifest == [fp \in Range(s) |-> Insert(d, NewAddrs(s, d))[fp]]
             IN /\ Dedup(s, d)
                /\ \/ indexStore' = Insert(Single(ids + 1, manifest), indexStore)
                   \/ indexStore' = indexStore
    BY <1>2 DEF SparseSegment
  <2> DEFINE d == LoadManifiests(champions)
             manifest == [fp \in Range(s) |-> Insert(d, NewAddrs(s, d))[fp]]
  <2>3. \A id \in DOMAIN indexStore : AllLive(indexStore[id])
    BY <2>1 DEF MemoryRight, Segmented
  <2>4. Range(champions) \subseteq DOMAIN indexStore /\ DOMAIN champions \subseteq Nat
    BY <2>2, ChampionsAt DEF SparseFails
  <2>5. AllLive(d)
    BY <2>3, <2>4, ManifestEntry DEF AllLive
  <2>6. Dedup(s, d)
    BY <2>2
  <2>7. \/ indexStore' = Insert(Single(ids + 1, manifest), indexStore)
        \/ indexStore' = indexStore
    BY <2>2
  <2>8. \A fp \in Range(s) : manifest[fp] = EntryOf(s, d, fp)
    BY EntryIs
  <2>9. DOMAIN manifest = Range(s)
    OBVIOUS
  <2> HIDE DEF d, manifest
  <2>10. Working(s, d) /\ EntriesRight'
    BY <2>5, <2>6, SegmentIs, WorkingEntries
  <2>11. live(manifest)
    BY <2>5, <2>8, <2>9, <2>10, WorkingEntry
  <2>12. ASSUME NEW m, AllLive(m) PROVE live(m)
    BY <2>10, <2>12, WorkingOld DEF AllLive
  <2>13. ASSUME NEW id \in DOMAIN indexStore' PROVE live(indexStore'[id])
    <3>1. \/ indexStore'[id] = manifest
          \/ id \in DOMAIN indexStore /\ indexStore'[id] = indexStore[id]
      BY <2>7 DEF Insert, Single
    <3> QED
      BY <2>3, <2>11, <2>12, <3>1
  <2> QED
    BY <1>0, <2>1, <2>10, <2>13 DEF MemoryRight, AllLive, Live, OnDisk, Segmented
<1> QED
  BY <1>0, <1>1, <1>2 DEF ProcessOneSegment

LEMMA MemoryEntriesStep ==
    ASSUME Basics, Restorable, [Next]_vars, Undamaged'
    PROVE  MemoryRight' /\ EntriesRight'
<1>0. Undamaged /\ MemoryRight /\ DiskRight /\ EntriesRight
  BY DamageGrows DEF Restorable, Undamaged
<1>1. ASSUME NEW a, NEW fp, Held(containers, Key, a, fp) PROVE Held(containers', Key', a, fp)
  BY <1>1, OnDiskStep
<1>2. CASE DirectChunk
  BY <1>0, <1>2, DirectRight
<1>3. CASE SegmentEnd \/ (RecipeEnd /\ segment.chunks # << >>)
  BY <1>0, <1>3, SegmentRight
<1>4. ASSUME UNCHANGED <<kind, index, indexStore>>,
             \A a, fp : Live(a, fp) => Held(containers', Key', a, fp) \/ Held(pending', Key', a, fp)
      PROVE  MemoryRight'
  BY <1>0, <1>4 DEF MemoryRight, AllLive, Live, OnDisk, Segmented
<1>5. CASE UNCHANGED <<kind, index, indexStore, containers, pending, sealedKey, enclaveKey, uploading, entries>>
  <2>1. \A a, fp : Live(a, fp) => Held(containers', Key', a, fp) \/ Held(pending', Key', a, fp)
    BY <1>5 DEF Live, OnDisk, Key
  <2>2. EntriesRight'
    BY <1>0, <1>5, <2>1 DEF EntriesRight, Live, OnDisk
  <2> QED
    BY <1>4, <1>5, <2>1, <2>2
<1>6. CASE UNCHANGED vars \/ SealIndex \/ BufferChunk
  BY <1>5, <1>6 DEF vars, memory, disk, session, SealIndex, BufferChunk
<1>7. CASE RecipeEnd /\ segment.chunks = << >>
  BY <1>5, <1>7 DEF RecipeEnd, disk
<1>8. ASSUME NEW f \in Files, BeginUpload(f) PROVE MemoryRight' /\ EntriesRight'
  <2>1. /\ UNCHANGED <<kind, index, indexStore, containers, pending, sealedKey, enclaveKey, entries>>
        /\ uploading = None
    BY <1>8 DEF BeginUpload, memory, disk
  <2>2. \A a, fp : Live(a, fp) => Held(containers', Key', a, fp) \/ Held(pending', Key', a, fp)
    BY <2>1 DEF Live, OnDisk, Key
  <2>3. Len(entries') = 0
    BY <2>1 DEF Basics, Position
  <2> QED
    BY <1>4, <2>1, <2>2, <2>3 DEF EntriesRight
<1>9. CASE EndUpload
  <2>1. UNCHANGED <<kind, index, indexStore>> /\ uploading' = None
    BY <1>9, NoSessionIs DEF EndUpload, memory
  <2> QED
    BY <1>4, <1>9, <2>1, EndUploadSaves DEF EntriesRight
<1>10. CASE SaveKeys
  <2>1. UNCHANGED <<kind, index, indexStore, containers, pending, uploading>> /\ uploading = None
    BY <1>10 DEF SaveKeys, memory, session, Basics, Position
  <2>2. \A a, fp : Live(a, fp) => Held(containers', Key', a, fp)
    BY <1>1, <2>1, LiveOnDisk DEF Basics
  <2> QED
    BY <1>4, <2>1, <2>2 DEF EntriesRight
<1>11. CASE Boot
  <2>1. UNCHANGED <<kind, uploading>> /\ uploading = None
    BY <1>11 DEF Boot, session, Basics, Position
  <2>2. index' = LoadedIndex /\ indexStore' = LoadedStore
    BY <1>11, Booted
  <2>3. kind \in {"IN_ENCLAVE", "FREQ_INDEX"} => \A fp \in DOMAIN index' : Held(containers', Key', index'[fp], fp)
    BY <1>0, <1>1, <2>2 DEF DiskRight, AllOnDisk, OnDisk
  <2>4. kind \in {"OUT_ENCLAVE", "FREQ_INDEX"} =>
            \A fp \in DOMAIN indexStore' : Held(containers', Key', indexStore'[fp], fp)
    BY <1>0, <1>1, <2>2 DEF DiskRight, AllOnDisk, OnDisk
  <2>5. Segmented => \A id \in DOMAIN indexStore' : \A fp \in DOMAIN indexStore'[id] :
            Held(containers', Key', indexStore'[id][fp], fp)
    BY <1>0, <1>1, <2>2 DEF DiskRight, AllOnDisk, OnDisk
  <2> QED
    BY <2>1, <2>3, <2>4, <2>5 DEF MemoryRight, AllLive, Live, OnDisk, EntriesRight, Segmented
<1>12. CASE SaveDatabase \/ Crash \/ ExitMissing
  <2>1. index' = << >> /\ indexStore' = << >>
    BY <1>12 DEF SaveDatabase, Crash, ExitMissing, Die, MemoryGone
  <2>2. uploading' = None
    BY <1>12, NoSessionIs DEF SaveDatabase, Crash, ExitMissing, Die, session, Basics, Position
  <2> QED
    BY <2>1, <2>2 DEF MemoryRight, AllLive, EntriesRight
<1>13. CASE Abort
  BY <1>13 DEF Abort, Undamaged
<1> QED
  BY <1>2, <1>3, <1>6, <1>7, <1>8, <1>9, <1>10, <1>11, <1>12, <1>13 DEF Next

LEMMA RestorableInit == ASSUME Init PROVE Restorable
BY DEF Init, Restorable, MemoryRight, DiskRight, EntriesRight, RecipesRight, AllLive, AllOnDisk, LoadedIndex,
       LoadedStore, OpenDB, FromPairs

LEMMA RestorableStep == ASSUME Basics, Restorable, [Next]_vars PROVE Restorable'
BY DiskRightStep, RecipesRightStep, MemoryEntriesStep DEF Restorable

(* A file whose upload ran to its end can be restored in every later life   *)
(* of the server, whichever index it runs with, unless an upload was cut    *)
(* short or the first life died: every address that an index, in memory or  *)
(* on disk, or a recipe gives for a chunk leads to that chunk, encrypted    *)
(* with the key of this life and the next.                                  *)
THEOREM UploadsRestorable == Spec => []RestorableAcrossRestarts
<1>1. Spec => []Restorable
  BY RestorableInit, RestorableStep, BasicsAlways, PTL DEF Spec
<1>2. Basics /\ Restorable => RestorableAcrossRestarts
  <2> SUFFICES ASSUME Basics, Restorable, damage \cap {"abort", "keyLost"} = {},
                      NEW f \in DOMAIN recipes \ (cut \cup {uploading})
               PROVE  /\ Len(recipes[f]) = Len(f)
                      /\ \A n \in DOMAIN f :
                          /\ recipes[f][n] \in DOMAIN containers
                          /\ containers[recipes[f][n]] =
                                 [fp |-> f[n], key |-> IF sealedKey = None THEN enclaveKey ELSE sealedKey]
    BY DEF RestorableAcrossRestarts
  <2>1. /\ f \in Files /\ Len(recipes[f]) = Len(f)
        /\ \A n \in 1 .. Len(f) : OnDisk(recipes[f][n], f[n])
    BY DEF Restorable, Undamaged, RecipesRight
  <2>2. DOMAIN f = 1 .. Len(f)
    BY <2>1, IndexAssumption
  <2> QED
    BY <2>1, <2>2 DEF OnDisk, Held, Key
<1> QED
  BY <1>1, <1>2, BasicsAlways, PTL
-----------------------------------------------------------------------------
(* The file of the hook index.  Laid(q, k, F, at, S): F is the first k       *)
(* sequences of q laid end to end, at[n] where the n-th of them ends.        *)
Laid(q, k, F, at, S) ==
    /\ F \in Seq(S) /\ at \in [0 .. k -> Nat] /\ at[0] = 0 /\ at[k] = Len(F)
    /\ \A n \in 0 .. k : at[n] <= Len(F)
    /\ \A n \in 1 .. k : at[n] = at[n - 1] + Len(q[n])
    /\ \A n \in 1 .. k : \A m \in 1 .. Len(q[n]) : F[at[n - 1] + m] = q[n][m]

LEMMA LaidStep ==
    ASSUME NEW S, NEW q \in Seq(Seq(S)), NEW k \in Nat, k + 1 <= Len(q), NEW F, NEW at, Laid(q, k, F, at, S)
    PROVE  \E a : Laid(q, k + 1, F \o q[k + 1], a, S)
<1> DEFINE x == q[k + 1]
           G == F \o x
           a == [n \in 0 .. k + 1 |-> IF n = k + 1 THEN at[k] + Len(x) ELSE at[n]]
<1>1. k + 1 \in 1 .. Len(q) /\ x \in Seq(S)
  OBVIOUS
<1>2. F \in Seq(S) /\ at \in [0 .. k -> Nat] /\ at[0] = 0 /\ at[k] = Len(F)
  BY DEF Laid
<1> HIDE DEF x
<1>3. /\ G \in Seq(S) /\ Len(G) = Len(F) + Len(x)
      /\ \A i \in 1 .. Len(F) + Len(x) : G[i] = IF i <= Len(F) THEN F[i] ELSE x[i - Len(F)]
  BY <1>1, <1>2, ConcatProperties
<1> HIDE DEF G
<1>4. Len(F) \in Nat /\ Len(x) \in Nat
  BY <1>1, <1>2
<1>5. /\ DOMAIN a = 0 .. k + 1 /\ a[k + 1] = at[k] + Len(x) /\ \A n \in 0 .. k : a[n] = at[n]
  OBVIOUS
<1>6. a \in [0 .. k + 1 -> Nat]
  <2>1. \A n \in 0 .. k + 1 : (IF n = k + 1 THEN at[k] + Len(x) ELSE at[n]) \in Nat
    BY <1>2, <1>4
  <2> QED
    BY <2>1
<1> HIDE DEF a
<1>7. a[0] = 0 /\ a[k + 1] = Len(G)
  BY <1>2, <1>3, <1>5
<1>8. \A n \in 0 .. k + 1 : a[n] <= Len(G)
  <2>1. \A n \in 0 .. k : at[n] <= Len(F) /\ at[n] \in Nat
    BY <1>2 DEF Laid
  <2>2. Len(G) = Len(F) + Len(x)
    BY <1>3
  <2>3. ASSUME NEW n \in 0 .. k PROVE a[n] <= Len(G)
    <3>1. a[n] = at[n] /\ at[n] <= Len(F) /\ at[n] \in Nat
      BY <1>5, <2>1
    <3> QED
      BY <1>4, <2>2, <3>1
  <2>4. a[k + 1] <= Len(G)
    BY <1>4, <1>7, <2>2
  <2>5. \A n \in 0 .. k + 1 : n \in 0 .. k \/ n = k + 1
    OBVIOUS
  <2> QED
    BY <2>3, <2>4, <2>5
<1>9. ASSUME NEW n \in 1 .. k + 1 PROVE a[n] = a[n - 1] + Len(q[n])
  <2>1. CASE n = k + 1
    <3>1. n - 1 = k /\ k \in 0 .. k
      BY <2>1
    <3> QED
      BY <1>5, <2>1, <3>1 DEF x
  <2>2. CASE n # k + 1
    <3>1. n \in 1 .. k /\ n \in 0 .. k /\ n - 1 \in 0 .. k
      BY <2>2
    <3> QED
      BY <1>5, <3>1 DEF Laid
  <2> QED
    BY <2>1, <2>2
<1>10. ASSUME NEW n \in 1 .. k + 1, NEW m \in 1 .. Len(q[n]) PROVE G[a[n - 1] + m] = q[n][m]
  <2>1. CASE n = k + 1
    <3>1. n - 1 = k /\ k \in 0 .. k /\ q[n] = x
      BY <2>1 DEF x
    <3>2. a[n - 1] = Len(F) /\ m \in 1 .. Len(x)
      BY <1>2, <1>5, <1>10, <3>1
    <3>3. Len(F) + m \in 1 .. Len(F) + Len(x) /\ ~(Len(F) + m <= Len(F)) /\ (Len(F) + m) - Len(F) = m
      BY <1>4, <3>2
    <3> QED
      BY <1>3, <3>1, <3>2, <3>3
  <2>2. CASE n # k + 1
    <3>1. n \in 1 .. k /\ n \in 0 .. k /\ n - 1 \in 0 .. k
      BY <2>2
    <3>2. a[n - 1] = at[n - 1] /\ at[n] = at[n - 1] + Len(q[n]) /\ at[n] <= Len(F) /\ F[at[n - 1] + m] = q[n][m]
      BY <1>5, <1>10, <3>1 DEF Laid
    <3>3. at[n - 1] \in Nat /\ q[n] \in Seq(S) /\ Len(q[n]) \in Nat /\ m \in Nat /\ m >= 1 /\ m <= Len(q[n])
      BY <1>2, <1>10, <3>1
    <3>4. at[n - 1] + m \in 1 .. Len(F) + Len(x) /\ at[n - 1] + m <= Len(F)
      <4>1. \A i, j, l, f, y \in Nat : i + j <= f /\ l >= 1 /\ l <= j => i + l \in 1 .. f + y /\ i + l <= f
        OBVIOUS
      <4>2. at[n - 1] + Len(q[n]) <= Len(F)
        BY <3>2
      <4> QED
        BY <1>4, <3>3, <4>1, <4>2
    <3> QED
      BY <1>3, <3>2, <3>4
  <2> QED
    BY <2>1, <2>2
<1>11. Laid(q, k + 1, G, a, S)
  BY <1>3, <1>6, <1>7, <1>8, <1>9, <1>10 DEF Laid
<1> QED
  BY <1>11 DEF G, x

LEMMA LaidEmpty == ASSUME NEW S, NEW q PROVE \E at : Laid(q, 0, << >>, at, S)
<1> DEFINE at == [n \in 0 .. 0 |-> 0]
<1>1. << >> \in Seq(S) /\ Len(<< >>) = 0
  OBVIOUS
<1>2. at \in [0 .. 0 -> Nat] /\ at[0] = 0 /\ \A n \in 0 .. 0 : at[n] = 0
  OBVIOUS
<1>3. \A n \in 1 .. 0 : FALSE
  OBVIOUS
<1> HIDE DEF at
<1>4. Laid(q, 0, << >>, at, S)
  BY <1>1, <1>2, <1>3 DEF Laid
<1> QED
  BY <1>4

LEMMA FlattenIs ==
    ASSUME NEW S, NEW q \in Seq(Seq(S))
    PROVE  \E at : Laid(q, Len(q), FlattenSeq(q), at, S)
<1> DEFINE N == Len(q)
           Rec(g, k) == g = [i \in 1 .. k |-> IF i = 1 THEN q[i] ELSE g[i - 1] \o q[i]]
           flat == CHOOSE g : Rec(g, N)
<1>0. N \in Nat
  OBVIOUS
<1>1. CASE N = 0
  <2>1. q = << >> /\ FlattenSeq(q) = << >>
    BY <1>1 DEF FlattenSeq
  <2> QED
    BY <1>1, <2>1, LaidEmpty
<1>2. CASE N # 0
  <2>1. FlattenSeq(q) = flat[N]
    BY <1>2 DEF FlattenSeq
  <2>2. \E g : Rec(g, N)
    <3> DEFINE T == {k \in 0 .. N : \E g : Rec(g, k)}
    <3>1. 0 \in T
      <4> DEFINE g == [i \in 1 .. 0 |-> 0]
      <4>1. Rec(g, 0)
        OBVIOUS
      <4> HIDE DEF g, Rec
      <4> QED
        BY <1>0, <4>1
    <3>2. ASSUME NEW k \in 0 .. N, k < N, k \in T PROVE k + 1 \in T
      <4>1. PICK g : Rec(g, k)
        BY <3>2
      <4> DEFINE h == [i \in 1 .. k + 1 |-> IF i = k + 1 THEN (IF i = 1 THEN q[i] ELSE g[k] \o q[i]) ELSE g[i]]
      <4>2. \A i \in 1 .. k : g[i] = IF i = 1 THEN q[i] ELSE g[i - 1] \o q[i]
        BY <4>1
      <4>3. ASSUME NEW i \in 1 .. k + 1 PROVE h[i] = IF i = 1 THEN q[i] ELSE h[i - 1] \o q[i]
        <5>1. CASE i = k + 1
          <6>1. i # 1 => i - 1 \in 1 .. k + 1 /\ i - 1 # k + 1 /\ i - 1 = k
            BY <5>1
          <6>2. i # 1 => h[i - 1] = g[k]
            BY <6>1
          <6> QED
            BY <5>1, <6>2
        <5>2. CASE i # k + 1
          <6>1. i \in 1 .. k /\ h[i] = g[i]
            BY <5>2
          <6>2. i # 1 => i - 1 \in 1 .. k + 1 /\ i - 1 # k + 1
            BY <6>1
          <6>3. i # 1 => h[i - 1] = g[i - 1]
            BY <6>2
          <6> QED
            BY <4>2, <6>1, <6>3
        <5> QED
          BY <5>1, <5>2
      <4>4. Rec(h, k + 1)
        <5>1. h = [i \in 1 .. k + 1 |-> h[i]]
          OBVIOUS
        <5> HIDE DEF h
        <5> QED
          BY <4>3, <5>1
      <4> HIDE DEF h
      <4>5. k + 1 \in 0 .. N
        BY <1>0, <3>2
      <4> QED
        BY <4>4, <4>5
    <3> HIDE DEF T
    <3>3. \A k \in 0 .. N : k < N /\ k \in T => k + 1 \in T
      BY <3>2
    <3>4. \A k \in 0 .. N : k \in T
      BY <1>0, <3>1, <3>3, UpTo
    <3>5. N \in T
      BY <1>0, <3>4
    <3> QED
      BY <3>5 DEF T
  <2>3. Rec(flat, N)
    BY <2>2
  <2> HIDE DEF flat
  <2>4. \A i \in 1 .. N : flat[i] = IF i = 1 THEN q[i] ELSE flat[i - 1] \o q[i]
    BY <2>3
  <2> DEFINE U == {k \in 0 .. N : k = 0 \/ \E at : Laid(q, k, flat[k], at, S)}
  <2>5. 0 \in U
    BY <1>0
  <2>6. ASSUME NEW k \in 0 .. N, k < N, k \in U PROVE k + 1 \in U
    <3>1. k \in Nat /\ k + 1 <= Len(q) /\ k + 1 \in 1 .. N
      BY <1>0, <2>6
    <3>2. CASE k = 0
      <4>1. PICK at0 : Laid(q, 0, << >>, at0, S)
        BY LaidEmpty
      <4>2. PICK at : Laid(q, 0 + 1, << >> \o q[0 + 1], at, S)
        BY <3>1, <3>2, <4>1, LaidStep
      <4>3. << >> \o q[1] = q[1] /\ flat[1] = q[1]
        BY <2>4, <3>1, <3>2
      <4>4. Laid(q, 1, flat[1], at, S)
        BY <4>2, <4>3
      <4> QED
        BY <3>1, <3>2, <4>4
    <3>3. CASE k # 0
      <4>1. PICK at0 : Laid(q, k, flat[k], at0, S)
        BY <2>6, <3>3
      <4>2. PICK at : Laid(q, k + 1, flat[k] \o q[k + 1], at, S)
        BY <3>1, <4>1, LaidStep
      <4>3. flat[k + 1] = flat[k] \o q[k + 1]
        <5>1. k + 1 # 1 /\ (k + 1) - 1 = k
          BY <3>1, <3>3
        <5> QED
          BY <2>4, <3>1, <5>1
      <4>4. Laid(q, k + 1, flat[k + 1], at, S)
        BY <4>2, <4>3
      <4>5. k + 1 \in 0 .. N
        BY <1>0, <3>1
      <4> QED
        BY <4>4, <4>5
    <3> QED
      BY <3>2, <3>3
  <2>7. N \in U
    <3> HIDE DEF U
    <3>1. \A k \in 0 .. N : k < N /\ k \in U => k + 1 \in U
      BY <2>6
    <3>2. \A k \in 0 .. N : k \in U
      BY <1>0, <2>5, <3>1, UpTo
    <3> QED
      BY <1>0, <3>2
  <2> QED
    BY <1>2, <2>1, <2>7
<1> QED
  BY <1>1, <1>2

(* One record of the file: the hook, the length of its list, the list. *)
HookRecord(h, list) == <<h, Len(list)>> \o list

LEMMA HookRecordIs ==
    ASSUME NEW S, NEW h \in S, Nat \subseteq S, NEW list \in Seq(Nat)
    PROVE  /\ HookRecord(h, list) \in Seq(S) /\ Len(HookRecord(h, list)) = 2 + Len(list)
           /\ HookRecord(h, list)[1] = h /\ HookRecord(h, list)[2] = Len(list)
           /\ \A m \in 1 .. Len(list) : HookRecord(h, list)[2 + m] = list[m]
<1> DEFINE b == <<h, Len(list)>>
<1>1. Len(list) \in Nat /\ Len(list) \in S /\ list \in Seq(S)
  <2>1. Len(list) \in Nat
    OBVIOUS
  <2>2. list \in Seq(S)
    BY SeqMonotonic
  <2> QED
    BY <2>1, <2>2
<1>2. b \in Seq(S) /\ Len(b) = 2 /\ b[1] = h /\ b[2] = Len(list)
  BY <1>1
<1> HIDE DEF b
<1>3. /\ b \o list \in Seq(S) /\ Len(b \o list) = Len(b) + Len(list)
      /\ \A i \in 1 .. Len(b) + Len(list) :
            (b \o list)[i] = IF i <= Len(b) THEN b[i] ELSE list[i - Len(b)]
  BY <1>1, <1>2, ConcatProperties
<1> DEFINE r == b \o list
<1> HIDE DEF r
<1>4. /\ r \in Seq(S) /\ Len(r) = 2 + Len(list)
      /\ \A i \in 1 .. 2 + Len(list) : r[i] = IF i <= 2 THEN b[i] ELSE list[i - 2]
  BY <1>2, <1>3 DEF r
<1>5. r[1] = h /\ r[2] = Len(list)
  BY <1>1, <1>2, <1>4
<1>6. ASSUME NEW m \in 1 .. Len(list) PROVE r[2 + m] = list[m]
  <2>1. 2 + m \in 1 .. 2 + Len(list) /\ ~(2 + m <= 2) /\ (2 + m) - 2 = m
    BY <1>1
  <2> QED
    BY <1>4, <2>1
<1> QED
  BY <1>4, <1>5, <1>6 DEF r, b, HookRecord

(* A turn of the loop at the beginning of a record reads that record. *)
LEMMA LoadHookIs ==
    ASSUME NEW S, NEW F \in Seq(S), NEW o \in Nat, NEW h, NEW list \in Seq(Nat), NEW last,
           last.offset = o + 1, o + 2 + Len(list) <= Len(F),
           \A m \in 1 .. 2 + Len(list) : F[o + m] = HookRecord(h, list)[m]
    PROVE  /\ LoadHook(F, last).offset = o + 2 + Len(list) + 1
           /\ LoadHook(F, last).hooks = Insert(last.hooks, Single(h, list))
<1> DEFINE l == Len(list)
           part == SubSeq(F, o + 3, o + 2 + l)
<1>1. l \in Nat /\ Len(F) \in Nat
  OBVIOUS
<1>2. /\ HookRecord(h, list)[1] = h /\ HookRecord(h, list)[2] = l
      /\ \A m \in 1 .. l : HookRecord(h, list)[2 + m] = list[m]
  <2> DEFINE R == {h} \cup Nat
  <2>1. h \in R /\ Nat \subseteq R
    OBVIOUS
  <2> HIDE DEF R
  <2> QED
    BY <2>1, HookRecordIs
<1>3. 1 \in 1 .. 2 + l /\ 2 \in 1 .. 2 + l /\ \A m \in 1 .. l : 2 + m \in 1 .. 2 + l
  BY <1>1
<1>4. F[o + 1] = h /\ F[o + 2] = l /\ \A m \in 1 .. l : F[o + (2 + m)] = list[m]
  BY <1>2, <1>3
<1>5. part = list
  <2>1. part = [i \in 1 .. l |-> F[o + 3 + i - 1]]
    BY <1>1
  <2>2. \A i \in 1 .. l : o + 3 + i - 1 = o + (2 + i)
    BY <1>1
  <2>3. part \in Seq(S) /\ Len(part) = l
    BY <1>1
  <2>4. \A i \in 1 .. l : part[i] = list[i]
    BY <1>4, <2>1, <2>2
  <2>5. DOMAIN part = 1 .. l /\ part = [i \in 1 .. l |-> part[i]]
    BY <2>1
  <2>6. list = [i \in 1 .. l |-> list[i]]
    OBVIOUS
  <2> HIDE DEF part
  <2> QED
    BY <2>4, <2>5, <2>6
<1>6. ~(last.offset > Len(F)) /\ last.offset + 1 = o + 2 /\ last.offset + 2 = o + 3
  BY <1>1
<1>7. F[last.offset] = h /\ F[last.offset + 1] = l
  BY <1>4, <1>6
<1>8. last.offset + 2 + F[last.offset + 1] = o + 2 + l + 1 /\ (o + 2 + l + 1) - 1 = o + 2 + l
  BY <1>1, <1>7
<1>9. LoadHook(F, last) = [offset |-> o + 2 + l + 1, hooks |-> Insert(last.hooks, Single(h, part))]
  BY <1>6, <1>7, <1>8 DEF LoadHook
<1> HIDE DEF part
<1> QED
  BY <1>5, <1>9

(* The loop that LoadHookIndex runs, as a function of the number of turns. *)
LEMMA LoadHookLoop ==
    ASSUME NEW S, NEW F \in Seq(S)
    PROVE  \E turn : /\ turn[0] = [offset |-> 1, hooks |-> << >>]
                     /\ \A n \in 1 .. Len(F) : turn[n] = LoadHook(F, turn[n - 1])
                     /\ LoadHookIndex(F) = turn[Len(F)].hooks
<1> DEFINE N == Len(F)
           start == [offset |-> 1, hooks |-> << >>]
           Rec(g, k) == g = [n \in 0 .. k |-> IF n = 0 THEN start ELSE LoadHook(F, g[n - 1])]
           turn == CHOOSE g : Rec(g, N)
<1>0. N \in Nat
  OBVIOUS
<1>1. LoadHookIndex(F) = turn[N].hooks
  BY DEF LoadHookIndex
<1> HIDE DEF start
<1>2. \E g : Rec(g, N)
  <2> DEFINE T == {k \in 0 .. N : \E g : Rec(g, k)}
  <2>1. 0 \in T
    <3> DEFINE g == [n \in 0 .. 0 |-> start]
    <3>1. Rec(g, 0)
      OBVIOUS
    <3> HIDE DEF g, Rec
    <3> QED
      BY <1>0, <3>1
  <2>2. ASSUME NEW k \in 0 .. N, k < N, k \in T PROVE k + 1 \in T
    <3>1. PICK g : Rec(g, k)
      BY <2>2
    <3> DEFINE h == [n \in 0 .. k + 1 |-> IF n = k + 1 THEN LoadHook(F, g[k]) ELSE g[n]]
    <3>2. \A n \in 0 .. k : g[n] = IF n = 0 THEN start ELSE LoadHook(F, g[n - 1])
      BY <3>1
    <3>3. ASSUME NEW n \in 0 .. k + 1 PROVE h[n] = IF n = 0 THEN start ELSE LoadHook(F, h[n - 1])
      <4>1. CASE n = k + 1
        <5>1. n # 0 /\ n - 1 \in 0 .. k + 1 /\ n - 1 # k + 1 /\ n - 1 = k
          BY <4>1
        <5>2. h[n - 1] = g[k] /\ h[n] = LoadHook(F, g[k])
          BY <4>1, <5>1
        <5> QED
          BY <5>1, <5>2
      <4>2. CASE n # k + 1
        <5>1. n \in 0 .. k /\ h[n] = g[n]
          BY <4>2
        <5>2. n # 0 => n - 1 \in 0 .. k + 1 /\ n - 1 # k + 1
          BY <5>1
        <5>3. n # 0 => h[n - 1] = g[n - 1]
          BY <5>2
        <5> QED
          BY <3>2, <5>1, <5>3
      <4> QED
        BY <4>1, <4>2
    <3>4. Rec(h, k + 1)
      <4>1. h = [n \in 0 .. k + 1 |-> h[n]]
        OBVIOUS
      <4> HIDE DEF h
      <4> QED
        BY <3>3, <4>1
    <3> HIDE DEF h
    <3>5. k + 1 \in 0 .. N
      BY <1>0, <2>2
    <3> QED
      BY <3>4, <3>5
  <2> HIDE DEF T
  <2>3. \A k \in 0 .. N : k < N /\ k \in T => k + 1 \in T
    BY <2>2
  <2>4. \A k \in 0 .. N : k \in T
    BY <1>0, <2>1, <2>3, UpTo
  <2>5. N \in T
    BY <1>0, <2>4
  <2> QED
    BY <2>5 DEF T
<1>3. Rec(turn, N)
  BY <1>2
<1> HIDE DEF turn
<1>4. \A n \in 0 .. N : turn[n] = IF n = 0 THEN start ELSE LoadHook(F, turn[n - 1])
  BY <1>3
<1>5. turn[0] = start
  BY <1>0, <1>4
<1>6. \A n \in 1 .. N : turn[n] = LoadHook(F, turn[n - 1])
  BY <1>0, <1>4
<1> QED
  BY <1>1, <1>5, <1>6 DEF start

(* The first n hooks of the sequence hs, with their lists in f. *)
FirstHooks(t, hs, n, f) ==
    /\ \A k \in DOMAIN t : (\E i \in 1 .. n : k = hs[i]) /\ t[k] = f[k]
    /\ \A i \in 1 .. n : hs[i] \in DOMAIN t

LEMMA FirstHooksStep ==
    ASSUME NEW t, NEW hs, NEW n \in Nat, NEW f, FirstHooks(t, hs, n, f)
    PROVE  FirstHooks(Insert(t, Single(hs[n + 1], f[hs[n + 1]])), hs, n + 1, f)
<1> DEFINE x == hs[n + 1]
           u == Insert(t, Single(x, f[x]))
<1>1. /\ DOMAIN u = DOMAIN t \cup {x}
      /\ \A k \in DOMAIN u : u[k] = IF k \in DOMAIN t THEN t[k] ELSE Single(x, f[x])[k]
  BY DEF Insert, Single
<1>2. Single(x, f[x])[x] = f[x]
  BY SingleIs
<1> HIDE DEF u
<1>3. n + 1 \in 1 .. n + 1 /\ \A i \in 1 .. n + 1 : i \in 1 .. n \/ i = n + 1
  OBVIOUS
<1>4. \A i \in 1 .. n : i \in 1 .. n + 1
  OBVIOUS
<1>5. ASSUME NEW k \in DOMAIN u PROVE (\E i \in 1 .. n + 1 : k = hs[i]) /\ u[k] = f[k]
  <2>1. CASE k \in DOMAIN t
    <3>1. PICK i \in 1 .. n : k = hs[i]
      BY <2>1 DEF FirstHooks
    <3>2. t[k] = f[k]
      BY <2>1 DEF FirstHooks
    <3> QED
      BY <1>1, <1>4, <2>1, <3>1, <3>2
  <2>2. CASE k \notin DOMAIN t
    <3>1. k = x
      BY <1>1, <2>2
    <3> QED
      BY <1>1, <1>2, <1>3, <2>2, <3>1
  <2> QED
    BY <2>1, <2>2
<1>6. ASSUME NEW i \in 1 .. n + 1 PROVE hs[i] \in DOMAIN u
  <2>1. i \in 1 .. n => hs[i] \in DOMAIN t
    BY DEF FirstHooks
  <2> QED
    BY <1>1, <1>3, <2>1
<1>7. FirstHooks(u, hs, n + 1, f)
  BY <1>5, <1>6 DEF FirstHooks
<1> QED
  BY <1>7 DEF u, x

(* LoadHookIndex undoes PersistHookIndex: every turn reads one record, and   *)
(* when the last one is read the offset is behind the file.                  *)
LEMMA HookIndexBack ==
    ASSUME index # << >>, IsFiniteSet(DOMAIN index), \A k \in DOMAIN index : index[k] \in Seq(Nat)
    PROVE  /\ PersistHookIndex # << >>
           /\ Same(LoadHookIndex(PersistHookIndex[1]), index)
<1> DEFINE hs == SetToSeq(DOMAIN index)
           N == Cardinality(DOMAIN index)
           S == DOMAIN index \cup Nat
           q == [n \in DOMAIN hs |-> HookRecord(hs[n], index[hs[n]])]
           F == FlattenSeq(q)
<1>1. PersistHookIndex = <<F>>
  BY DEF PersistHookIndex, HookRecord
<1>2. /\ N \in Nat /\ hs \in [1 .. N -> DOMAIN index]
      /\ \A e \in DOMAIN index : \E n \in 1 .. N : hs[n] = e
  BY SetToSeqIs
<1>3. DOMAIN index \subseteq S /\ Nat \subseteq S
  OBVIOUS
<1> HIDE DEF hs, N, S
<1>4. DOMAIN hs = 1 .. N /\ \A n \in 1 .. N : hs[n] \in DOMAIN index /\ index[hs[n]] \in Seq(Nat)
  BY <1>2
<1>5. ASSUME NEW n \in 1 .. N
      PROVE  HookRecord(hs[n], index[hs[n]]) \in Seq(S) /\ Len(HookRecord(hs[n], index[hs[n]])) = 2 + Len(index[hs[n]])
  <2>1. hs[n] \in S /\ index[hs[n]] \in Seq(Nat)
    BY <1>3, <1>4
  <2> DEFINE h == hs[n]
             list == index[hs[n]]
  <2>2. h \in S /\ list \in Seq(Nat)
    BY <2>1
  <2> HIDE DEF h, list
  <2>3. HookRecord(h, list) \in Seq(S) /\ Len(HookRecord(h, list)) = 2 + Len(list)
    BY <1>3, <2>2, HookRecordIs
  <2> QED
    BY <2>3 DEF h, list
<1>6. q \in Seq(Seq(S)) /\ Len(q) = N
  <2>1. q \in [1 .. N -> Seq(S)]
    BY <1>4, <1>5
  <2> QED
    BY <1>2, <2>1
<1>7. \A n \in 1 .. N : q[n] = HookRecord(hs[n], index[hs[n]])
  BY <1>4
<1> HIDE DEF q
<1>8. PICK at : Laid(q, N, F, at, S)
  BY <1>6, FlattenIs
<1> HIDE DEF F
<1>9. /\ F \in Seq(S) /\ Len(F) \in Nat /\ at \in [0 .. N -> Nat] /\ at[0] = 0 /\ at[N] = Len(F)
      /\ \A n \in 0 .. N : at[n] \in Nat /\ at[n] <= Len(F)
  <2>1. F \in Seq(S) /\ at \in [0 .. N -> Nat] /\ at[0] = 0 /\ at[N] = Len(F) /\ \A n \in 0 .. N : at[n] <= Len(F)
    BY <1>8 DEF Laid
  <2>2. Len(F) \in Nat
    BY <2>1
  <2>3. \A n \in 0 .. N : at[n] \in Nat
    BY <2>1
  <2> QED
    BY <2>1, <2>2, <2>3
<1>10. ASSUME NEW n \in 0 .. N, n < N
       PROVE  /\ at[n + 1] = at[n] + (2 + Len(index[hs[n + 1]]))
              /\ \A m \in 1 .. 2 + Len(index[hs[n + 1]]) : F[at[n] + m] = HookRecord(hs[n + 1], index[hs[n + 1]])[m]
  <2>1. n + 1 \in 1 .. N /\ (n + 1) - 1 = n
    BY <1>2, <1>10
  <2>2. q[n + 1] = HookRecord(hs[n + 1], index[hs[n + 1]]) /\ Len(q[n + 1]) = 2 + Len(index[hs[n + 1]])
    BY <1>5, <1>7, <2>1
  <2>3. at[n + 1] = at[n] + Len(q[n + 1]) /\ \A m \in 1 .. Len(q[n + 1]) : F[at[n] + m] = q[n + 1][m]
    BY <1>8, <2>1 DEF Laid
  <2> QED
    BY <2>2, <2>3
<1>11. N <= Len(F)
  <2> DEFINE T == {n \in 0 .. N : n <= at[n]}
  <2>1. 0 \in T
    BY <1>2, <1>9
  <2>2. ASSUME NEW n \in 0 .. N, n < N, n \in T PROVE n + 1 \in T
    <3>1. n + 1 \in 1 .. N /\ n + 1 \in 0 .. N
      BY <1>2, <2>2
    <3>2. Len(index[hs[n + 1]]) \in Nat
      BY <1>4, <3>1
    <3>3. at[n + 1] = at[n] + (2 + Len(index[hs[n + 1]])) /\ at[n] \in Nat /\ n <= at[n]
      BY <1>9, <1>10, <2>2
    <3>4. \A a, b \in Nat : n <= a => n + 1 <= a + (2 + b)
      OBVIOUS
    <3> QED
      BY <3>1, <3>2, <3>3, <3>4
  <2> HIDE DEF T
  <2>3. \A n \in 0 .. N : n < N /\ n \in T => n + 1 \in T
    BY <2>2
  <2>4. \A n \in 0 .. N : n \in T
    BY <1>2, <2>1, <2>3, UpTo
  <2>5. N \in T
    BY <1>2, <2>4
  <2> QED
    BY <1>9, <2>5 DEF T
<1>12. PICK turn : /\ turn[0] = [offset |-> 1, hooks |-> << >>]
                   /\ \A n \in 1 .. Len(F) : turn[n] = LoadHook(F, turn[n - 1])
                   /\ LoadHookIndex(F) = turn[Len(F)].hooks
  BY <1>9, LoadHookLoop
<1>13. turn[N].offset = Len(F) + 1 /\ FirstHooks(turn[N].hooks, hs, N, index)
  <2> DEFINE T == {n \in 0 .. N : turn[n].offset = at[n] + 1 /\ FirstHooks(turn[n].hooks, hs, n, index)}
  <2>1. 0 \in T
    <3>1. turn[0].offset = at[0] + 1 /\ turn[0].hooks = << >>
      BY <1>9, <1>12
    <3>2. FirstHooks(<< >>, hs, 0, index)
      BY DEF FirstHooks
    <3> QED
      BY <1>2, <3>1, <3>2
  <2>2. ASSUME NEW n \in 0 .. N, n < N, n \in T PROVE n + 1 \in T
    <3> DEFINE h == hs[n + 1]
               list == index[h]
               o == at[n]
               last == turn[n]
    <3>1. n + 1 \in 1 .. N /\ n + 1 \in 0 .. N /\ n \in Nat /\ n + 1 \in 1 .. Len(F) /\ (n + 1) - 1 = n
      BY <1>2, <1>9, <1>11, <2>2
    <3>2. list \in Seq(Nat) /\ o \in Nat /\ last.offset = o + 1 /\ Len(list) \in Nat
      BY <1>4, <1>9, <2>2, <3>1
    <3>3. at[n + 1] = o + (2 + Len(list)) /\ at[n + 1] <= Len(F)
      BY <1>9, <1>10, <2>2, <3>1
    <3>4. \A m \in 1 .. 2 + Len(list) : F[o + m] = HookRecord(h, list)[m]
      BY <1>10, <2>2
    <3>5. turn[n + 1] = LoadHook(F, last)
      BY <1>12, <3>1
    <3>6. FirstHooks(Insert(last.hooks, Single(h, list)), hs, n + 1, index)
      BY <2>2, <3>1, FirstHooksStep
    <3> HIDE DEF h, list, o, last
    <3>7. \A a, b \in Nat : a + 2 + b = a + (2 + b) /\ a + 2 + b + 1 = a + (2 + b) + 1
      OBVIOUS
    <3>8. o + 2 + Len(list) <= Len(F) /\ o + 2 + Len(list) + 1 = at[n + 1] + 1
      BY <3>2, <3>3, <3>7
    <3>9. LoadHook(F, last).offset = o + 2 + Len(list) + 1 /\ LoadHook(F, last).hooks = Insert(last.hooks, Single(h, list))
      BY <1>9, <3>2, <3>4, <3>8, LoadHookIs
    <3>10. turn[n + 1].offset = at[n + 1] + 1 /\ FirstHooks(turn[n + 1].hooks, hs, n + 1, index)
      BY <3>5, <3>6, <3>8, <3>9
    <3> QED
      BY <3>1, <3>10
  <2> HIDE DEF T
  <2>3. \A n \in 0 .. N : n < N /\ n \in T => n + 1 \in T
    BY <2>2
  <2>4. \A n \in 0 .. N : n \in T
    BY <1>2, <2>1, <2>3, UpTo
  <2>5. N \in T
    BY <1>2, <2>4
  <2> QED
    BY <1>9, <2>5 DEF T
<1>14. turn[Len(F)] = turn[N]
  <2> DEFINE M == Len(F) - N
             U == {j \in 0 .. M : turn[N + j] = turn[N]}
  <2>1. M \in Nat /\ N + M = Len(F) /\ N + 0 = N
    BY <1>2, <1>9, <1>11
  <2>2. 0 \in U
    BY <2>1
  <2>3. ASSUME NEW j \in 0 .. M, j < M, j \in U PROVE j + 1 \in U
    <3>1. N + (j + 1) \in 1 .. Len(F) /\ (N + (j + 1)) - 1 = N + j /\ j + 1 \in 0 .. M
      BY <1>2, <1>9, <2>1, <2>3
    <3>2. turn[N + (j + 1)] = LoadHook(F, turn[N])
      <4> DEFINE i == N + (j + 1)
      <4>0. turn[N + j] = turn[N]
        BY <2>3
      <4>1. i \in 1 .. Len(F) /\ i - 1 = N + j
        BY <1>2, <3>1
      <4> HIDE DEF i
      <4>2. turn[i] = LoadHook(F, turn[i - 1])
        BY <1>12, <4>1
      <4> QED
        BY <4>0, <4>1, <4>2 DEF i
    <3>3. turn[N].offset > Len(F)
      BY <1>9, <1>13
    <3>4. LoadHook(F, turn[N]) = turn[N]
      BY <3>3 DEF LoadHook
    <3> QED
      BY <3>1, <3>2, <3>4
  <2> HIDE DEF U
  <2>4. \A j \in 0 .. M : j < M /\ j \in U => j + 1 \in U
    BY <2>3
  <2> HIDE DEF M
  <2>5. \A j \in 0 .. M : j \in U
    BY <2>1, <2>2, <2>4, UpTo
  <2>6. M \in U
    BY <2>1, <2>5
  <2> QED
    BY <2>1, <2>6 DEF U
<1> DEFINE t == turn[N].hooks
<1>15. LoadHookIndex(F) = t /\ FirstHooks(t, hs, N, index)
  BY <1>12, <1>13, <1>14
<1> HIDE DEF t
<1>16. Same(t, index)
  <2>1. ASSUME NEW k \in DOMAIN t PROVE k \in DOMAIN index /\ t[k] = index[k]
    <3>1. (\E i \in 1 .. N : k = hs[i]) /\ t[k] = index[k]
      BY <1>15 DEF FirstHooks
    <3> QED
      BY <1>4, <3>1
  <2>2. ASSUME NEW k \in DOMAIN index PROVE k \in DOMAIN t
    <3>1. PICK n \in 1 .. N : hs[n] = k
      BY <1>2
    <3> QED
      BY <1>15, <3>1 DEF FirstHooks
  <2> QED
    BY <2>1, <2>2 DEF Same
<1>17. PersistHookIndex # << >> /\ PersistHookIndex[1] = F
  BY <1>1
<1> QED
  BY <1>15, <1>16, <1>17
-----------------------------------------------------------------------------
(* Closed is inductive.                                                     *)

LEMMA SameItself == ASSUME NEW f PROVE Same(f, f)
BY DEF Same

LEMMA ClosedSame ==
    ASSUME NEW k, NEW n \in Nat, NEW m \in Nat, n <= m, NEW ix, NEW jx, NEW store, NEW tore,
           ClosedPair(k, n, ix, store), Same(jx, ix), Same(tore, store)
    PROVE  ClosedPair(k, m, jx, tore)
<1>1. DOMAIN jx = DOMAIN ix /\ \A x \in DOMAIN ix : jx[x] = ix[x]
  BY DEF Same
<1>2. DOMAIN tore = DOMAIN store /\ \A x \in DOMAIN store : tore[x] = store[x]
  BY DEF Same
<1>3. k = "EXTREME_BIN" => BinsClosed(jx, tore)
  BY <1>1, <1>2 DEF ClosedPair, BinsClosed
<1>4. CASE k = "SPARSE_INDEX"
  <2>1. HooksClosed(n, ix, store)
    BY <1>4 DEF ClosedPair
  <2>2. ASSUME NEW x \in DOMAIN ix
        PROVE  /\ jx[x] \in Seq(1 .. m) /\ Len(jx[x]) <= SPARSE_MANIFIEST_CAP_NUM
               /\ \A i \in 1 .. Len(jx[x]) : jx[x][i] \in DOMAIN tore /\ x \in DOMAIN tore[jx[x][i]]
    <3>1. /\ ix[x] \in Seq(1 .. n) /\ Len(ix[x]) <= SPARSE_MANIFIEST_CAP_NUM
          /\ \A i \in 1 .. Len(ix[x]) : ix[x][i] \in DOMAIN store /\ x \in DOMAIN store[ix[x][i]]
      BY <2>1 DEF HooksClosed
    <3>2. 1 .. n \subseteq 1 .. m
      OBVIOUS
    <3>3. ix[x] \in Seq(1 .. m)
      BY <3>1, <3>2, SeqMonotonic
    <3> QED
      BY <1>1, <1>2, <3>1, <3>3
  <2>3. HooksClosed(m, jx, tore)
    BY <1>1, <2>1, <2>2 DEF HooksClosed
  <2> QED
    BY <1>4, <2>3 DEF ClosedPair
<1>5. CASE k # "SPARSE_INDEX"
  BY <1>1, <1>2, <1>3, <1>5 DEF ClosedPair
<1> QED
  BY <1>4, <1>5

LEMMA ClosedMore ==
    ASSUME NEW k, NEW n \in Nat, NEW m \in Nat, n <= m, NEW ix, NEW store, ClosedPair(k, n, ix, store)
    PROVE  ClosedPair(k, m, ix, store)
BY ClosedSame, SameItself

LEMMA UsedSame ==
    ASSUME NEW k, NEW n \in Nat, NEW m \in Nat, n <= m, NEW ix, NEW jx, IDsUsed(k, n, ix),
           k = "EXTREME_BIN" => Same(jx, ix)
    PROVE  IDsUsed(k, m, jx)
<1> SUFFICES ASSUME k = "EXTREME_BIN", NEW x \in DOMAIN jx PROVE jx[x].binID \in 1 .. m
  BY DEF IDsUsed
<1>1. x \in DOMAIN ix /\ jx[x] = ix[x]
  BY DEF Same
<1>2. ix[x].binID \in 1 .. n
  BY <1>1 DEF IDsUsed
<1> QED
  BY <1>1, <1>2

(* What SealIndex writes is what is read at the next start, hook index       *)
(* included.                                                                 *)
LEMMA SealedAll ==
    ASSUME Basics, Closed, "torn" \notin damage, SealIndex, kind # "OUT_ENCLAVE"
    PROVE  Same(LoadedIndex', index)
<1>1. kind' = kind /\ phase = "running" /\ kind \in Kinds
  BY DEF SealIndex, Basics, IndexTypes
<1>2. CASE kind = "SPARSE_INDEX" /\ index # << >>
  <2>1. HooksClosed(ids, index, indexStore)
    BY <1>1, <1>2 DEF Closed, ClosedPair
  <2>2. ASSUME NEW k \in DOMAIN index PROVE index[k] \in Seq(Nat)
    <3>1. index[k] \in Seq(1 .. ids) /\ 1 .. ids \subseteq Nat
      BY <2>1 DEF HooksClosed, Basics, Addresses
    <3> QED
      BY <3>1, SeqMonotonic
  <2>3. IsFiniteSet(DOMAIN index)
    BY <2>1 DEF HooksClosed
  <2>4. PersistHookIndex # << >> /\ Same(LoadHookIndex(PersistHookIndex[1]), index)
    BY <1>2, <2>2, <2>3, HookIndexBack
  <2>5. sealedIndex' = PersistHookIndex
    BY <1>2 DEF SealIndex
  <2>6. LoadedIndex' = LoadHookIndex(PersistHookIndex[1])
    <3>1. LoadHookIndex(sealedIndex[1])' = LoadHookIndex(sealedIndex'[1])
      BY DEF LoadHookIndex, LoadHook
    <3>2. LoadedIndex' = LoadHookIndex(sealedIndex[1])'
      BY <1>1, <1>2, <2>4, <2>5 DEF LoadedIndex
    <3> QED
      BY <2>5, <3>1, <3>2
  <2> QED
    BY <2>4, <2>6
<1>3. CASE kind = "SPARSE_INDEX" /\ index = << >>
  <2>1. sealedIndex' = sealedIndex
    BY <1>3 DEF SealIndex, PersistHookIndex
  <2>2. LoadedIndex' = LoadedIndex
    BY <1>1, <2>1, LoadedKept
  <2>3. DOMAIN LoadedIndex \subseteq DOMAIN index /\ DOMAIN index = {}
    BY <1>1, <1>3 DEF Closed
  <2> QED
    BY <2>2, <2>3 DEF Same
<1>4. CASE kind # "SPARSE_INDEX"
  <2>1. kind \in {"IN_ENCLAVE", "FREQ_INDEX", "EXTREME_BIN"}
    BY <1>1, <1>4, IndexAssumption
  <2> QED
    BY <2>1, Sealed DEF Basics
<1> QED
  BY <1>2, <1>3, <1>4

(* A segment of extreme binning: the bin keeps what it held, and a new bin   *)
(* has an ID that no entry of the index has.                                 *)
LEMMA BinNew ==
    ASSUME NEW s, ids \in Nat, IDsUsed("EXTREME_BIN", ids, index)
    PROVE  /\ Bin(s) \in 1 .. ids + 1
           /\ MinHash(s) \in DOMAIN index => Bin(s) = index[MinHash(s)].binID /\ Bin(s) \in 1 .. ids
           /\ MinHash(s) \notin DOMAIN index =>
                 Bin(s) = ids + 1 /\ \A x \in DOMAIN index : index[x].binID # Bin(s)
<1>1. CASE MinHash(s) \in DOMAIN index
  BY <1>1 DEF Bin, IDsUsed
<1>2. CASE MinHash(s) \notin DOMAIN index
  <2>1. Bin(s) = ids + 1
    BY <1>2 DEF Bin
  <2>2. \A x \in DOMAIN index : index[x].binID \in 1 .. ids
    BY DEF IDsUsed
  <2>3. ids + 1 \notin 1 .. ids /\ ids + 1 \in 1 .. ids + 1
    OBVIOUS
  <2> QED
    BY <1>2, <2>1, <2>2, <2>3
<1> QED
  BY <1>1, <1>2

LEMMA ExtremeIs ==
    ASSUME ids \in Nat, IDsUsed("EXTREME_BIN", ids, index), NEW s, ExtremeSegment(s)
    PROVE  /\ kind = "EXTREME_BIN" /\ ids' \in Nat /\ ids <= ids' /\ IDsUsed("EXTREME_BIN", ids', index')
           /\ DOMAIN index' = DOMAIN index \cup {MinHash(s)}
           /\ \A x \in DOMAIN index : index'[x] = index[x]
           /\ index'[MinHash(s)].binID = Bin(s)
           /\ MinHash(s) \notin DOMAIN index => index'[MinHash(s)].segmentHash = s
           /\ DOMAIN indexStore' = DOMAIN indexStore \cup {Bin(s)}
           /\ \A id \in DOMAIN indexStore : id # Bin(s) => indexStore'[id] = indexStore[id]
           /\ Range(s) \subseteq DOMAIN indexStore'[Bin(s)]
           /\ MinHash(s) \in DOMAIN index =>
                 Bin(s) \in DOMAIN indexStore /\ DOMAIN indexStore[Bin(s)] \subseteq DOMAIN indexStore'[Bin(s)]
<1> DEFINE d == FetchBin(s)
           bin == UpdateBinStore(s, d)
           h == MinHash(s)
           b == Bin(s)
           e == [segmentHash |-> s, binID |-> b]
<1>1. /\ kind = "EXTREME_BIN" /\ ~ExtremeFails(s)
      /\ indexStore' = Insert(Single(b, bin), indexStore)
      /\ index' = Insert(index, Single(h, e))
      /\ ids' = IF h \in DOMAIN index THEN ids ELSE ids + 1
  BY DEF ExtremeSegment
<1>2. h \in DOMAIN index => b \in DOMAIN indexStore /\ d = indexStore[b]
  BY <1>1 DEF ExtremeFails, FetchBin
<1>3. DOMAIN bin = DOMAIN d \cup (Range(s) \ DOMAIN d)
  BY NewAddrsDomain DEF UpdateBinStore, Insert, Unique
<1>4. e.segmentHash = s /\ e.binID = b
  OBVIOUS
<1>5. /\ b \in 1 .. ids + 1
      /\ h \in DOMAIN index => b = index[h].binID /\ b \in 1 .. ids
      /\ h \notin DOMAIN index => b = ids + 1 /\ \A x \in DOMAIN index : index[x].binID # b
  BY BinNew
<1> HIDE DEF d, bin, h, b, e
<1>6. /\ DOMAIN index' = DOMAIN index \cup {h}
      /\ \A x \in DOMAIN index : index'[x] = index[x]
      /\ h \notin DOMAIN index => index'[h] = e
  BY <1>1 DEF Insert, Single
<1>7. /\ DOMAIN indexStore' = DOMAIN indexStore \cup {b}
      /\ indexStore'[b] = bin
      /\ \A id \in DOMAIN indexStore : id # b => indexStore'[id] = indexStore[id]
  BY <1>1 DEF Insert, Single
<1>8. index'[h].binID = b
  BY <1>4, <1>5, <1>6
<1>9. ids' \in Nat /\ ids <= ids' /\ b \in 1 .. ids' /\ 1 .. ids \subseteq 1 .. ids'
  BY <1>1, <1>5
<1>10. ASSUME NEW x \in DOMAIN index' PROVE index'[x].binID \in 1 .. ids'
  <2>1. x \in DOMAIN index => index[x].binID \in 1 .. ids
    BY DEF IDsUsed
  <2> QED
    BY <1>6, <1>8, <1>9, <2>1
<1>11. IDsUsed("EXTREME_BIN", ids', index')
  BY <1>10 DEF IDsUsed
<1>12. Range(s) \subseteq DOMAIN indexStore'[b]
  BY <1>3, <1>7
<1>13. h \in DOMAIN index => b \in DOMAIN indexStore /\ DOMAIN indexStore[b] \subseteq DOMAIN indexStore'[b]
  BY <1>2, <1>3, <1>7
<1>14. h \notin DOMAIN index => index'[h].segmentHash = s
  BY <1>4, <1>6
<1> QED
  BY <1>1, <1>6, <1>7, <1>8, <1>9, <1>11, <1>12, <1>13, <1>14 DEF h, b

LEMMA ExtremeClosed ==
    ASSUME ids \in Nat, IDsUsed("EXTREME_BIN", ids, index), BinsClosed(index, indexStore),
           NEW s, ExtremeSegment(s)
    PROVE  BinsClosed(index', indexStore')
<1> DEFINE h == MinHash(s)
           b == Bin(s)
<1>1. /\ DOMAIN index' = DOMAIN index \cup {h}
      /\ \A x \in DOMAIN index : index'[x] = index[x]
      /\ index'[h].binID = b /\ (h \notin DOMAIN index => index'[h].segmentHash = s)
  BY ExtremeIs
<1>2. /\ DOMAIN indexStore' = DOMAIN indexStore \cup {b}
      /\ \A id \in DOMAIN indexStore : id # b => indexStore'[id] = indexStore[id]
      /\ Range(s) \subseteq DOMAIN indexStore'[b]
      /\ h \in DOMAIN index => DOMAIN indexStore[b] \subseteq DOMAIN indexStore'[b]
  BY ExtremeIs
<1>3. h \notin DOMAIN index => \A x \in DOMAIN index : index[x].binID # b
  BY BinNew
<1> HIDE DEF h, b
<1>4. ASSUME NEW x \in DOMAIN index'
      PROVE  /\ index'[x].binID \in DOMAIN indexStore'
             /\ Range(index'[x].segmentHash) \subseteq DOMAIN indexStore'[index'[x].binID]
  <2>1. CASE x \in DOMAIN index
    <3>1. /\ index'[x] = index[x] /\ index[x].binID \in DOMAIN indexStore
          /\ Range(index[x].segmentHash) \subseteq DOMAIN indexStore[index[x].binID]
      BY <1>1, <2>1 DEF BinsClosed
    <3>2. CASE index[x].binID = b
      BY <1>2, <1>3, <2>1, <3>1, <3>2
    <3>3. CASE index[x].binID # b
      BY <1>2, <3>1, <3>3
    <3> QED
      BY <3>2, <3>3
  <2>2. CASE x \notin DOMAIN index
    <3>1. x = h /\ index'[x].binID = b /\ index'[x].segmentHash = s
      BY <1>1, <2>2
    <3> QED
      BY <1>2, <3>1
  <2> QED
    BY <2>1, <2>2
<1> QED
  BY <1>4 DEF BinsClosed

(* A segment of sparse indexing: only the hooks of the segment get the new   *)
(* manifest, which has all of them, and no list had its ID.                  *)
LEMMA SparseClosed ==
    ASSUME ids \in Nat, HooksClosed(ids, index, indexStore), NEW s \in Seq(Fp), SparseSegment(s)
    PROVE  /\ ids' \in Nat /\ ids <= ids' /\ HooksClosed(ids', index', indexStore')
           /\ DOMAIN index \subseteq DOMAIN index'
<1> DEFINE hooks == HookSet(s)
           cap == SPARSE_MANIFIEST_CAP_NUM
           new == ids + 1
<1>0. cap \in Nat /\ cap > 0
  BY IndexAssumption
<1>1. PICK manifest :
        \/ /\ DOMAIN manifest = Range(s) /\ ids' = new
           /\ indexStore' = Insert(Single(new, manifest), indexStore)
           /\ index' = UpdateHookIndex(new, hooks)
        \/ UNCHANGED <<ids, indexStore, index>>
  <2>1. PICK champions :
          LET d == LoadManifiests(champions)
              manifest == [fp \in Range(s) |-> Insert(d, NewAddrs(s, d))[fp]]
          IN \/ /\ ids' = ids + 1
                /\ indexStore' = Insert(Single(ids + 1, manifest), indexStore)
                /\ index' = UpdateHookIndex(ids + 1, HookSet(s))
             \/ UNCHANGED <<ids, indexStore, index>>
    BY DEF SparseSegment
  <2> DEFINE d == LoadManifiests(champions)
             manifest == [fp \in Range(s) |-> Insert(d, NewAddrs(s, d))[fp]]
  <2>2. DOMAIN manifest = Range(s)
    OBVIOUS
  <2>3. \/ /\ ids' = ids + 1
           /\ indexStore' = Insert(Single(ids + 1, manifest), indexStore)
           /\ index' = UpdateHookIndex(ids + 1, HookSet(s))
        \/ UNCHANGED <<ids, indexStore, index>>
    BY <2>1
  <2> HIDE DEF manifest
  <2> QED
    BY <2>2, <2>3
<1>2. CASE UNCHANGED <<ids, indexStore, index>>
  BY <1>2
<1>3. CASE /\ DOMAIN manifest = Range(s) /\ ids' = new
           /\ indexStore' = Insert(Single(new, manifest), indexStore)
           /\ index' = UpdateHookIndex(new, hooks)
  <2>1. hooks \subseteq Range(s) /\ IsFiniteSet(hooks)
    <3>1. IsFiniteSet(Range(s))
      <4>0. 1 \in Int /\ Len(s) \in Int /\ DOMAIN s = 1 .. Len(s) /\ s = [i \in 1 .. Len(s) |-> s[i]]
        OBVIOUS
      <4>1. IsFiniteSet(1 .. Len(s)) /\ s \in [1 .. Len(s) -> Range(s)]
        BY <4>0, FS_Interval DEF Range
      <4>2. s \in Surjection(1 .. Len(s), Range(s))
        BY <4>1 DEF Surjection, Range
      <4> QED
        BY <4>1, <4>2, FS_Surjection
    <3>2. hooks \subseteq Range(s)
      BY DEF HookSet
    <3> QED
      BY <3>1, <3>2, FS_Subset
  <2> HIDE DEF hooks
  <2>2. IsFiniteSet(DOMAIN index \cup hooks)
    BY <2>1, FS_Union DEF HooksClosed
  <2>3. DOMAIN index' = DOMAIN index \cup hooks
    BY <1>3 DEF UpdateHookIndex
  <2>4. /\ new \notin 1 .. ids /\ new \in 1 .. new /\ 1 .. ids \subseteq 1 .. new /\ new \in Nat /\ ids <= new
    OBVIOUS
  <2> HIDE DEF new
  <2>5. new \in DOMAIN indexStore' /\ DOMAIN indexStore'[new] = Range(s)
    BY <1>3 DEF Insert, Single
  <2>6. \A id \in DOMAIN indexStore : id \in DOMAIN indexStore' /\ (id # new => indexStore'[id] = indexStore[id])
    BY <1>3 DEF Insert, Single
  <2>7. ASSUME NEW x \in DOMAIN index'
        PROVE  /\ index'[x] \in Seq(1 .. new) /\ Len(index'[x]) <= cap
               /\ \A m \in 1 .. Len(index'[x]) : index'[x][m] \in DOMAIN indexStore' /\ x \in DOMAIN indexStore'[index'[x][m]]
    <3> DEFINE list == IF x \in DOMAIN index THEN index[x] ELSE << >>
               kept == IF Len(list) < cap THEN list ELSE Tail(list)
    <3>1. /\ list \in Seq(1 .. ids) /\ Len(list) <= cap
          /\ \A m \in 1 .. Len(list) : list[m] \in DOMAIN indexStore /\ x \in DOMAIN indexStore[list[m]]
      <4>1. CASE x \in DOMAIN index
        BY <4>1 DEF HooksClosed
      <4>2. CASE x \notin DOMAIN index
        <5>1. << >> \in Seq(1 .. ids) /\ Len(<< >>) = 0
          OBVIOUS
        <5> QED
          BY <1>0, <4>2, <5>1
      <4> QED
        BY <4>1, <4>2
    <3>2. index'[x] = IF x \notin hooks THEN list ELSE Append(kept, new)
      BY <1>3, <2>3 DEF UpdateHookIndex
    <3> HIDE DEF list
    <3>3. /\ kept \in Seq(1 .. ids) /\ Len(kept) + 1 <= cap
          /\ \A m \in 1 .. Len(kept) : kept[m] \in DOMAIN indexStore /\ x \in DOMAIN indexStore[kept[m]]
      <4>1. CASE Len(list) < cap
        BY <1>0, <3>1, <4>1
      <4>2. CASE ~(Len(list) < cap)
        <5>1. Len(list) = cap /\ list # << >>
          BY <1>0, <3>1, <4>2
        <5> DEFINE t == Tail(list)
        <5>2. t \in Seq(1 .. ids) /\ Len(t) = Len(list) - 1 /\ \A m \in 1 .. Len(list) - 1 : t[m] = list[m + 1]
          BY <3>1, <5>1
        <5>3. kept = t
          BY <4>2
        <5> HIDE DEF kept, t
        <5>4. ASSUME NEW m \in 1 .. Len(list) - 1 PROVE m + 1 \in 1 .. Len(list)
          BY <3>1
        <5>5. kept \in Seq(1 .. ids) /\ Len(kept) = Len(list) - 1 /\ Len(list) = cap
              /\ \A m \in 1 .. Len(list) - 1 : kept[m] = list[m + 1]
          BY <5>1, <5>2, <5>3
        <5>6. ASSUME NEW m \in 1 .. Len(kept)
              PROVE  kept[m] \in DOMAIN indexStore /\ x \in DOMAIN indexStore[kept[m]]
          <6>1. m \in 1 .. Len(list) - 1
            BY <5>5
          <6>2. kept[m] = list[m + 1] /\ m + 1 \in 1 .. Len(list)
            BY <5>4, <5>5, <6>1
          <6> QED
            BY <3>1, <6>2
        <5>7. Len(kept) + 1 <= cap
          BY <1>0, <5>5
        <5> QED
          BY <5>5, <5>6, <5>7
      <4> QED
        BY <4>1, <4>2
    <3> HIDE DEF kept
    <3>4. ASSUME NEW id \in 1 .. ids, id \in DOMAIN indexStore, x \in DOMAIN indexStore[id]
          PROVE  id \in DOMAIN indexStore' /\ x \in DOMAIN indexStore'[id]
      BY <2>4, <2>6, <3>4
    <3>5. CASE x \notin hooks
      <4>1. index'[x] = list /\ list \in Seq(1 .. new)
        BY <2>4, <3>1, <3>2, <3>5, SeqMonotonic
      <4>2. \A m \in 1 .. Len(list) : list[m] \in 1 .. ids
        BY <3>1
      <4> QED
        BY <3>1, <3>4, <4>1, <4>2
    <3>6. CASE x \in hooks
      <4> DEFINE l == Append(kept, new)
      <4>1. kept \in Seq(1 .. new)
        BY <2>4, <3>3, SeqMonotonic
      <4>2. l \in Seq(1 .. new) /\ Len(l) = Len(kept) + 1 /\ l[Len(kept) + 1] = new
        BY <2>4, <4>1
      <4>3. \A m \in 1 .. Len(kept) : l[m] = kept[m] /\ kept[m] \in 1 .. ids
        BY <3>3
      <4>4. index'[x] = l
        BY <3>2, <3>6
      <4> HIDE DEF l
      <4>5. ASSUME NEW m \in 1 .. Len(kept) + 1
            PROVE  l[m] \in DOMAIN indexStore' /\ x \in DOMAIN indexStore'[l[m]]
        <5>1. CASE m = Len(kept) + 1
          BY <2>1, <2>5, <3>6, <4>2, <5>1
        <5>2. CASE m # Len(kept) + 1
          <6>1. m \in 1 .. Len(kept)
            BY <3>3, <5>2
          <6> QED
            BY <3>3, <3>4, <4>3, <6>1
        <5> QED
          BY <5>1, <5>2
      <4> QED
        BY <3>3, <4>2, <4>4, <4>5
    <3> QED
      BY <3>5, <3>6
  <2>8. HooksClosed(ids', index', indexStore')
    BY <1>3, <2>2, <2>3, <2>7 DEF HooksClosed
  <2> QED
    BY <1>3, <2>3, <2>4, <2>8
<1> QED
  BY <1>1, <1>2, <1>3

LEMMA ClosedInit == ASSUME Init PROVE Closed
<1>1. index = << >> /\ LoadedIndex = << >> /\ LoadedStore = FromPairs({}) /\ phase = "off"
  BY DEF Init, LoadedIndex, LoadedStore, OpenDB
<1>2. DOMAIN << >> = {} /\ IsFiniteSet({})
  BY FS_EmptySet
<1> QED
  BY <1>1, <1>2 DEF Closed, IDsUsed, ClosedPair, BinsClosed, HooksClosed

LEMMA FreqClosed ==
    ASSUME kind = "FREQ_INDEX" => DOMAIN index \subseteq DOMAIN indexStore, DirectChunk
    PROVE  kind = "FREQ_INDEX" => DOMAIN index' \subseteq DOMAIN indexStore'
<1> SUFFICES ASSUME FreqChunk(Chunk) PROVE DOMAIN index' \subseteq DOMAIN indexStore'
  BY DEF DirectChunk, InEnclaveChunk, OutEnclaveChunk
<1> DEFINE d == Insert(index, indexStore)
           new == NewAddrs(<<Chunk>>, d)
<1>1. /\ kind = "FREQ_INDEX" /\ indexStore' = Insert(indexStore, new)
      /\ DOMAIN index' \subseteq DOMAIN index \cup {Chunk}
  BY DEF FreqChunk, Insert, Single, Without
<1>2. DOMAIN d = DOMAIN index \cup DOMAIN indexStore
  BY DEF Insert
<1>3. Range(<<Chunk>>) = {Chunk}
  BY DEF Range
<1>4. DOMAIN new = {Chunk} \ DOMAIN d
  BY <1>3, NewAddrsDomain DEF Unique
<1> HIDE DEF new, d
<1>5. DOMAIN indexStore' = DOMAIN indexStore \cup DOMAIN new
  BY <1>1 DEF Insert
<1> QED
  BY <1>1, <1>2, <1>4, <1>5

LEMMA ClosedStep == ASSUME Basics, Closed, [Next]_vars PROVE Closed'
<1>0. kind' = kind /\ ids \in Nat /\ damage \subseteq damage'
  BY DamageGrows DEF Next, vars, Boot, SealIndex, SaveKeys, SaveDatabase, BeginUpload, DirectChunk,
         BufferChunk, SegmentEnd, RecipeEnd, EndUpload, Abort, Crash, ExitMissing, Die, Basics, Addresses
<1>1. CASE UNCHANGED <<index, indexStore, ids, sealedIndex, dbFile, phase>>
  <2>1. LoadedIndex' = LoadedIndex /\ LoadedStore' = LoadedStore
    BY <1>0, <1>1, LoadedKept, StoreKept
  <2> QED
    BY <1>0, <1>1, <2>1 DEF Closed
<1>2. CASE Boot
  <2>1. /\ index' = LoadedIndex /\ indexStore' = LoadedStore
        /\ LoadedIndex' = LoadedIndex /\ LoadedStore' = LoadedStore
    BY <1>2, Booted
  <2>2. phase = "off" /\ phase' = "running" /\ ids' = ids /\ damage' = damage
    BY <1>2 DEF Boot, history
  <2> QED
    BY <1>0, <2>1, <2>2 DEF Closed
<1>3. CASE SealIndex
  <2>1. /\ phase = "running" /\ phase' = "indexSealed" /\ damage' = damage
        /\ UNCHANGED <<index, indexStore, ids, dbFile>>
    BY <1>3 DEF SealIndex, memory, counts, history
  <2>2. IDsUsed(kind, ids, LoadedIndex')
    <3>1. kind = "EXTREME_BIN" => Same(LoadedIndex', index)
      BY <1>3, Sealed DEF Basics
    <3>2. ids <= ids
      BY <1>0
    <3> QED
      BY <1>0, <3>1, <3>2, UsedSame DEF Closed
  <2>3. "torn" \notin damage => ClosedPair(kind, ids, LoadedIndex', indexStore)
    <3>1. CASE kind = "OUT_ENCLAVE"
      BY <3>1 DEF ClosedPair
    <3>2. CASE kind # "OUT_ENCLAVE" /\ "torn" \notin damage
      <4>1. Same(LoadedIndex', index) /\ Same(indexStore, indexStore) /\ ids <= ids
        BY <1>0, <1>3, <3>2, SealedAll, SameItself
      <4>2. ClosedPair(kind, ids, index, indexStore)
        BY <2>1, <3>2 DEF Closed
      <4> QED
        BY <1>0, <4>1, <4>2, ClosedSame
    <3> QED
      BY <3>1, <3>2
  <2> QED
    BY <1>0, <2>1, <2>2, <2>3 DEF Closed
<1>4. CASE SaveKeys
  <2>1. /\ phase = "indexSealed" /\ phase' = "keysSaved" /\ damage' = damage
        /\ UNCHANGED <<index, indexStore, ids, dbFile, sealedIndex>>
    BY <1>4 DEF SaveKeys, memory, counts, history
  <2>2. LoadedIndex' = LoadedIndex /\ LoadedStore' = LoadedStore
    BY <1>0, <2>1, LoadedKept, StoreKept
  <2> QED
    BY <1>0, <2>1, <2>2 DEF Closed
<1>5. CASE SaveDatabase
  <2>1. /\ phase = "keysSaved" /\ phase' = "off" /\ damage' = damage /\ index' = << >>
        /\ UNCHANGED <<ids, sealedIndex>>
    BY <1>5 DEF SaveDatabase, MemoryGone, counts
  <2>2. LoadedIndex' = LoadedIndex
    BY <1>0, <2>1, LoadedKept
  <2>3. Same(LoadedStore', indexStore) /\ Same(LoadedIndex, LoadedIndex) /\ ids <= ids
    BY <1>0, <1>5, Stored, SameItself
  <2>4. "torn" \notin damage => ClosedPair(kind, ids, LoadedIndex, indexStore)
    BY <2>1 DEF Closed
  <2>5. "torn" \notin damage => ClosedPair(kind, ids, LoadedIndex, LoadedStore')
    BY <1>0, <2>3, <2>4, ClosedSame
  <2>6. IDsUsed(kind, ids, << >>)
    BY EmptyDomain DEF IDsUsed
  <2> QED
    BY <1>0, <2>1, <2>2, <2>5, <2>6 DEF Closed
<1>6. CASE DirectChunk
  <2>1. UNCHANGED <<ids, sealedIndex, dbFile, phase, damage>> /\ kind \notin {"EXTREME_BIN", "SPARSE_INDEX"}
    BY <1>6 DEF DirectChunk, disk, history, InEnclaveChunk, OutEnclaveChunk, FreqChunk
  <2>2. LoadedIndex' = LoadedIndex /\ LoadedStore' = LoadedStore /\ phase = "running"
    BY <1>0, <1>6, <2>1, LoadedKept, StoreKept DEF DirectChunk, Receiving
  <2>3. "torn" \notin damage => ClosedPair(kind, ids, index', indexStore')
    BY <1>6, <2>1, <2>2, FreqClosed DEF Closed, ClosedPair
  <2>4. IDsUsed(kind, ids, index')
    BY <2>1 DEF IDsUsed
  <2> QED
    BY <1>0, <2>1, <2>2, <2>3, <2>4 DEF Closed
<1>7. CASE SegmentEnd \/ (RecipeEnd /\ segment.chunks # << >>)
  <2> DEFINE s == segment.chunks
  <2>1. UNCHANGED <<sealedIndex, dbFile, phase, damage>> /\ ProcessOneSegment(s) /\ phase = "running"
    BY <1>7 DEF SegmentEnd, RecipeEnd, Receiving, AtRecipeEnd, disk, history
  <2>2. LoadedIndex' = LoadedIndex /\ LoadedStore' = LoadedStore
    BY <1>0, <2>1, LoadedKept, StoreKept
  <2>3. s \in Seq(Fp)
    BY DEF Basics, SegmentOK
  <2> HIDE DEF s
  <2>4. CASE ExtremeSegment(s)
    <3>1. kind = "EXTREME_BIN" /\ IDsUsed("EXTREME_BIN", ids, index) /\ IDsUsed(kind, ids, LoadedIndex)
      BY <2>4 DEF ExtremeSegment, Closed
    <3>2. ids' \in Nat /\ ids <= ids' /\ IDsUsed(kind, ids', index')
      BY <1>0, <2>4, <3>1, ExtremeIs
    <3>3. IDsUsed(kind, ids', LoadedIndex)
      BY <1>0, <3>1, <3>2, SameItself, UsedSame
    <3>4. "torn" \notin damage => BinsClosed(index', indexStore')
      BY <1>0, <2>1, <2>4, <3>1, ExtremeClosed DEF Closed, ClosedPair
    <3>5. "torn" \notin damage => ClosedPair(kind, ids', index', indexStore')
      BY <3>1, <3>4 DEF ClosedPair
    <3>6. "torn" \notin damage => ClosedPair(kind, ids', LoadedIndex, LoadedStore)
      BY <1>0, <2>1, <3>2, ClosedMore DEF Closed
    <3> QED
      BY <1>0, <2>1, <2>2, <3>1, <3>2, <3>3, <3>5, <3>6 DEF Closed
  <2>5. CASE SparseSegment(s)
    <3>1. kind = "SPARSE_INDEX"
      BY <2>5 DEF SparseSegment
    <3>2. IDsUsed(kind, ids', LoadedIndex) /\ IDsUsed(kind, ids', index')
      BY <3>1 DEF IDsUsed
    <3>3. CASE "torn" \notin damage
      <4>1. HooksClosed(ids, index, indexStore) /\ ClosedPair(kind, ids, LoadedIndex, LoadedStore)
            /\ DOMAIN LoadedIndex \subseteq DOMAIN index
        BY <2>1, <3>1, <3>3 DEF Closed, ClosedPair
      <4>2. ids' \in Nat /\ ids <= ids' /\ HooksClosed(ids', index', indexStore') /\ DOMAIN index \subseteq DOMAIN index'
        BY <1>0, <2>3, <2>5, <4>1, SparseClosed
      <4>3. ClosedPair(kind, ids', index', indexStore')
        BY <3>1, <4>2 DEF ClosedPair
      <4>4. ClosedPair(kind, ids', LoadedIndex, LoadedStore)
        BY <1>0, <4>1, <4>2, ClosedMore
      <4> QED
        BY <1>0, <2>1, <2>2, <3>1, <3>2, <4>1, <4>2, <4>3, <4>4 DEF Closed
    <3> QED
      BY <1>0, <2>1, <2>2, <3>2, <3>3 DEF Closed
  <2> QED
    BY <2>1, <2>4, <2>5 DEF ProcessOneSegment
<1>8. CASE RecipeEnd /\ segment.chunks = << >>
  BY <1>1, <1>8 DEF RecipeEnd, disk
<1>9. CASE UNCHANGED vars \/ (\E f \in Files : BeginUpload(f)) \/ BufferChunk \/ EndUpload \/ Abort
  BY <1>1, <1>9 DEF vars, memory, disk, counts, BeginUpload, BufferChunk, EndUpload, Abort
<1>10. CASE Crash \/ ExitMissing
  <2>1. /\ phase # "off" /\ phase' = "off" /\ index' = << >> /\ UNCHANGED <<ids, sealedIndex, dbFile>>
        /\ phase \in {"indexSealed", "keysSaved"} => "torn" \in damage'
    BY <1>10 DEF Crash, ExitMissing, Die, MemoryGone, disk, Receiving, AtRecipeEnd
  <2>2. LoadedIndex' = LoadedIndex /\ LoadedStore' = LoadedStore
    BY <1>0, <2>1, LoadedKept, StoreKept
  <2>3. IDsUsed(kind, ids, << >>)
    BY EmptyDomain DEF IDsUsed
  <2>4. phase \in {"running", "indexSealed", "keysSaved"}
    BY <2>1 DEF Basics, Keys
  <2> QED
    BY <1>0, <2>1, <2>2, <2>3, <2>4 DEF Closed
<1> QED
  BY <1>2, <1>3, <1>4, <1>5, <1>6, <1>7, <1>8, <1>9, <1>10 DEF Next

LEMMA ClosedAlways == Spec => []Closed
BY ClosedInit, ClosedStep, BasicsAlways, PTL DEF Spec

(* No upload makes the server exit for a missing bin or manifest, with any   *)
(* sizes, capacities, files and number of restarts, as long as no shutdown   *)
(* was torn: what the index refers to is in the database that is, or will    *)
(* be, open with it, because index and database are written of one state     *)
(* and read back unchanged (the round trips of the files, among them the     *)
(* record by record reading of the hook index).                              *)
THEOREM NothingMissing == Spec => []IndexClosed
<1>1. Basics /\ Closed => IndexClosed
  <2> SUFFICES ASSUME Basics, Closed, phase # "off", "torn" \notin damage, NEW k \in DOMAIN index
               PROVE  /\ kind = "EXTREME_BIN" =>
                             /\ index[k].binID \in DOMAIN indexStore
                             /\ Range(index[k].segmentHash) \subseteq DOMAIN indexStore[index[k].binID]
                      /\ kind = "SPARSE_INDEX" =>
                             /\ Len(index[k]) <= SPARSE_MANIFIEST_CAP_NUM
                             /\ \A id \in Range(index[k]) :
                                    id \in DOMAIN indexStore /\ k \in DOMAIN indexStore[id]
    BY DEF IndexClosed
  <2>1. ClosedPair(kind, ids, index, indexStore)
    BY DEF Closed
  <2>2. CASE kind = "EXTREME_BIN"
    BY <2>1, <2>2 DEF ClosedPair, BinsClosed
  <2>3. CASE kind = "SPARSE_INDEX"
    <3>1. /\ index[k] \in Seq(1 .. ids) /\ Len(index[k]) <= SPARSE_MANIFIEST_CAP_NUM
          /\ \A m \in 1 .. Len(index[k]) : index[k][m] \in DOMAIN indexStore /\ k \in DOMAIN indexStore[index[k][m]]
      BY <2>1, <2>3 DEF ClosedPair, HooksClosed
    <3>2. DOMAIN index[k] = 1 .. Len(index[k])
      BY <3>1
    <3> QED
      BY <2>3, <3>1, <3>2 DEF Range
  <2> QED
    BY <2>2, <2>3
<1> QED
  BY <1>1, BasicsAlways, ClosedAlways, PTL
-----------------------------------------------------------------------------
(* Covered is inductive: where segments begin and end.                      *)

(* The sums of the chunk sizes exist. *)
LEMMA SumsIs ==
    ASSUME NEW f \in Seq(Fp)
    PROVE  /\ Sums(f) \in [0 .. Len(f) -> Nat] /\ Sums(f)[0] = 0
           /\ \A n \in 1 .. Len(f) : Sums(f)[n] = Sums(f)[n - 1] + ChunkSize[f[n]]
<1> DEFINE N == Len(f)
           Is(g, k) == /\ g \in [0 .. k -> Nat] /\ g[0] = 0
                       /\ \A n \in 1 .. k : g[n] = g[n - 1] + ChunkSize[f[n]]
           T == {k \in 0 .. N : \E g : Is(g, k)}
<1>0. N \in Nat /\ \A n \in 1 .. N : ChunkSize[f[n]] \in Nat
  BY IndexAssumption
<1>1. 0 \in T
  <2> DEFINE g == [n \in 0 .. 0 |-> 0]
  <2>1. g \in [0 .. 0 -> Nat] /\ g[0] = 0 /\ \A n \in 1 .. 0 : FALSE
    OBVIOUS
  <2> HIDE DEF g
  <2> QED
    BY <1>0, <2>1
<1>2. ASSUME NEW k \in 0 .. N, k < N, k \in T PROVE k + 1 \in T
  <2>1. PICK g : Is(g, k)
    BY <1>2
  <2> DEFINE c == ChunkSize[f[k + 1]]
             h == [n \in 0 .. k + 1 |-> IF n = k + 1 THEN g[k] + c ELSE g[n]]
  <2>2. k + 1 \in 0 .. N /\ c \in Nat /\ k \in Nat /\ g[k] \in Nat
    <3>1. k + 1 \in 1 .. N /\ k \in 0 .. k
      BY <1>0, <1>2
    <3> QED
      BY <1>0, <2>1, <3>1
  <2>3. h \in [0 .. k + 1 -> Nat]
    <3>1. ASSUME NEW n \in 0 .. k + 1 PROVE (IF n = k + 1 THEN g[k] + c ELSE g[n]) \in Nat
      <4>1. n # k + 1 => n \in 0 .. k
        BY <2>2
      <4> HIDE DEF c
      <4> QED
        BY <2>1, <2>2, <4>1
    <3> QED
      BY <3>1
  <2>4. h[0] = 0
    <3>1. 0 \in 0 .. k + 1 /\ 0 # k + 1
      BY <2>2
    <3> QED
      BY <2>1, <3>1
  <2>5. ASSUME NEW n \in 1 .. k + 1 PROVE h[n] = h[n - 1] + ChunkSize[f[n]]
    <3>1. n \in 0 .. k + 1 /\ n - 1 \in 0 .. k + 1 /\ n - 1 # k + 1 /\ (n # k + 1 => n \in 1 .. k) /\ (n = k + 1 => n - 1 = k)
      BY <2>2
    <3>2. h[n - 1] = g[n - 1]
      BY <3>1
    <3>3. h[n] = IF n = k + 1 THEN g[k] + c ELSE g[n]
      BY <3>1
    <3>4. n # k + 1 => g[n] = g[n - 1] + ChunkSize[f[n]]
      BY <2>1, <3>1
    <3> HIDE DEF h
    <3> QED
      BY <3>1, <3>2, <3>3, <3>4
  <2> HIDE DEF h
  <2>6. Is(h, k + 1)
    BY <2>3, <2>4, <2>5
  <2> HIDE DEF Is
  <2> QED
    BY <2>2, <2>6
<1>3. N \in T
  <2> HIDE DEF T
  <2>1. \A k \in 0 .. N : k < N /\ k \in T => k + 1 \in T
    BY <1>2
  <2>2. \A k \in 0 .. N : k \in T
    BY <1>0, <1>1, <2>1, UpTo
  <2> QED
    BY <1>0, <2>2
<1>4. \E g \in [0 .. N -> Nat] : g[0] = 0 /\ \A n \in 1 .. N : g[n] = g[n - 1] + ChunkSize[f[n]]
  BY <1>3
<1> QED
  BY <1>4 DEF Sums

(* A segment that begins somewhere ends where the buffer says, and only there. *)
LEMMA SegmentUnique ==
    ASSUME NEW f \in Seq(Fp), NEW p \in Nat, NEW q \in Nat, NEW r \in Nat, IsSegment(f, p, q), IsSegment(f, p, r)
    PROVE  q = r
<1>1. Len(f) \in Nat
  OBVIOUS
<1>2. ASSUME NEW x \in Nat, NEW y \in Nat, IsSegment(f, p, x), IsSegment(f, p, y), x < y PROVE FALSE
  <2>1. x < Len(f) /\ x \in p + 1 .. y - 1
    BY <1>1, <1>2 DEF IsSegment
  <2> QED
    BY <1>2, <2>1 DEF IsSegment
<1> QED
  BY <1>2

LEMMA EndAtIs ==
    ASSUME Basics, CurrentSegment, Receiving, Segmented
    PROVE  /\ EndAt(uploading, Len(entries), received) <=> IsEndOfSegment(Chunk)
           /\ Sums(uploading)[received + 1] = Sums(uploading)[received] + ChunkSize[Chunk]
           /\ IsEndOfSegment(Chunk) => Len(segment.chunks) > 0
<1> DEFINE f == uploading
           p == Len(entries)
           g == Sums(f)
           c == ChunkSize[Chunk]
           l == Len(segment.chunks)
<1>1. f \in Seq(Fp) /\ received + 1 \in 1 .. Len(f) /\ c \in 1 .. MIN_SEGMENT_SIZE - 1 /\ f # None
  BY ChunkIs DEF Basics, Receiving
<1>2. p \in Nat /\ l \in Nat /\ p + l = received /\ received \in Nat /\ Len(f) \in Nat
  BY <1>1 DEF Basics, Position, Sequence, SegmentOK
<1>3. g \in [0 .. Len(f) -> Nat] /\ \A n \in 1 .. Len(f) : g[n] = g[n - 1] + ChunkSize[f[n]]
  BY <1>1, SumsIs
<1>4. Chunk = f[received + 1] /\ segment.size = g[received] - g[p]
  BY <1>1 DEF Chunk, CurrentSegment
<1>5. received \in 0 .. Len(f) /\ p \in 0 .. Len(f) /\ (received + 1) - 1 = received
  BY <1>1, <1>2
<1>6. g[received] \in Nat /\ g[p] \in Nat /\ g[received + 1] = g[received] + c
  BY <1>1, <1>3, <1>4, <1>5
<1>7. c \in Nat
  BY <1>1, IndexAssumption
<1> HIDE DEF c, g, l, p
<1>8. \A a, b \in Nat : (a + c) - b = (a - b) + c
  BY <1>7
<1>9. g[received + 1] - g[p] = segment.size + c
  BY <1>4, <1>6, <1>8
<1>10. received - p + 1 = l + 1
  BY <1>2
<1>11. EndAt(f, p, received) <=> IsEndOfSegment(Chunk)
  BY <1>4, <1>9, <1>10 DEF EndAt, IsEndOfSegment, g, l, c
<1>12. IsEndOfSegment(Chunk) => l > 0
  <2> SUFFICES ASSUME l = 0 PROVE ~IsEndOfSegment(Chunk)
    BY <1>2
  <2>1. segment.size = 0
    BY <1>2, <1>4, <1>6
  <2>2. ~(l + 1 > MaxSegmentChunkNum)
    BY IndexAssumption
  <2>3. ~(segment.size + c >= MIN_SEGMENT_SIZE)
    BY <1>1, <2>1, IndexAssumption DEF c
  <2> QED
    BY <2>2, <2>3 DEF IsEndOfSegment, l, c
<1> QED
  BY <1>6, <1>11, <1>12 DEF l, p, g, c

(* What is processed as a segment is the segment of the file that begins     *)
(* behind the recipe entries.                                                *)
LEMMA SegmentFound ==
    ASSUME Basics, CurrentSegment, SegmentEnd \/ (RecipeEnd /\ segment.chunks # << >>)
    PROVE  /\ uploading \in Files /\ uploading \in Seq(Fp) /\ uploading' = uploading /\ uploading # None
           /\ Len(entries) \in Nat /\ received \in Nat /\ received <= Len(uploading)
           /\ IsSegment(uploading, Len(entries), received)
           /\ segment.chunks = SubSeq(uploading, Len(entries) + 1, received)
           /\ Len(entries') = received /\ Segmented
<1> DEFINE f == uploading
           p == Len(entries)
           s == segment.chunks
<1>1. f \in Files /\ f \in Seq(Fp) /\ f # None /\ uploading' = f /\ ProcessOneSegment(s)
  BY IndexAssumption DEF SegmentEnd, RecipeEnd, Receiving, AtRecipeEnd, Basics, Position
<1>2. Segmented
  BY <1>1 DEF ProcessOneSegment, ExtremeSegment, SparseSegment, Segmented
<1>3. /\ p \in Nat /\ s \in Seq(Fp) /\ Len(s) \in Nat /\ p + Len(s) = received /\ received \in Nat /\ Len(f) \in Nat
      /\ received <= Len(f) /\ \A m \in 1 .. Len(s) : s[m] = f[p + m]
  BY <1>1 DEF Basics, Position, Sequence, SegmentOK
<1>4. Len(s) > 0
  <2>1. CASE SegmentEnd
    BY <1>2, <2>1, EndAtIs DEF SegmentEnd
  <2>2. CASE s # << >>
    BY <1>3, <2>2
  <2> QED
    BY <2>1, <2>2
<1>5. received < Len(f) => EndAt(f, p, received)
  <2>1. CASE SegmentEnd
    BY <1>2, <2>1, EndAtIs DEF SegmentEnd
  <2>2. CASE RecipeEnd
    BY <1>3, <2>2 DEF RecipeEnd, AtRecipeEnd
  <2> QED
    BY <2>1, <2>2
<1>6. \A k \in p + 1 .. received - 1 : ~EndAt(f, p, k)
  BY <1>1, <1>2 DEF CurrentSegment
<1>7. IsSegment(f, p, received)
  BY <1>3, <1>4, <1>5, <1>6 DEF IsSegment
<1>8. s = SubSeq(f, p + 1, received)
  <2> DEFINE t == SubSeq(f, p + 1, received)
  <2>1. t = [i \in 1 .. received - (p + 1) + 1 |-> f[(p + 1) + i - 1]]
    BY <1>3
  <2>2. received - (p + 1) + 1 = Len(s)
    BY <1>3
  <2>3. \A i \in 1 .. Len(s) : (p + 1) + i - 1 = p + i
    BY <1>3
  <2>4. t = [i \in 1 .. Len(s) |-> s[i]]
    BY <1>3, <2>1, <2>2, <2>3
  <2>5. s = [i \in 1 .. Len(s) |-> s[i]]
    BY <1>3
  <2> QED
    BY <2>4, <2>5
<1>9. Len(entries') = received
  <2>1. PICK d : Dedup(s, d)
    BY <1>1, Processed
  <2>2. Sequence(entries)
    BY DEF Basics, Position
  <2>3. Len(entries') = p + Len(s)
    BY <1>3, <2>1, <2>2, DedupEntries
  <2> QED
    BY <1>3, <2>3
<1> QED
  BY <1>1, <1>2, <1>3, <1>7, <1>8, <1>9

LEMMA CurrentSegmentStep ==
    ASSUME Basics, CurrentSegment, [Next]_vars
    PROVE  CurrentSegment'
<1> USE DEF Segmented
<1>0. kind' = kind /\ None \notin Files
  BY IndexAssumption DEF Next, vars, Boot, SealIndex, SaveKeys, SaveDatabase, BeginUpload, DirectChunk,
         BufferChunk, SegmentEnd, RecipeEnd, EndUpload, Abort, Crash, ExitMissing, Die
<1>1. CASE UNCHANGED session
  BY <1>0, <1>1 DEF CurrentSegment, session
<1>2. CASE NoSession
  BY <1>2 DEF NoSession, CurrentSegment
<1>3. ASSUME NEW f \in Files, BeginUpload(f) PROVE CurrentSegment'
  <2>1. uploading' = f /\ received' = 0 /\ segment' = EmptySegment /\ entries' = << >>
    BY <1>3 DEF BeginUpload, Basics, Position
  <2>2. f \in Seq(Fp)
    BY IndexAssumption
  <2>3. Sums(f)[0] = 0 /\ Len(entries') = 0 /\ segment'.size = 0
    BY <2>1, <2>2, SumsIs, EmptySegmentOK
  <2>4. \A k \in 0 + 1 .. 0 - 1 : FALSE
    OBVIOUS
  <2>5. segment'.size = Sums(f)[received'] - Sums(f)[Len(entries')]
    BY <2>1, <2>3
  <2> QED
    BY <2>1, <2>3, <2>4, <2>5 DEF CurrentSegment
<1>4. CASE DirectChunk
  BY <1>0, <1>4 DEF DirectChunk, InEnclaveChunk, OutEnclaveChunk, FreqChunk, CurrentSegment
<1>5. CASE BufferChunk
  <2> DEFINE f == uploading
             p == Len(entries)
             g == Sums(f)
             c == ChunkSize[Chunk]
  <2>1. /\ Receiving /\ Segmented /\ ~IsEndOfSegment(Chunk) /\ UNCHANGED <<uploading, entries>>
        /\ received' = received + 1 /\ segment'.size = segment.size + c
    BY <1>5 DEF BufferChunk, AddToSegment
  <2>2. ~EndAt(f, p, received) /\ g[received + 1] = g[received] + c
    BY <2>1, EndAtIs
  <2>3. f # None /\ f \in Seq(Fp) /\ received + 1 \in 1 .. Len(f) /\ c \in 1 .. MIN_SEGMENT_SIZE - 1
    BY <2>1, ChunkIs DEF Basics, Receiving
  <2>4. p \in Nat /\ received \in Nat /\ p <= received
    BY <2>3 DEF Basics, Position, Sequence, SegmentOK
  <2>5. g[received] \in Nat /\ g[p] \in Nat /\ c \in Nat
    <3>1. received \in 0 .. Len(f) /\ p \in 0 .. Len(f)
      BY <2>3, <2>4
    <3>2. g \in [0 .. Len(f) -> Nat]
      BY <2>3, SumsIs
    <3>3. c \in Nat
      BY <2>3, IndexAssumption
    <3> QED
      BY <3>1, <3>2, <3>3
  <2>6. segment.size = g[received] - g[p] /\ \A k \in p + 1 .. received - 1 : ~EndAt(f, p, k)
    BY <2>1, <2>3 DEF CurrentSegment
  <2> HIDE DEF f, g, p, c
  <2>7. segment'.size = g[received'] - g[p]
    BY <2>1, <2>2, <2>5, <2>6
  <2>8. \A k \in p + 1 .. received' - 1 : k \in p + 1 .. received - 1 \/ k = received
    BY <2>1, <2>4
  <2>9. \A k \in p + 1 .. received' - 1 : ~EndAt(f, p, k)
    BY <2>2, <2>6, <2>8
  <2> QED
    BY <2>1, <2>7, <2>9 DEF CurrentSegment, f, g, p
<1>6. CASE SegmentEnd
  <2> DEFINE f == uploading
             g == Sums(f)
             c == ChunkSize[Chunk]
  <2>1. /\ Receiving /\ Segmented /\ received' = received + 1 /\ segment'.size = 0 + c
    BY <1>6 DEF SegmentEnd, AddToSegment, EmptySegment
  <2>2. g[received + 1] = g[received] + c
    BY <2>1, EndAtIs
  <2>3. Len(entries') = received /\ uploading' = f /\ received \in Nat
    BY <1>6, SegmentFound
  <2>4. f \in Seq(Fp) /\ received + 1 \in 1 .. Len(f) /\ c \in 1 .. MIN_SEGMENT_SIZE - 1
    BY <2>1, ChunkIs DEF Basics
  <2>5. g[received] \in Nat /\ c \in Nat
    <3>1. received \in 0 .. Len(f)
      BY <2>3, <2>4
    <3>2. g \in [0 .. Len(f) -> Nat]
      BY <2>4, SumsIs
    <3>3. c \in Nat
      BY <2>4, IndexAssumption
    <3> QED
      BY <3>1, <3>2, <3>3
  <2> HIDE DEF c
  <2>6. segment'.size = g[received'] - g[Len(entries')]
    BY <2>1, <2>2, <2>3, <2>5
  <2>7. \A k \in received + 1 .. received' - 1 : FALSE
    BY <2>1, <2>3
  <2> QED
    BY <2>3, <2>6, <2>7 DEF CurrentSegment
<1>7. CASE RecipeEnd
  <2> DEFINE f == uploading
             g == Sums(f)
  <2>1. /\ segment' = EmptySegment /\ UNCHANGED <<uploading, received>>
        /\ f \in Seq(Fp) /\ received = Len(f) /\ f # None
    BY <1>7, IndexAssumption DEF RecipeEnd, AtRecipeEnd, Basics, Position
  <2>2. Len(f) \in Nat /\ Len(f) \in 0 .. Len(f) /\ g \in [0 .. Len(f) -> Nat]
    BY <2>1, SumsIs
  <2>3. Len(entries') = received
    <3>1. CASE segment.chunks # << >>
      BY <1>7, <3>1, SegmentFound
    <3>2. CASE segment.chunks = << >>
      <4>1. entries' = entries /\ Len(segment.chunks) = 0
        BY <1>7, <3>2 DEF RecipeEnd
      <4>2. Len(entries) + Len(segment.chunks) = received /\ Len(entries) \in Nat
        BY <2>1 DEF Basics, Position, Sequence
      <4> QED
        BY <4>1, <4>2
    <3> QED
      BY <3>1, <3>2
  <2>4. segment'.size = 0 /\ g[Len(f)] \in Nat
    BY <2>1, <2>2, EmptySegmentOK
  <2> HIDE DEF g
  <2>5. segment'.size = g[received'] - g[Len(entries')]
    BY <2>1, <2>3, <2>4
  <2>6. \A k \in received + 1 .. received' - 1 : FALSE
    BY <2>1, <2>2
  <2> QED
    BY <2>1, <2>3, <2>5, <2>6 DEF CurrentSegment, g
<1>8. CASE UNCHANGED vars \/ Boot \/ SealIndex \/ SaveKeys \/ SaveDatabase
  BY <1>1, <1>8 DEF vars, Boot, SealIndex, SaveKeys, SaveDatabase
<1>9. CASE EndUpload \/ Abort \/ Crash \/ ExitMissing
  BY <1>2, <1>9 DEF EndUpload, Abort, Crash, ExitMissing, Die
<1> QED
  BY <1>3, <1>4, <1>5, <1>6, <1>7, <1>8, <1>9 DEF Next

(* What a pair of index and database finds, a larger one finds too. *)
LEMMA CoversMore ==
    ASSUME NEW k, NEW dm, NEW em, dm \subseteq em, NEW f, NEW n, NEW m, NEW m0, m0 = m \/ m0 = 0,
           NEW ix, NEW store, NEW jx, NEW tore, Covers(k, dm, f, n, m, ix, store),
           k = "IN_ENCLAVE" => DOMAIN ix \subseteq DOMAIN jx,
           k \in {"OUT_ENCLAVE", "FREQ_INDEX"} => DOMAIN store \subseteq DOMAIN tore,
           k = "EXTREME_BIN" => \A s : Filled(s, ix, store) => Filled(s, jx, tore)
    PROVE  Covers(k, em, f, n, m0, jx, tore)
<1>1. k = "IN_ENCLAVE" => \A j \in 1 .. n : f[j] \in DOMAIN jx
  BY DEF Covers
<1>2. k = "OUT_ENCLAVE" => \A j \in 1 .. n : f[j] \in DOMAIN tore
  BY DEF Covers
<1>3. k = "FREQ_INDEX" /\ "torn" \notin em => \A j \in 1 .. n : f[j] \in DOMAIN tore
  BY DEF Covers
<1>4. ASSUME k = "EXTREME_BIN"
      PROVE  \E B \in SUBSET (0 .. Len(f)) : m0 \in B /\ Chain(f, B, n, jx, tore)
  <2>1. PICK B \in SUBSET (0 .. Len(f)) : m \in B /\ Chain(f, B, n, ix, store)
    BY <1>4 DEF Covers
  <2>2. 0 \in B /\ n \in B
    BY <2>1 DEF Chain
  <2>3. ASSUME NEW p \in B, p < n
        PROVE  \E q \in B : q <= n /\ IsSegment(f, p, q) /\ Filled(SubSeq(f, p + 1, q), jx, tore)
    <3>1. PICK q \in B : q <= n /\ IsSegment(f, p, q) /\ Filled(SubSeq(f, p + 1, q), ix, store)
      BY <2>1, <2>3 DEF Chain
    <3> QED
      BY <1>4, <3>1
  <2>4. Chain(f, B, n, jx, tore)
    BY <2>2, <2>3 DEF Chain
  <2> QED
    BY <2>1, <2>2, <2>4
<1> QED
  BY <1>1, <1>2, <1>3, <1>4 DEF Covers

LEMMA CoversKept ==
    ASSUME NEW k, NEW dm, NEW em, dm \subseteq em, NEW f, NEW n, NEW m, NEW m0, m0 = m \/ m0 = 0,
           NEW ix, NEW store, Covers(k, dm, f, n, m, ix, store)
    PROVE  Covers(k, em, f, n, m0, ix, store)
<1>1. DOMAIN ix \subseteq DOMAIN ix /\ DOMAIN store \subseteq DOMAIN store
  OBVIOUS
<1>2. \A s : Filled(s, ix, store) => Filled(s, ix, store)
  OBVIOUS
<1> QED
  BY <1>1, <1>2, CoversMore

LEMMA CoversSame ==
    ASSUME NEW k, NEW dm, NEW f, NEW n, NEW m, NEW m0, m0 = m \/ m0 = 0,
           NEW ix, NEW store, NEW jx, NEW tore, Covers(k, dm, f, n, m, ix, store),
           k \in {"IN_ENCLAVE", "EXTREME_BIN"} => Same(jx, ix), Same(tore, store)
    PROVE  Covers(k, dm, f, n, m0, jx, tore)
<1>1. k = "IN_ENCLAVE" => DOMAIN ix \subseteq DOMAIN jx
  BY DEF Same
<1>2. DOMAIN store \subseteq DOMAIN tore
  BY DEF Same
<1>3. ASSUME k = "EXTREME_BIN", NEW s, Filled(s, ix, store) PROVE Filled(s, jx, tore)
  BY <1>3 DEF Filled, Same
<1> QED
  BY <1>1, <1>2, <1>3, CoversMore

(* A segment of extreme binning leaves the segments that were filled filled. *)
LEMMA FilledMore ==
    ASSUME ids \in Nat, IDsUsed("EXTREME_BIN", ids, index), NEW s, ExtremeSegment(s), NEW t, NEW tore
    PROVE  /\ Filled(t, index, indexStore) => Filled(t, index', indexStore')
           /\ Filled(t, index, tore) => Filled(t, index', tore)
           /\ Filled(s, index', indexStore')
<1> DEFINE h == MinHash(s)
           b == Bin(s)
           x == MinHash(t)
<1>1. /\ DOMAIN index' = DOMAIN index \cup {h}
      /\ \A y \in DOMAIN index : index'[y] = index[y]
      /\ index'[h].binID = b
  BY ExtremeIs
<1>2. /\ DOMAIN indexStore' = DOMAIN indexStore \cup {b}
      /\ \A id \in DOMAIN indexStore : id # b => indexStore'[id] = indexStore[id]
      /\ Range(s) \subseteq DOMAIN indexStore'[b]
      /\ h \in DOMAIN index => DOMAIN indexStore[b] \subseteq DOMAIN indexStore'[b]
  BY ExtremeIs
<1>3. h \notin DOMAIN index => \A y \in DOMAIN index : index[y].binID # b
  BY BinNew
<1>4. ASSUME Filled(t, index, indexStore) PROVE Filled(t, index', indexStore')
  <2>1. /\ x \in DOMAIN index /\ index[x].binID \in DOMAIN indexStore
        /\ Range(t) \subseteq DOMAIN indexStore[index[x].binID]
    BY <1>4 DEF Filled
  <2> HIDE DEF h, b, x
  <2>2. x \in DOMAIN index' /\ index'[x] = index[x] /\ index[x].binID \in DOMAIN indexStore'
    BY <1>1, <1>2, <2>1
  <2>3. CASE index[x].binID = b
    <3>1. Range(t) \subseteq DOMAIN indexStore'[b]
      BY <1>2, <1>3, <2>1, <2>3
    <3> QED
      BY <2>2, <2>3, <3>1 DEF Filled, x
  <2>4. CASE index[x].binID # b
    <3>1. indexStore'[index[x].binID] = indexStore[index[x].binID]
      BY <1>2, <2>1, <2>4
    <3> QED
      BY <2>1, <2>2, <3>1 DEF Filled, x
  <2> QED
    BY <2>3, <2>4
<1>5. ASSUME Filled(t, index, tore) PROVE Filled(t, index', tore)
  BY <1>1, <1>5 DEF Filled
<1>6. Filled(s, index', indexStore')
  BY <1>1, <1>2 DEF Filled
<1> QED
  BY <1>4, <1>5, <1>6

(* One more segment of the file being uploaded is in its bin. *)
LEMMA CoversNext ==
    ASSUME NEW k, NEW dm, NEW f, NEW n \in Nat, NEW r \in Nat, n < r, r <= Len(f), Len(f) \in Nat, NEW ix, NEW store,
           k = "EXTREME_BIN", Covers(k, dm, f, n, n, ix, store),
           IsSegment(f, n, r), Filled(SubSeq(f, n + 1, r), ix, store)
    PROVE  Covers(k, dm, f, r, r, ix, store)
<1>1. PICK B \in SUBSET (0 .. Len(f)) : n \in B /\ Chain(f, B, n, ix, store)
  BY DEF Covers
<1> DEFINE C == {p \in B : p <= n} \cup {r}
<1>2. 0 \in C /\ n \in C /\ r \in C /\ C \in SUBSET (0 .. Len(f))
  <2>1. 0 \in B /\ n \in B
    BY <1>1 DEF Chain
  <2>2. r \in 0 .. Len(f) /\ 0 <= n /\ n <= n
    OBVIOUS
  <2> QED
    BY <1>1, <2>1, <2>2
<1>3. ASSUME NEW p \in C, p < r
      PROVE  \E q \in C : q <= r /\ IsSegment(f, p, q) /\ Filled(SubSeq(f, p + 1, q), ix, store)
  <2>1. p \in B /\ p <= n /\ p \in Nat
    BY <1>3
  <2>2. CASE p < n
    <3>1. PICK q \in B : q <= n /\ IsSegment(f, p, q) /\ Filled(SubSeq(f, p + 1, q), ix, store)
      BY <1>1, <2>1, <2>2 DEF Chain
    <3>2. q \in C /\ q <= r
      BY <3>1
    <3> QED
      BY <3>1, <3>2
  <2>3. CASE ~(p < n)
    <3>1. p = n
      BY <2>1, <2>3
    <3>2. r <= r
      OBVIOUS
    <3> QED
      BY <1>2, <3>1, <3>2
  <2> QED
    BY <2>2, <2>3
<1> HIDE DEF C
<1>4. Chain(f, C, r, ix, store)
  BY <1>2, <1>3 DEF Chain
<1> QED
  BY <1>2, <1>4 DEF Covers

(* A segment of a known file is found whole, and the next one begins behind it. *)
LEMMA SegmentKnown ==
    ASSUME Basics, CurrentSegment, SegmentEnd \/ (RecipeEnd /\ segment.chunks # << >>),
           NEW dm, NEW ix, NEW store,
           Covers("EXTREME_BIN", dm, uploading, Len(uploading), Len(entries), ix, store)
    PROVE  /\ Filled(segment.chunks, ix, store)
           /\ Covers("EXTREME_BIN", dm, uploading, Len(uploading), received, ix, store)
<1> DEFINE f == uploading
           p == Len(entries)
<1>1. /\ f \in Seq(Fp) /\ p \in Nat /\ received \in Nat /\ received <= Len(f) /\ IsSegment(f, p, received)
      /\ segment.chunks = SubSeq(f, p + 1, received)
  BY SegmentFound
<1>2. PICK B \in SUBSET (0 .. Len(f)) : p \in B /\ Chain(f, B, Len(f), ix, store)
  BY DEF Covers
<1>3. p < Len(f)
  BY <1>1 DEF IsSegment
<1>4. PICK q \in B : q <= Len(f) /\ IsSegment(f, p, q) /\ Filled(SubSeq(f, p + 1, q), ix, store)
  BY <1>2, <1>3 DEF Chain
<1>5. q \in Nat
  BY <1>2, <1>4
<1>6. q = received
  BY <1>1, <1>4, <1>5, SegmentUnique
<1> HIDE DEF f, p
<1>7. received \in B
  BY <1>4, <1>6
<1> QED
  BY <1>1, <1>2, <1>4, <1>6, <1>7 DEF Covers, f

LEMMA CoversNone ==
    ASSUME NEW k, NEW dm, NEW f, Len(f) \in Nat, NEW ix, NEW store PROVE Covers(k, dm, f, 0, 0, ix, store)
<1> DEFINE B == {0}
<1>1. B \in SUBSET (0 .. Len(f)) /\ 0 \in B
  OBVIOUS
<1>2. Chain(f, B, 0, ix, store)
  BY DEF Chain
<1> HIDE DEF B
<1> QED
  BY <1>1, <1>2 DEF Covers

(* A chunk that is looked up at once: it is found from now on. *)
LEMMA DirectCovers ==
    ASSUME Basics, DirectChunk
    PROVE  /\ kind = "IN_ENCLAVE" => DOMAIN index' = DOMAIN index \cup {Chunk}
           /\ kind = "OUT_ENCLAVE" => DOMAIN indexStore' = DOMAIN indexStore \cup {Chunk}
           /\ kind = "FREQ_INDEX" =>
                 /\ DOMAIN indexStore \subseteq DOMAIN indexStore'
                 /\ DOMAIN index \subseteq DOMAIN indexStore => Chunk \in DOMAIN indexStore'
           /\ kind \in {"IN_ENCLAVE", "OUT_ENCLAVE", "FREQ_INDEX"}
<1>1. Range(<<Chunk>>) = {Chunk}
  BY DEF Range
<1>2. ASSUME NEW d PROVE DOMAIN NewAddrs(<<Chunk>>, d) = {Chunk} \ DOMAIN d
  BY <1>1, NewAddrsDomain DEF Unique
<1>3. CASE InEnclaveChunk(Chunk)
  <2>1. kind = "IN_ENCLAVE" /\ index' = Insert(index, NewAddrs(<<Chunk>>, index))
    BY <1>3 DEF InEnclaveChunk
  <2>2. DOMAIN index' = DOMAIN index \cup DOMAIN NewAddrs(<<Chunk>>, index)
    BY <2>1 DEF Insert
  <2> QED
    BY <1>2, <2>1, <2>2
<1>4. CASE OutEnclaveChunk(Chunk)
  <2>1. kind = "OUT_ENCLAVE" /\ indexStore' = Insert(indexStore, NewAddrs(<<Chunk>>, indexStore))
    BY <1>4 DEF OutEnclaveChunk
  <2>2. DOMAIN indexStore' = DOMAIN indexStore \cup DOMAIN NewAddrs(<<Chunk>>, indexStore)
    BY <2>1 DEF Insert
  <2> QED
    BY <1>2, <2>1, <2>2
<1>5. CASE FreqChunk(Chunk)
  <2> DEFINE d == Insert(index, indexStore)
  <2>1. kind = "FREQ_INDEX" /\ indexStore' = Insert(indexStore, NewAddrs(<<Chunk>>, d))
    BY <1>5 DEF FreqChunk
  <2>2. DOMAIN d = DOMAIN index \cup DOMAIN indexStore
    BY DEF Insert
  <2> HIDE DEF d
  <2>3. DOMAIN indexStore' = DOMAIN indexStore \cup DOMAIN NewAddrs(<<Chunk>>, d)
    BY <2>1 DEF Insert
  <2> QED
    BY <1>2, <2>1, <2>2, <2>3
<1> QED
  BY <1>3, <1>4, <1>5 DEF DirectChunk

(* The same for the files it may be a chunk of. *)
LEMMA CoversDirect ==
    ASSUME Basics, Closed, Covered, DirectChunk
    PROVE  KnownFound'
<1> DEFINE u == uploading
           n == Len(entries)
<1>1. /\ UNCHANGED <<kind, phase, sealedIndex, dbFile, damage, known, savedKnown, uploading>>
      /\ phase = "running" /\ u # None /\ damage \subseteq damage
  BY DEF DirectChunk, disk, history, Receiving
<1>2. LoadedIndex' = LoadedIndex /\ LoadedStore' = LoadedStore
  BY <1>1, LoadedKept, StoreKept
<1>3. /\ kind = "IN_ENCLAVE" => DOMAIN index' = DOMAIN index \cup {Chunk}
      /\ kind = "OUT_ENCLAVE" => DOMAIN indexStore' = DOMAIN indexStore \cup {Chunk}
      /\ kind = "FREQ_INDEX" => /\ DOMAIN indexStore \subseteq DOMAIN indexStore'
                                /\ DOMAIN index \subseteq DOMAIN indexStore => Chunk \in DOMAIN indexStore'
      /\ kind \in {"IN_ENCLAVE", "OUT_ENCLAVE", "FREQ_INDEX"}
  BY DirectCovers
<1>4. ASSUME NEW f, NEW l, NEW m, NEW m0, Covers(kind, damage, f, l, m, index, indexStore)
      PROVE  Covers(kind, damage, f, l, m0, index', indexStore')
  BY <1>3, <1>4 DEF Covers
<1>5. ASSUME NEW f, NEW l, NEW m, Covers(kind, damage, f, l, m, index, LoadedStore)
      PROVE  Covers(kind, damage, f, l, m, index', LoadedStore)
  BY <1>3, <1>5 DEF Covers
<1>6. /\ Covers(kind, damage, u, n, n, index, indexStore)
      /\ \A f \in known : Covers(kind, damage, f, Len(f), Place(f), index, indexStore)
      /\ \A f \in savedKnown : Covers(kind, damage, f, Len(f), 0, index, LoadedStore)
      /\ \A f \in savedKnown : Covers(kind, damage, f, Len(f), 0, LoadedIndex, LoadedStore)
  BY <1>1 DEF Covered, KnownFound, Finds
<1>7. Len(entries') = n + 1 /\ n = received /\ n \in Nat /\ Chunk = u[n + 1]
  <2>1. PICK d : Dedup(<<Chunk>>, d)
    BY Looked
  <2>2. <<Chunk>> \in Seq({Chunk}) /\ Len(<<Chunk>>) = 1
    OBVIOUS
  <2>3. Len(entries') = n + 1
    BY <2>1, <2>2, DedupEntries DEF Basics, Position
  <2>4. segment = EmptySegment
    BY <1>3 DEF Basics, Position, Segmented
  <2>5. n + Len(segment.chunks) = received /\ n \in Nat
    BY <1>1 DEF Basics, Position, Sequence
  <2> QED
    BY <2>3, <2>4, <2>5, EmptySegmentOK DEF Chunk
<1>8. Covers(kind, damage, u, n + 1, n + 1, index', indexStore')
  <2>1. \A j \in 1 .. n + 1 : j \in 1 .. n \/ j = n + 1
    BY <1>7
  <2>2. Covers(kind, damage, u, n, n, index', indexStore')
    BY <1>4, <1>6
  <2>3. kind = "FREQ_INDEX" /\ "torn" \notin damage => Chunk \in DOMAIN indexStore'
    BY <1>1, <1>3 DEF Closed, ClosedPair
  <2> QED
    BY <1>3, <1>7, <2>1, <2>2, <2>3 DEF Covers
<1> HIDE DEF u, n
<1>9. \A f \in known : Covers(kind, damage, f, Len(f), Place(f)', index', indexStore')
  BY <1>4, <1>6
<1>10. \A f \in savedKnown : Covers(kind, damage, f, Len(f), 0, index', LoadedStore)
  BY <1>5, <1>6
<1> QED
  BY <1>1, <1>2, <1>6, <1>7, <1>8, <1>9, <1>10 DEF KnownFound, Finds, u

(* A segment that is processed as a whole. *)
LEMMA CoversSegment ==
    ASSUME Basics, Closed, Covered, SegmentEnd \/ (RecipeEnd /\ segment.chunks # << >>)
    PROVE  KnownFound'
<1> DEFINE u == uploading
           n == Len(entries)
           s == segment.chunks
<1>1. /\ UNCHANGED <<kind, phase, sealedIndex, dbFile, damage, known, savedKnown, uploading>>
      /\ phase = "running" /\ u # None /\ ProcessOneSegment(s)
  BY DEF SegmentEnd, RecipeEnd, AtRecipeEnd, disk, history, Receiving
<1>2. LoadedIndex' = LoadedIndex /\ LoadedStore' = LoadedStore
  BY <1>1, LoadedKept, StoreKept
<1>3. CASE SparseSegment(s)
  <2>1. kind = "SPARSE_INDEX"
    BY <1>3 DEF SparseSegment
  <2> QED
    BY <1>1, <2>1 DEF KnownFound, Finds, Covers
<1>4. CASE ExtremeSegment(s)
  <2>1. kind = "EXTREME_BIN" /\ ids \in Nat /\ IDsUsed("EXTREME_BIN", ids, index)
    BY <1>4 DEF ExtremeSegment, Closed, Basics, Addresses
  <2>2. ASSUME NEW t, NEW tore
        PROVE  /\ Filled(t, index, indexStore) => Filled(t, index', indexStore')
               /\ Filled(t, index, tore) => Filled(t, index', tore)
               /\ Filled(s, index', indexStore')
    BY <1>4, <2>1, FilledMore
  <2>3. ASSUME NEW f, NEW l, NEW m, Covers(kind, damage, f, l, m, index, indexStore)
        PROVE  Covers(kind, damage, f, l, m, index', indexStore') /\ Covers(kind, damage, f, l, 0, index', indexStore')
    <3>1. damage \subseteq damage /\ kind # "IN_ENCLAVE" /\ kind \notin {"OUT_ENCLAVE", "FREQ_INDEX"}
      BY <2>1
    <3>2. \A t : Filled(t, index, indexStore) => Filled(t, index', indexStore')
      BY <2>2
    <3> QED
      BY <2>3, <3>1, <3>2, CoversMore
  <2>4. ASSUME NEW f, NEW l, NEW m, Covers(kind, damage, f, l, m, index, LoadedStore)
        PROVE  Covers(kind, damage, f, l, m, index', LoadedStore)
    <3>1. damage \subseteq damage /\ kind # "IN_ENCLAVE" /\ kind \notin {"OUT_ENCLAVE", "FREQ_INDEX"}
      BY <2>1
    <3>2. \A t : Filled(t, index, LoadedStore) => Filled(t, index', LoadedStore)
      BY <2>2
    <3> QED
      BY <2>4, <3>1, <3>2, CoversMore
  <2>5. /\ Covers(kind, damage, u, n, n, index, indexStore)
        /\ \A f \in known : Covers(kind, damage, f, Len(f), Place(f), index, indexStore)
        /\ \A f \in savedKnown : Covers(kind, damage, f, Len(f), 0, index, LoadedStore)
        /\ \A f \in savedKnown : Covers(kind, damage, f, Len(f), 0, LoadedIndex, LoadedStore)
    BY <1>1 DEF Covered, KnownFound, Finds
  <2>6. /\ u \in Seq(Fp) /\ n \in Nat /\ received \in Nat /\ received <= Len(u) /\ Len(u) \in Nat
        /\ IsSegment(u, n, received) /\ s = SubSeq(u, n + 1, received) /\ Len(entries') = received
    BY SegmentFound DEF Covered
  <2>7. Covers(kind, damage, u, received, received, index', indexStore')
    <3>1. Covers(kind, damage, u, n, n, index', indexStore') /\ n < received
      BY <2>3, <2>5, <2>6 DEF IsSegment
    <3>2. Filled(SubSeq(u, n + 1, received), index', indexStore')
      BY <2>2, <2>6
    <3> QED
      BY <2>1, <2>6, <3>1, <3>2, CoversNext
  <2>8. ASSUME NEW f \in known PROVE Covers(kind, damage, f, Len(f), Place(f)', index', indexStore')
    <3>1. CASE f = u
      <4>1. Place(f) = n /\ Place(f)' = received
        BY <1>1, <2>6, <3>1 DEF Place
      <4>2. Covers("EXTREME_BIN", damage, u, Len(u), n, index, indexStore)
        BY <2>1, <2>5, <3>1, <4>1
      <4>3. Covers("EXTREME_BIN", damage, u, Len(u), received, index, indexStore)
        BY <4>2, SegmentKnown DEF Covered
      <4> QED
        BY <2>1, <2>3, <3>1, <4>1, <4>3
    <3>2. CASE f # u
      <4>1. Place(f)' = 0
        BY <1>1, <3>2 DEF Place
      <4> QED
        BY <2>3, <2>5, <4>1
    <3> QED
      BY <3>1, <3>2
  <2>9. \A f \in savedKnown : Covers(kind, damage, f, Len(f), 0, index', LoadedStore)
    BY <2>4, <2>5
  <2> HIDE DEF u, n, s
  <2> QED
    BY <1>1, <1>2, <2>5, <2>6, <2>7, <2>8, <2>9 DEF KnownFound, Finds, u
<1> QED
  BY <1>1, <1>3, <1>4 DEF ProcessOneSegment

LEMMA CoveredInit == ASSUME Init PROVE Covered
BY DEF Init, Covered, KnownFound, CurrentSegment

LEMMA KnownStep ==
    ASSUME Basics, Covered, [Next]_vars
    PROVE  known' \subseteq Files /\ savedKnown' \subseteq Files /\ (phase' = "off" => known' = savedKnown')
<1>1. CASE UNCHANGED <<known, savedKnown, phase>>
  BY <1>1 DEF Covered
<1>2. CASE Boot \/ SealIndex \/ SaveKeys
  BY <1>2 DEF Boot, SealIndex, SaveKeys, history, Covered
<1>3. CASE SaveDatabase
  BY <1>3 DEF SaveDatabase, Covered
<1>4. CASE EndUpload
  BY <1>4 DEF EndUpload, Covered, Basics, Position
<1>5. CASE Crash \/ ExitMissing
  BY <1>5 DEF Crash, ExitMissing, Die, Covered
<1>6. CASE UNCHANGED vars \/ (\E f \in Files : BeginUpload(f)) \/ DirectChunk \/ BufferChunk \/ SegmentEnd \/ RecipeEnd \/ Abort
  BY <1>1, <1>6 DEF vars, history, BeginUpload, DirectChunk, BufferChunk, SegmentEnd, RecipeEnd, Abort
<1> QED
  BY <1>2, <1>3, <1>4, <1>5, <1>6 DEF Next

LEMMA KnownFoundStep == ASSUME Basics, Closed, Covered, [Next]_vars PROVE KnownFound'
<1>0. /\ kind' = kind /\ damage \subseteq damage' /\ None \notin Files
      /\ known \subseteq Files /\ savedKnown \subseteq Files /\ phase \in {"off", "running", "indexSealed", "keysSaved"}
  BY DamageGrows, IndexAssumption DEF Next, vars, Boot, SealIndex, SaveKeys, SaveDatabase, BeginUpload, DirectChunk,
         BufferChunk, SegmentEnd, RecipeEnd, EndUpload, Abort, Crash, ExitMissing, Die, Covered, Basics, Keys
<1>1. /\ uploading # None => Covers(kind, damage, uploading, Len(entries), Len(entries), index, indexStore)
      /\ phase # "off" => \A f \in known : Covers(kind, damage, f, Len(f), Place(f), index, indexStore)
      /\ phase # "off" => \A f \in savedKnown : Covers(kind, damage, f, Len(f), 0, index, LoadedStore)
      /\ \A f \in savedKnown : Covers(kind, damage, f, Len(f), 0, LoadedIndex, LoadedStore)
      /\ phase \in {"indexSealed", "keysSaved"} =>
            \A f \in known : Covers(kind, damage, f, Len(f), 0, LoadedIndex, indexStore)
  BY DEF Covered, KnownFound, Finds
<1>2. ASSUME NEW f, NEW n, NEW m, NEW ix, NEW store, Covers(kind, damage, f, n, m, ix, store)
      PROVE  Covers(kind, damage', f, n, m, ix, store) /\ Covers(kind, damage', f, n, 0, ix, store)
  BY <1>0, <1>2, CoversKept
<1>3. \A f \in Files : uploading = None \/ entries = << >> => Place(f) = 0
  BY <1>0 DEF Place
<1>4. CASE UNCHANGED <<index, indexStore, sealedIndex, dbFile, phase, known, savedKnown, uploading, entries>>
  <2>1. LoadedIndex' = LoadedIndex /\ LoadedStore' = LoadedStore /\ \A f : Place(f)' = Place(f)
    BY <1>0, <1>4, LoadedKept, StoreKept DEF Place
  <2> QED
    BY <1>0, <1>1, <1>2, <1>4, <2>1 DEF KnownFound, Finds
<1>5. CASE Boot
  <2>1. /\ index' = LoadedIndex /\ indexStore' = LoadedStore
        /\ LoadedIndex' = LoadedIndex /\ LoadedStore' = LoadedStore
    BY <1>5, Booted
  <2>2. /\ phase = "off" /\ phase' = "running" /\ UNCHANGED <<known, savedKnown, uploading, entries, damage>>
        /\ known = savedKnown /\ uploading = None
    BY <1>5 DEF Boot, history, session, Covered, Basics, Position
  <2>3. \A f \in known : Place(f)' = 0
    BY <1>0, <2>2 DEF Place
  <2> QED
    BY <1>0, <1>1, <2>1, <2>2, <2>3 DEF KnownFound, Finds
<1>6. CASE SealIndex
  <2>1. /\ phase = "running" /\ phase' = "indexSealed" /\ uploading = None
        /\ UNCHANGED <<index, indexStore, dbFile, known, savedKnown, uploading, entries, damage>>
    BY <1>6 DEF SealIndex, memory, history, session
  <2>2. LoadedStore' = LoadedStore /\ \A f \in known : Place(f) = 0 /\ Place(f)' = 0
    BY <1>0, <1>3, <2>1, StoreKept DEF Place
  <2>3. kind \in {"IN_ENCLAVE", "EXTREME_BIN"} => Same(LoadedIndex', index)
    BY <1>6, Sealed DEF Basics
  <2>4. ASSUME NEW f, NEW store, Covers(kind, damage, f, Len(f), 0, index, store)
        PROVE  Covers(kind, damage, f, Len(f), 0, LoadedIndex', store)
    BY <2>3, <2>4, SameItself, CoversSame
  <2> QED
    BY <1>0, <1>1, <2>1, <2>2, <2>4 DEF KnownFound, Finds
<1>7. CASE SaveKeys
  <2>1. /\ phase = "indexSealed" /\ phase' = "keysSaved"
        /\ UNCHANGED <<index, indexStore, dbFile, sealedIndex, known, savedKnown, uploading, entries, damage>>
    BY <1>7 DEF SaveKeys, memory, history, session
  <2>2. LoadedIndex' = LoadedIndex /\ LoadedStore' = LoadedStore /\ \A f : Place(f)' = Place(f)
    BY <1>0, <2>1, LoadedKept, StoreKept DEF Place
  <2> QED
    BY <1>0, <1>1, <2>1, <2>2 DEF KnownFound, Finds
<1>8. CASE SaveDatabase
  <2>1. /\ phase = "keysSaved" /\ phase' = "off" /\ savedKnown' = known /\ uploading' = None
        /\ UNCHANGED <<sealedIndex, damage>>
    BY <1>8 DEF SaveDatabase, session, Basics, Position
  <2>2. LoadedIndex' = LoadedIndex /\ Same(LoadedStore', indexStore)
    BY <1>0, <1>8, <2>1, LoadedKept, Stored
  <2>3. ASSUME NEW f \in known PROVE Covers(kind, damage, f, Len(f), 0, LoadedIndex, LoadedStore')
    <3>1. Covers(kind, damage, f, Len(f), 0, LoadedIndex, indexStore)
      BY <1>1, <2>1
    <3> QED
      BY <2>2, <3>1, SameItself, CoversSame
  <2> QED
    BY <1>0, <2>1, <2>2, <2>3 DEF KnownFound, Finds
<1>9. ASSUME NEW f \in Files, BeginUpload(f) PROVE KnownFound'
  <2>1. /\ phase = "running" /\ uploading = None /\ uploading' = f /\ entries = << >>
        /\ UNCHANGED <<index, indexStore, dbFile, sealedIndex, phase, known, savedKnown, entries, damage>>
    BY <1>9 DEF BeginUpload, memory, disk, history, Basics, Position
  <2>2. LoadedIndex' = LoadedIndex /\ LoadedStore' = LoadedStore
    BY <1>0, <2>1, LoadedKept, StoreKept
  <2>3. Len(entries') = 0
    BY <2>1
  <2>4. \A g \in known : Place(g) = 0 /\ Place(g)' = 0
    BY <1>0, <1>3, <2>1, <2>3 DEF Place
  <2>5. Len(f) \in Nat
    BY IndexAssumption
  <2>6. Covers(kind, damage, f, 0, 0, index, indexStore)
    BY <2>5, CoversNone
  <2> QED
    BY <1>0, <1>1, <2>1, <2>2, <2>3, <2>4, <2>6 DEF KnownFound, Finds
<1>10. CASE DirectChunk
  BY <1>10, CoversDirect
<1>11. CASE SegmentEnd \/ (RecipeEnd /\ segment.chunks # << >>)
  BY <1>11, CoversSegment
<1>12. CASE EndUpload
  <2>1. /\ phase = "running" /\ uploading # None /\ uploading' = None /\ known' = known \cup {uploading}
        /\ UNCHANGED <<index, indexStore, dbFile, sealedIndex, phase, savedKnown, damage>>
        /\ uploading \in DOMAIN recipes
    BY <1>12 DEF EndUpload, NoSession, memory, disk
  <2>2. LoadedIndex' = LoadedIndex /\ LoadedStore' = LoadedStore
    BY <1>0, <2>1, LoadedKept, StoreKept
  <2>3. uploading \in Files /\ \A g \in known' : Place(g)' = 0
    BY <1>0, <2>1 DEF Place, Basics, Position
  <2>4. Len(entries) = Len(uploading)
    <3>1. received = Len(uploading) /\ segment = EmptySegment /\ Len(entries) + Len(segment.chunks) = received /\ Len(entries) \in Nat
      BY <2>1 DEF Basics, Position, Sequence
    <3> QED
      BY <3>1, EmptySegmentOK
  <2>5. ASSUME NEW g \in known' PROVE Covers(kind, damage, g, Len(g), 0, index, indexStore)
    <3>1. CASE g = uploading
      <4>1. Covers(kind, damage, g, Len(g), Len(entries), index, indexStore) /\ damage' = damage
        BY <1>1, <2>1, <2>4, <3>1
      <4> QED
        BY <1>2, <4>1
    <3>2. CASE g \in known
      <4>1. Covers(kind, damage, g, Len(g), Place(g), index, indexStore) /\ damage' = damage
        BY <1>1, <2>1, <3>2
      <4> QED
        BY <1>2, <4>1
    <3> QED
      BY <2>1, <3>1, <3>2
  <2> QED
    BY <1>0, <1>1, <2>1, <2>2, <2>3, <2>5 DEF KnownFound, Finds
<1>13. CASE Abort
  <2>1. /\ phase = "running" /\ uploading' = None
        /\ UNCHANGED <<index, indexStore, dbFile, sealedIndex, phase, known, savedKnown>>
    BY <1>13 DEF Abort, NoSession, memory, disk
  <2>2. LoadedIndex' = LoadedIndex /\ LoadedStore' = LoadedStore
    BY <1>0, <2>1, LoadedKept, StoreKept
  <2>3. \A g \in known' : Place(g)' = 0
    BY <1>0, <2>1 DEF Place
  <2>4. \A g \in known : Covers(kind, damage', g, Len(g), 0, index, indexStore)
    BY <1>1, <1>2, <2>1
  <2>5. /\ \A f \in savedKnown : Covers(kind, damage', f, Len(f), 0, index, LoadedStore)
        /\ \A f \in savedKnown : Covers(kind, damage', f, Len(f), 0, LoadedIndex, LoadedStore)
    BY <1>1, <1>2, <2>1
  <2> QED
    BY <1>0, <2>1, <2>2, <2>3, <2>4, <2>5 DEF KnownFound, Finds
<1>14. CASE Crash \/ ExitMissing
  <2>1. phase' = "off" /\ uploading' = None /\ UNCHANGED <<dbFile, sealedIndex, savedKnown>>
    BY <1>14 DEF Crash, ExitMissing, Die, NoSession, disk
  <2>2. LoadedIndex' = LoadedIndex /\ LoadedStore' = LoadedStore
    BY <1>0, <2>1, LoadedKept, StoreKept
  <2>3. \A f \in savedKnown : Covers(kind, damage', f, Len(f), 0, LoadedIndex, LoadedStore)
    BY <1>1, <1>2
  <2> QED
    BY <1>0, <2>1, <2>2, <2>3 DEF KnownFound, Finds
<1>15. CASE RecipeEnd /\ segment.chunks = << >>
  BY <1>4, <1>15 DEF RecipeEnd, disk, history
<1>16. CASE UNCHANGED vars \/ BufferChunk
  BY <1>4, <1>16 DEF vars, memory, disk, history, session, BufferChunk
<1> QED
  BY <1>5, <1>6, <1>7, <1>8, <1>9, <1>10, <1>11, <1>12, <1>13, <1>14, <1>15, <1>16 DEF Next

LEMMA CoveredStep == ASSUME Basics, Closed, Covered, [Next]_vars PROVE Covered'
<1>1. CurrentSegment'
  BY CurrentSegmentStep DEF Covered
<1>2. KnownFound'
  BY KnownFoundStep
<1>3. known' \subseteq Files /\ savedKnown' \subseteq Files /\ (phase' = "off" => known' = savedKnown')
  BY KnownStep
<1> QED
  BY <1>1, <1>2, <1>3 DEF Covered

LEMMA CoveredAlways == Spec => []Covered
BY CoveredInit, CoveredStep, BasicsAlways, ClosedAlways, PTL DEF Spec

(* The step that stores a chunk of a known file would contradict Covered. *)
LEMMA NothingStored ==
    ASSUME Basics, Closed, Covered, Next, uploading \in known, kind # "SPARSE_INDEX",
           kind = "FREQ_INDEX" => "torn" \notin damage
    PROVE  addresses' = addresses
<1> DEFINE u == uploading
<1>0. /\ u \in Files /\ u \in Seq(Fp) /\ addresses \in Nat /\ u # None
      /\ phase # "off" => Covers(kind, damage, u, Len(u), Len(entries), index, indexStore)
  BY IndexAssumption DEF Covered, KnownFound, Finds, Place, Basics, Addresses
<1>1. CASE DirectChunk
  <2> DEFINE s == <<Chunk>>
  <2>1. s \in Seq({Chunk}) /\ Range(s) = {Chunk}
    BY DEF Range
  <2>2. received + 1 \in 1 .. Len(u) /\ Chunk = u[received + 1] /\ phase = "running"
    BY <1>1, ChunkIs DEF DirectChunk, Basics, Chunk, Receiving
  <2>3. Covers(kind, damage, u, Len(u), Len(entries), index, indexStore)
    BY <1>0, <2>2
  <2>4. CASE InEnclaveChunk(Chunk)
    <3>1. Dedup(s, index) /\ Chunk \in DOMAIN index
      BY <2>2, <2>3, <2>4 DEF InEnclaveChunk, Covers
    <3>2. Unique(s, index) = {}
      BY <2>1, <3>1 DEF Unique
    <3> QED
      BY <1>0, <2>1, <3>1, <3>2, DedupAddresses
  <2>5. CASE OutEnclaveChunk(Chunk)
    <3>1. Dedup(s, indexStore) /\ Chunk \in DOMAIN indexStore
      BY <2>2, <2>3, <2>5 DEF OutEnclaveChunk, Covers
    <3>2. Unique(s, indexStore) = {}
      BY <2>1, <3>1 DEF Unique
    <3> QED
      BY <1>0, <2>1, <3>1, <3>2, DedupAddresses
  <2>6. CASE FreqChunk(Chunk)
    <3> DEFINE d == Insert(index, indexStore)
    <3>1. Dedup(s, d) /\ Chunk \in DOMAIN indexStore
      BY <2>2, <2>3, <2>6 DEF FreqChunk, Covers
    <3>2. Chunk \in DOMAIN d
      BY <3>1 DEF Insert
    <3>3. Unique(s, d) = {}
      BY <2>1, <3>2 DEF Unique
    <3> QED
      BY <1>0, <2>1, <3>1, <3>3, DedupAddresses
  <2> QED
    BY <1>1, <2>4, <2>5, <2>6 DEF DirectChunk
<1>2. CASE SegmentEnd \/ (RecipeEnd /\ segment.chunks # << >>)
  <2> DEFINE s == segment.chunks
             d == FetchBin(s)
  <2>1. ExtremeSegment(s) /\ phase = "running"
    BY <1>2 DEF SegmentEnd, RecipeEnd, Receiving, AtRecipeEnd, ProcessOneSegment, SparseSegment
  <2>2. kind = "EXTREME_BIN" /\ Dedup(s, d)
    BY <2>1 DEF ExtremeSegment
  <2>3. Filled(s, index, indexStore)
    BY <1>0, <1>2, <2>1, <2>2, SegmentKnown DEF Covered
  <2>4. Range(s) \subseteq DOMAIN d
    BY <2>3 DEF Filled, FetchBin, Bin
  <2>5. s \in Seq(Fp)
    BY DEF Basics, SegmentOK
  <2>6. Unique(s, d) = {}
    BY <2>4 DEF Unique
  <2> QED
    BY <1>0, <2>2, <2>5, <2>6, DedupAddresses
<1>3. CASE RecipeEnd /\ segment.chunks = << >>
  BY <1>3 DEF RecipeEnd
<1>4. CASE Boot \/ SealIndex \/ SaveKeys \/ SaveDatabase \/ (\E f \in Files : BeginUpload(f)) \/ BufferChunk \/ EndUpload
  BY <1>4 DEF Boot, SealIndex, SaveKeys, SaveDatabase, BeginUpload, BufferChunk, EndUpload, counts
<1>5. CASE Abort \/ Crash \/ ExitMissing
  BY <1>5 DEF Abort, Crash, ExitMissing, Die
<1> QED
  BY <1>1, <1>2, <1>3, <1>4, <1>5 DEF Next

(* A file that was uploaded before, in this life or in one that was shut     *)
(* down properly, is found chunk by chunk, or segment by segment, by every   *)
(* pair of an index and a database that a later life can have: segments      *)
(* begin and end at the same places of a file whenever it is uploaded, and   *)
(* a bin never loses a chunk.                                                *)
THEOREM UploadedOnce == Spec => ReuploadStoresNothing
<1>1. Basics /\ Closed /\ Covered /\ [Next]_vars =>
        [/\ addresses' # addresses
         /\ kind # "SPARSE_INDEX"
         /\ kind = "FREQ_INDEX" => "torn" \notin damage
         => uploading \notin known]_vars
  BY NothingStored
<1> QED
  BY <1>1, BasicsAlways, ClosedAlways, CoveredAlways, PTL DEF Spec, ReuploadStoresNothing
=============================================================================
