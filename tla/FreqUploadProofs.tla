--------------------------- MODULE FreqUploadProofs ---------------------------
(***************************************************************************)
(* Proofs about FreqUpload, for every set of clients, build flag, chunk     *)
(* set and size, and for every number of rows, width and hash placement of  *)
(* the sketch.                                                              *)
(*                                                                         *)
(* First what the sketch guarantees: an estimate is a counter of the        *)
(* fingerprint, an update raises the estimate of its own fingerprint and    *)
(* lowers none.                                                             *)
(*                                                                         *)
(* Then the types.  Type correctness is not inductive by itself: that an    *)
(* entry added to the top-k index or to the out-enclave index carries an    *)
(* address depends on how far the batch has been processed, which Shape     *)
(* says client by client.                                                   *)
(*                                                                         *)
(* Then what the sketch and the top-k index guarantee in every order in     *)
(* which batches interleave: frequencies are never underestimated by the    *)
(* sketch, never overtaken by a stale copy in a batch or in the heap, and   *)
(* the heap never outgrows topThreshold_.                                   *)
(*                                                                         *)
(* Last what is stored: the slots of a container never overlap, every       *)
(* address an index, a query buffer or a recipe holds leads to its chunk in *)
(* every copy of the container, no such container is lost while no upload   *)
(* is cut short, and a finished file can be restored.  That argument        *)
(* follows a container from the enclave to its file.  Storage says where    *)
(* containers can be and with which IDs; At(d, m, o, fp) says that chunk fp *)
(* is at offset o of every copy of the m-th container of client d, and      *)
(* every step keeps it; Known says it of every address the server holds;    *)
(* Aligned ties the recipe to what the client sent.                         *)
(***************************************************************************)
EXTENDS FreqUpload, SequenceTheorems, FiniteSetTheorems, WellFoundedInduction, TLAPS

(* A nonempty set of naturals has its minimum. *)
LEMMA MinNat ==
    ASSUME NEW S \in SUBSET Nat, S # {}
    PROVE  Min(S) \in S /\ \A y \in S : Min(S) <= y
<1> DEFINE R == {p \in Nat \X Nat : p[1] < p[2]}
<1>1. IsWellFoundedOn(R, Nat)
  BY NatLessThanWellFounded, Zenon DEF OpToRel
<1>2. PICK x \in S : \A y \in S : ~(<<y, x>> \in R)
  <2> HIDE DEF R
  <2> QED BY <1>1, WFMin
<1>3. \A y \in S : y \in Nat /\ x \in Nat /\ ~(y < x)
  BY <1>2
<1>4. \A y \in S : x <= y
  BY <1>3
<1> QED
  BY <1>4 DEF Min

(* The counters that belong to a fingerprint. *)
Counters(sk, fp) == {sk[r][Pos[r][fp]] : r \in Row}

(* EcallCMSketch::Estimate returns one of the fingerprint's counters, and    *)
(* none of them is smaller.                                                 *)
LEMMA EstimateIsMin ==
    ASSUME NEW sk \in Sketch, NEW fp \in Fp
    PROVE  /\ Estimate(sk, fp) \in Nat
           /\ \E r \in Row : Estimate(sk, fp) = sk[r][Pos[r][fp]]
           /\ \A r \in Row : Estimate(sk, fp) <= sk[r][Pos[r][fp]]
<1>1. Counters(sk, fp) \in SUBSET Nat /\ Counters(sk, fp) # {}
  BY SketchAssumption DEF Counters, Sketch
<1>2. /\ Estimate(sk, fp) \in Counters(sk, fp)
      /\ \A y \in Counters(sk, fp) : Estimate(sk, fp) <= y
  BY <1>1, MinNat DEF Estimate, Counters
<1> QED
  BY <1>1, <1>2 DEF Counters

(* EcallCMSketch::Update adds one to each counter of its fingerprint and     *)
(* leaves every other counter as it was.                                    *)
LEMMA UpdateCounters ==
    ASSUME NEW sk \in Sketch, NEW fp \in Fp
    PROVE  /\ Update(sk, fp) \in Sketch
           /\ \A r \in Row : \A g \in Fp :
                 Update(sk, fp)[r][Pos[r][g]] =
                     IF Pos[r][g] = Pos[r][fp] THEN sk[r][Pos[r][g]] + 1
                                               ELSE sk[r][Pos[r][g]]
<1>1. \A r \in Row : \A g \in Fp : Pos[r][g] \in 0..(Width - 1)
  BY SketchAssumption
<1>2. \A r \in Row : sk[r] \in [0..(Width - 1) -> Nat]
  BY DEF Sketch
<1>3. ASSUME NEW r \in Row
      PROVE  /\ Update(sk, fp)[r] \in [0..(Width - 1) -> Nat]
             /\ \A g \in Fp :
                   Update(sk, fp)[r][Pos[r][g]] =
                       IF Pos[r][g] = Pos[r][fp] THEN sk[r][Pos[r][g]] + 1
                                                 ELSE sk[r][Pos[r][g]]
  <2> DEFINE W == 0..(Width - 1)
             row == sk[r]
             at == Pos[r][fp]
  <2>1. Update(sk, fp)[r] = [row EXCEPT ![at] = row[at] + 1]
    BY DEF Update
  <2>2. row \in [W -> Nat] /\ at \in W /\ \A g \in Fp : Pos[r][g] \in W
    BY <1>1, <1>2
  <2> HIDE DEF W, row, at
  <2>3. [row EXCEPT ![at] = row[at] + 1] \in [W -> Nat]
    BY <2>2
  <2>4. \A p \in W : [row EXCEPT ![at] = row[at] + 1][p] =
                          IF p = at THEN row[p] + 1 ELSE row[p]
    BY <2>2
  <2> QED
    BY <2>1, <2>2, <2>3, <2>4 DEF W, row, at
<1>4. Update(sk, fp) \in Sketch
  BY <1>3 DEF Update, Sketch
<1> QED
  BY <1>3, <1>4

(* Counting one chunk never lowers the estimate of any chunk. *)
LEMMA EstimateMonotone ==
    ASSUME NEW sk \in Sketch, NEW fp \in Fp, NEW g \in Fp
    PROVE  Estimate(sk, g) <= Estimate(Update(sk, fp), g)
<1>1. Update(sk, fp) \in Sketch
  BY UpdateCounters
<1>2. PICK r \in Row : Estimate(Update(sk, fp), g) = Update(sk, fp)[r][Pos[r][g]]
  BY <1>1, EstimateIsMin
<1>3. sk[r][Pos[r][g]] \in Nat
  BY SketchAssumption DEF Sketch
<1>4. sk[r][Pos[r][g]] <= Update(sk, fp)[r][Pos[r][g]]
  BY <1>3, UpdateCounters
<1>5. /\ Estimate(sk, g) \in Nat
      /\ Estimate(sk, g) <= sk[r][Pos[r][g]]
      /\ Estimate(Update(sk, fp), g) \in Nat
  BY <1>1, EstimateIsMin
<1> QED
  BY <1>2, <1>3, <1>4, <1>5

(* Counting a chunk raises its own estimate by at least one. *)
LEMMA EstimateGrows ==
    ASSUME NEW sk \in Sketch, NEW fp \in Fp
    PROVE  Estimate(sk, fp) + 1 <= Estimate(Update(sk, fp), fp)
<1>1. Update(sk, fp) \in Sketch
  BY UpdateCounters
<1>2. PICK r \in Row : Estimate(Update(sk, fp), fp) = Update(sk, fp)[r][Pos[r][fp]]
  BY <1>1, EstimateIsMin
<1>3. Update(sk, fp)[r][Pos[r][fp]] = sk[r][Pos[r][fp]] + 1
  BY UpdateCounters
<1>4. /\ Estimate(sk, fp) \in Nat
      /\ Estimate(sk, fp) <= sk[r][Pos[r][fp]]
      /\ sk[r][Pos[r][fp]] \in Nat
  <2>1. Pos[r][fp] \in 0..(Width - 1)
    BY SketchAssumption
  <2>2. sk[r][Pos[r][fp]] \in Nat
    BY <2>1 DEF Sketch
  <2> QED
    BY <2>2, EstimateIsMin
<1> QED
  BY <1>2, <1>3, <1>4

(* A new sketch estimates every chunk at zero. *)
LEMMA EstimateEmpty ==
    /\ EmptySketch \in Sketch
    /\ \A fp \in Fp : Estimate(EmptySketch, fp) = 0
<1>1. EmptySketch \in Sketch
  BY DEF EmptySketch, Sketch
<1>2. \A r \in Row : \A fp \in Fp : EmptySketch[r][Pos[r][fp]] = 0
  BY SketchAssumption DEF EmptySketch
<1> QED
  BY <1>1, <1>2, EstimateIsMin
-----------------------------------------------------------------------------
InBatch == {"lockSketch", "sketch", "lockTopK", "topK", "query", "proc",
            "lockHeap", "heap", "outUpdate"}
InLoop  == {"sketch", "topK", "proc", "heap"}

(* Entries 1..n of the batch are classified: a duplicate of the top-k index *)
(* has its address, a repetition refers to an earlier, different entry of   *)
(* the same chunk.                                                          *)
Classified(q, n) ==
    \A j \in 1..n :
        /\ q[j].dedupFlag # "NONE"
        /\ q[j].dedupFlag = "DUPLICATE" => q[j].chunkAddr \in Addr
        /\ q[j].dedupFlag \in {"TMP_UNIQUE", "TMP_DUPLICATE"} =>
              /\ q[j].ref \in 1..(j - 1)
              /\ q[q[j].ref].dedupFlag \in {"UNIQUE", "DUPLICATE"}
              /\ q[q[j].ref].chunkHash = q[j].chunkHash

(* Entries 1..n have their chunk stored or found. *)
Placed(q, n) ==
    \A j \in 1..n : q[j].dedupFlag \in {"UNIQUE", "DUPLICATE"} => q[j].chunkAddr \in Addr

(* The answers of the out-enclave index: one for every chunk asked for, and *)
(* one without an address belongs to a new chunk that entry n or an earlier *)
(* one did not store.                                                       *)
Queried(q, oq, n) ==
    /\ \A j \in 1..Len(q) : q[j].dedupFlag = "UNIQUE" => q[j].chunkHash \in DOMAIN oq
    /\ \A fp \in DOMAIN oq : oq[fp].chunkAddr \notin Addr =>
          /\ oq[fp].dedupFlag = "UNIQUE"
          /\ \E j \in (n + 1)..Len(q) : q[j].dedupFlag = "UNIQUE" /\ q[j].chunkHash = fp

(* How far the batch of a client is, by where its thread stands. *)
BatchShape(p, k, q, oq) ==
    /\ p \in InBatch => k \in 1..Len(q)
    /\ p \notin InLoop => k = 1
    /\ p \notin InBatch => q = <<>>
    /\ p = "topK" => Classified(q, k - 1)
    /\ p \in {"query", "proc", "lockHeap", "heap", "outUpdate"} => Classified(q, Len(q))
    /\ p = "proc" => Placed(q, k - 1) /\ Queried(q, oq, k - 1)
    /\ p \in {"lockHeap", "heap", "outUpdate"} => Placed(q, Len(q)) /\ Queried(q, oq, Len(q))

Shape == \A c \in Client : BatchShape(pc[c], i[c], inQuery[c], outQuery[c])
-----------------------------------------------------------------------------
(* Lemmas on the operators of the model.                                    *)

(* Setting an entry of an index. *)
LEMMA PutEntry ==
    ASSUME NEW D, NEW T, NEW f \in [D -> T], NEW k, NEW v \in T
    PROVE  /\ Put(f, k, v) \in [D \cup {k} -> T]
           /\ Put(f, k, v)[k] = v
           /\ \A n \in D \ {k} : Put(f, k, v)[n] = f[n]
BY DEF Put

(* Changing one entry of a batch. *)
LEMMA SetEntry ==
    ASSUME NEW S, NEW q \in Seq(S), NEW k \in 1..Len(q), NEW e \in S
    PROVE  /\ [q EXCEPT ![k] = e] \in Seq(S)
           /\ Len([q EXCEPT ![k] = e]) = Len(q)
           /\ \A j \in 1..Len(q) : [q EXCEPT ![k] = e][j] = IF j = k THEN e ELSE q[j]
BY ExceptSeq

(* TopEntry of a nonempty heap is the frequency of some entry. *)
LEMMA TopEntryIsMin ==
    ASSUME TypeOK, DOMAIN topK # {}
    PROVE  /\ TopEntry \in Nat
           /\ \E fp \in DOMAIN topK : topK[fp].chunkFreq = TopEntry
           /\ \A fp \in DOMAIN topK : TopEntry <= topK[fp].chunkFreq
<1> DEFINE S == {topK[fp].chunkFreq : fp \in DOMAIN topK}
<1>0. topK \in [DOMAIN topK -> HeapItem]
  BY DEF TypeOK, SharedType, PartialFunction
<1>1. S \in SUBSET Nat /\ S # {}
  BY <1>0 DEF HeapItem
<1>2. TopEntry = Min(S)
  BY DEF TopEntry
<1>3. Min(S) \in S /\ \A y \in S : Min(S) <= y
  <2> HIDE DEF S
  <2> QED BY <1>1, MinNat
<1> QED
  BY <1>1, <1>2, <1>3

(* A full heap is not empty: topThreshold_ is positive. *)
LEMMA FullHeap ==
    TopKSize = TopThreshold => DOMAIN topK # {}
BY FS_EmptySet, UploadAssumption DEF TopKSize

(* A step that leaves the batches of the other clients alone keeps Shape if *)
(* it keeps the shape of its own client.                                    *)
LEMMA ShapeOfOne ==
    ASSUME NEW c \in Client, Shape,
           \A d \in Client \ {c} : /\ pc'[d] = pc[d]
                                   /\ i'[d] = i[d]
                                   /\ inQuery'[d] = inQuery[d]
                                   /\ outQuery'[d] = outQuery[d],
           BatchShape(pc'[c], i'[c], inQuery'[c], outQuery'[c])
    PROVE  Shape'
<1>1. ASSUME NEW d \in Client
      PROVE  BatchShape(pc'[d], i'[d], inQuery'[d], outQuery'[d])
  BY <1>1 DEF Shape
<1> QED
  BY <1>1 DEF Shape
-----------------------------------------------------------------------------
(* One lemma per action.                                                    *)

(* The initial state. *)
LEMMA InitTyped == Init => TypeOK /\ Shape
<1> SUFFICES ASSUME Init PROVE TypeOK /\ Shape
  OBVIOUS
<1>1. SharedType
  BY EstimateEmpty DEF Init, SharedType, PartialFunction, RecipeFile
<1>2. EnclaveType
  BY DEF Init, EnclaveType, Location, NoContainer
<1>3. OutsideType
  BY DEF Init, OutsideType, PartialFunction, Container, ContainerID, Range
<1>4. HistoryType
  BY DEF Init, HistoryType
<1>5. Shape
  BY DEF Init, Shape, BatchShape, InBatch, InLoop
<1> QED
  BY <1>1, <1>2, <1>3, <1>4, <1>5 DEF TypeOK

LEMMA StartUploadTyped ==
    ASSUME TypeOK, Shape, NEW c \in Client, StartUpload(c)
    PROVE  TypeOK' /\ Shape'
<1> USE DEF TypeOK
<1>1. /\ pc[c] = "idle" /\ pc' = [pc EXCEPT ![c] = "recv"]
      /\ i' = i /\ inQuery' = inQuery /\ outQuery' = outQuery
  BY DEF StartUpload, Goto
<1>2. SharedType'
  BY DEF StartUpload, SharedType, RecipeFile
<1>3. EnclaveType'
  BY <1>1 DEF StartUpload, EnclaveType, Location, NoContainer
<1>4. CreateUUID(c) \in ContainerID
  BY DEF OutsideType, CreateUUID, ContainerID
<1>5. OutsideType'
  <2>1. curContainer' \in [Client -> Container]
    BY <1>4 DEF StartUpload, OutsideType, Container
  <2>2. inputMQ' \in [Client -> Seq(Container)]
    BY DEF StartUpload, OutsideType
  <2>3. uuid' \in [Client -> Nat]
    BY DEF StartUpload, OutsideType
  <2>4. done' \in [Client -> BOOLEAN] /\ writer' \in [Client -> {"off", "check", "pop", "lastPop"}]
    BY DEF StartUpload, OutsideType
  <2> QED
    BY <1>1, <2>1, <2>2, <2>3, <2>4 DEF OutsideType
<1>6. HistoryType'
  BY DEF StartUpload, HistoryType
<1>7. BatchShape(pc'[c], i'[c], inQuery'[c], outQuery'[c])
  BY <1>1 DEF EnclaveType, Shape, BatchShape, InBatch, InLoop
<1> QED
  BY <1>1, <1>2, <1>3, <1>5, <1>6, <1>7, ShapeOfOne DEF EnclaveType

LEMMA LockSketchTyped ==
    ASSUME TypeOK, Shape, NEW c \in Client, LockSketch(c)
    PROVE  TypeOK' /\ Shape'
<1> USE DEF TypeOK, enclave, outside, history
<1>1. /\ pc[c] = "lockSketch" /\ pc' = [pc EXCEPT ![c] = "sketch"]
      /\ i' = i /\ inQuery' = inQuery /\ outQuery' = outQuery
  BY DEF LockSketch, Goto
<1>2. SharedType'
  BY DEF LockSketch, SharedType, Owner
<1>3. EnclaveType'
  BY <1>1 DEF LockSketch, EnclaveType, Location
<1>4. OutsideType' /\ HistoryType'
  BY DEF LockSketch, OutsideType, HistoryType
<1>5. BatchShape(pc'[c], i'[c], inQuery'[c], outQuery'[c])
  BY <1>1 DEF EnclaveType, Shape, BatchShape, InBatch, InLoop
<1> QED
  BY <1>1, <1>2, <1>3, <1>4, <1>5, ShapeOfOne DEF EnclaveType

LEMMA LockTopKTyped ==
    ASSUME TypeOK, Shape, NEW c \in Client, LockTopK(c)
    PROVE  TypeOK' /\ Shape'
<1> USE DEF TypeOK, outside, history
<1>1. /\ pc[c] = "lockTopK" /\ pc' = [pc EXCEPT ![c] = "topK"]
      /\ i' = i /\ inQuery' = inQuery /\ outQuery' = outQuery
  BY DEF LockTopK, Goto
<1>2. SharedType'
  BY DEF LockTopK, SharedType, Owner
<1>3. (IF TopKSize = TopThreshold THEN TopEntry ELSE 0) \in Nat
  BY FullHeap, TopEntryIsMin
<1>4. EnclaveType'
  BY <1>1, <1>3 DEF LockTopK, EnclaveType, Location
<1>5. OutsideType' /\ HistoryType'
  BY DEF LockTopK, OutsideType, HistoryType
<1>6. i'[c] = 1 /\ Classified(inQuery'[c], i'[c] - 1)
  <2>1. i'[c] = 1
    BY <1>1 DEF Shape, BatchShape, InLoop
  <2> QED
    BY <2>1 DEF Classified
<1>7. BatchShape(pc'[c], i'[c], inQuery'[c], outQuery'[c])
  BY <1>1, <1>6 DEF EnclaveType, Shape, BatchShape, InBatch, InLoop
<1> QED
  BY <1>1, <1>2, <1>4, <1>5, <1>7, ShapeOfOne DEF EnclaveType

LEMMA LockHeapTyped ==
    ASSUME TypeOK, Shape, NEW c \in Client, LockHeap(c)
    PROVE  TypeOK' /\ Shape'
<1> USE DEF TypeOK, enclave, outside, history
<1>1. /\ pc[c] = "lockHeap" /\ pc' = [pc EXCEPT ![c] = "heap"]
      /\ i' = i /\ inQuery' = inQuery /\ outQuery' = outQuery
  BY DEF LockHeap, Goto
<1>2. SharedType'
  BY DEF LockHeap, SharedType, Owner
<1>3. EnclaveType'
  BY <1>1 DEF LockHeap, EnclaveType, Location
<1>4. OutsideType' /\ HistoryType'
  BY DEF LockHeap, OutsideType, HistoryType
<1>5. BatchShape(pc'[c], i'[c], inQuery'[c], outQuery'[c])
  BY <1>1 DEF EnclaveType, Shape, BatchShape, InBatch, InLoop
<1> QED
  BY <1>1, <1>2, <1>3, <1>4, <1>5, ShapeOfOne DEF EnclaveType

LEMMA RecvBatchTyped ==
    ASSUME TypeOK, Shape, NEW c \in Client, NEW b \in Batches, RecvBatch(c, b)
    PROVE  TypeOK' /\ Shape'
<1> USE DEF TypeOK, shared, outside
<1> DEFINE q == [j \in 1..Len(b) |-> [chunkHash |-> b[j], chunkFreq |-> 0,
                dedupFlag |-> "NONE", chunkAddr |-> NoAddr, ref |-> j]]
<1>1. b \in Seq(Fp) /\ Len(b) \in Nat \ {0}
  BY UploadAssumption, EmptySeq
<1>2. q \in Seq(InQueryEntry) /\ Len(q) = Len(b)
  BY <1>1, IsASeq DEF InQueryEntry, DedupFlag
<1>3. /\ pc[c] = "recv" /\ pc' = [pc EXCEPT ![c] = "lockSketch"]
      /\ inQuery' = [inQuery EXCEPT ![c] = q]
      /\ i' = i /\ outQuery' = outQuery
  BY DEF RecvBatch, Goto
<1>4. file[c] \in Seq(Fp) /\ file[c] \o b \in Seq(Fp)
  BY <1>1, ConcatProperties DEF HistoryType
<1>5. HistoryType'
  BY <1>1, <1>4 DEF RecvBatch, HistoryType
<1>6. SharedType' /\ OutsideType'
  BY DEF RecvBatch, SharedType, OutsideType
<1> HIDE DEF q
<1>7. minFreq' = minFreq /\ inContainer' = inContainer /\ inRecipe' = inRecipe
  BY DEF RecvBatch
<1>8. EnclaveType'
  BY <1>2, <1>3, <1>7 DEF EnclaveType, Location
<1>9. pc'[c] = "lockSketch" /\ i'[c] = 1 /\ inQuery'[c] = q
  BY <1>3 DEF EnclaveType, Shape, BatchShape, InBatch, InLoop
<1>10. BatchShape(pc'[c], i'[c], inQuery'[c], outQuery'[c])
  BY <1>1, <1>2, <1>9 DEF BatchShape, InBatch, InLoop
<1> QED
  BY <1>3, <1>5, <1>6, <1>8, <1>10, ShapeOfOne DEF EnclaveType
-----------------------------------------------------------------------------
(* The loops over a batch.                                                  *)

(* One turn of a loop: either the last one, which leaves the loop, or the   *)
(* next entry follows.                                                      *)
LEMMA LoopTurn ==
    ASSUME TypeOK, Shape, NEW c \in Client,
           NEW here \in InLoop, NEW next \in Location, Loop(c, here, next)
    PROVE  /\ pc[c] = here
           /\ i[c] \in 1..Len(inQuery[c]) /\ Len(inQuery[c]) \in Nat
           /\ inQuery[c] \in Seq(InQueryEntry)
           /\ pc' \in [Client -> Location] /\ i' \in [Client -> Nat \ {0}]
           /\ \A d \in Client \ {c} : pc'[d] = pc[d] /\ i'[d] = i[d]
           /\ \/ i[c] = Len(inQuery[c]) /\ pc'[c] = next /\ i'[c] = 1
              \/ i[c] < Len(inQuery[c]) /\ pc'[c] = here /\ i'[c] = i[c] + 1
<1>1. /\ pc[c] = here
      /\ pc' = [pc EXCEPT ![c] = IF LastTurn(c) THEN next ELSE here]
      /\ i' = [i EXCEPT ![c] = IF LastTurn(c) THEN 1 ELSE @ + 1]
  BY DEF Loop
<1>2. /\ pc \in [Client -> Location] /\ i \in [Client -> Nat \ {0}]
      /\ inQuery[c] \in Seq(InQueryEntry)
  BY DEF TypeOK, EnclaveType
<1>3. here \in Location /\ here \in InBatch
  BY DEF InLoop, Location, InBatch
<1>4. i[c] \in 1..Len(inQuery[c]) /\ Len(inQuery[c]) \in Nat
  BY <1>1, <1>2, <1>3 DEF Shape, BatchShape
<1>5. pc' \in [Client -> Location] /\ i' \in [Client -> Nat \ {0}]
  BY <1>1, <1>2, <1>3
<1> QED
  BY <1>1, <1>2, <1>4, <1>5 DEF LastTurn

(* The entry a step changes, and the entries it does not. *)
SameEntry(e, f) ==
    /\ e.chunkHash = f.chunkHash /\ e.dedupFlag = f.dedupFlag
    /\ e.chunkAddr = f.chunkAddr /\ e.ref = f.ref

(* Classifying the next entry. *)
LEMMA ClassifyNext ==
    ASSUME NEW q, NEW r, NEW k \in Nat \ {0},
           Classified(q, k - 1),
           \A j \in 1..(k - 1) : SameEntry(r[j], q[j]),
           r[k].dedupFlag # "NONE",
           r[k].dedupFlag = "DUPLICATE" => r[k].chunkAddr \in Addr,
           r[k].dedupFlag \in {"TMP_UNIQUE", "TMP_DUPLICATE"} =>
               /\ r[k].ref \in 1..(k - 1)
               /\ q[r[k].ref].dedupFlag \in {"UNIQUE", "DUPLICATE"}
               /\ q[r[k].ref].chunkHash = r[k].chunkHash
    PROVE  Classified(r, k)
<1> SUFFICES ASSUME NEW j \in 1..k
             PROVE  /\ r[j].dedupFlag # "NONE"
                    /\ r[j].dedupFlag = "DUPLICATE" => r[j].chunkAddr \in Addr
                    /\ r[j].dedupFlag \in {"TMP_UNIQUE", "TMP_DUPLICATE"} =>
                          /\ r[j].ref \in 1..(j - 1)
                          /\ r[r[j].ref].dedupFlag \in {"UNIQUE", "DUPLICATE"}
                          /\ r[r[j].ref].chunkHash = r[j].chunkHash
  BY DEF Classified
<1>1. CASE j = k
  BY <1>1 DEF SameEntry
<1>2. CASE j # k
  <2>1. j \in 1..(k - 1)
    BY <1>2
  <2>2. /\ q[j].dedupFlag # "NONE"
        /\ q[j].dedupFlag = "DUPLICATE" => q[j].chunkAddr \in Addr
        /\ q[j].dedupFlag \in {"TMP_UNIQUE", "TMP_DUPLICATE"} =>
              /\ q[j].ref \in 1..(j - 1)
              /\ q[q[j].ref].dedupFlag \in {"UNIQUE", "DUPLICATE"}
              /\ q[q[j].ref].chunkHash = q[j].chunkHash
    BY <2>1 DEF Classified
  <2>3. ASSUME q[j].ref \in 1..(j - 1) PROVE q[j].ref \in 1..(k - 1)
    BY <2>1, <2>3
  <2> QED
    BY <2>1, <2>2, <2>3 DEF SameEntry
<1> QED
  BY <1>1, <1>2

(* After classifying entry i the shape of the batch is as required. *)
LEMMA ClassifyShape ==
    ASSUME TypeOK, Shape, NEW c \in Client, Loop(c, "topK", "query"),
           Len(inQuery'[c]) = Len(inQuery[c]),
           Classified(inQuery'[c], i[c])
    PROVE  BatchShape(pc'[c], i'[c], inQuery'[c], outQuery'[c])
<1>1. /\ i[c] \in 1..Len(inQuery[c]) /\ Len(inQuery[c]) \in Nat
      /\ \/ i[c] = Len(inQuery[c]) /\ pc'[c] = "query" /\ i'[c] = 1
         \/ i[c] < Len(inQuery[c]) /\ pc'[c] = "topK" /\ i'[c] = i[c] + 1
  BY LoopTurn DEF InLoop, Location
<1>2. CASE i[c] = Len(inQuery[c]) /\ pc'[c] = "query" /\ i'[c] = 1
  BY <1>1, <1>2 DEF BatchShape, InBatch, InLoop
<1>3. CASE i[c] < Len(inQuery[c]) /\ pc'[c] = "topK" /\ i'[c] = i[c] + 1
  <2>1. i'[c] - 1 = i[c] /\ i'[c] \in 1..Len(inQuery'[c])
    BY <1>1, <1>3
  <2> QED
    BY <1>3, <2>1 DEF BatchShape, InBatch, InLoop
<1> QED
  BY <1>1, <1>2, <1>3

LEMMA UpdateSketchTyped ==
    ASSUME TypeOK, Shape, NEW c \in Client, UpdateSketch(c)
    PROVE  TypeOK' /\ Shape'
<1> USE DEF TypeOK, outside
<1> DEFINE q == inQuery[c]
           k == i[c]
           e == [q[k] EXCEPT !.chunkFreq = Estimate(sketch', q[k].chunkHash)]
<1>1. Loop(c, "sketch", "lockTopK")
  BY DEF UpdateSketch
<1>2. /\ pc[c] = "sketch" /\ k \in 1..Len(q) /\ Len(q) \in Nat
      /\ q \in Seq(InQueryEntry)
      /\ pc' \in [Client -> Location] /\ i' \in [Client -> Nat \ {0}]
      /\ \A d \in Client \ {c} : pc'[d] = pc[d] /\ i'[d] = i[d]
      /\ \/ k = Len(q) /\ pc'[c] = "lockTopK" /\ i'[c] = 1
         \/ k < Len(q) /\ pc'[c] = "sketch" /\ i'[c] = k + 1
  BY <1>1, LoopTurn DEF InLoop, Location
<1>3. q[k] \in InQueryEntry /\ q[k].chunkHash \in Fp
  <2>1. q[k] \in InQueryEntry
    BY <1>2, ElementOfSeq
  <2> QED
    BY <2>1 DEF InQueryEntry
<1>4. sketch' = Update(sketch, q[k].chunkHash) /\ sketch' \in Sketch
  BY <1>3, UpdateCounters DEF UpdateSketch, SharedType
<1>5. e \in InQueryEntry
  <2>1. Estimate(sketch', q[k].chunkHash) \in Nat
    BY <1>3, <1>4, EstimateIsMin
  <2> QED
    BY <1>3, <2>1 DEF InQueryEntry
<1>6. inQuery' = [inQuery EXCEPT ![c] = [q EXCEPT ![k] = e]]
  BY DEF UpdateSketch
<1>7. SharedType'
  BY <1>4 DEF UpdateSketch, SharedType, ReleaseAtEnd
<1>8. OutsideType'
  BY DEF UpdateSketch, OutsideType
<1>9. HistoryType'
  BY <1>3 DEF UpdateSketch, HistoryType
<1>10. minFreq' = minFreq /\ inContainer' = inContainer /\ inRecipe' = inRecipe
       /\ outQuery' = outQuery
  BY DEF UpdateSketch
<1> HIDE DEF q, k, e
<1>11. [q EXCEPT ![k] = e] \in Seq(InQueryEntry) /\ Len([q EXCEPT ![k] = e]) = Len(q)
  BY <1>2, <1>5, SetEntry
<1>12. inQuery \in [Client -> Seq(InQueryEntry)]
  BY DEF EnclaveType
<1>13. /\ inQuery' \in [Client -> Seq(InQueryEntry)]
       /\ inQuery'[c] = [q EXCEPT ![k] = e]
       /\ \A d \in Client \ {c} : inQuery'[d] = inQuery[d]
  BY <1>6, <1>11, <1>12
<1>14. EnclaveType'
  BY <1>2, <1>10, <1>13 DEF EnclaveType
<1>15. BatchShape(pc'[c], i'[c], inQuery'[c], outQuery'[c])
  BY <1>2, <1>11, <1>13 DEF BatchShape, InBatch, InLoop
<1> QED
  BY <1>2, <1>7, <1>8, <1>9, <1>10, <1>13, <1>14, <1>15, ShapeOfOne

LEMMA ClassifyLocalTyped ==
    ASSUME TypeOK, Shape, NEW c \in Client, ClassifyLocal(c)
    PROVE  TypeOK' /\ Shape'
<1> USE DEF TypeOK, outside, history
<1> DEFINE q == inQuery[c]
           k == i[c]
<1>1. Loop(c, "topK", "query")
  BY DEF ClassifyLocal
<1>2. /\ pc[c] = "topK" /\ k \in 1..Len(q) /\ Len(q) \in Nat
      /\ q \in Seq(InQueryEntry)
      /\ pc' \in [Client -> Location] /\ i' \in [Client -> Nat \ {0}]
      /\ \A d \in Client \ {c} : pc'[d] = pc[d] /\ i'[d] = i[d]
  BY <1>1, LoopTurn DEF InLoop, Location
<1>3. PICK j \in LocalIndex(c) :
        inQuery' = [inQuery EXCEPT
             ![c][i[c]].dedupFlag = IF inQuery[c][j].dedupFlag = "UNIQUE"
                                    THEN "TMP_UNIQUE" ELSE "TMP_DUPLICATE",
             ![c][i[c]].ref = j,
             ![c][j].chunkFreq = inQuery[c][i[c]].chunkFreq]
  BY DEF ClassifyLocal
<1>4. /\ j \in 1..(k - 1) /\ j \in Nat /\ j \in 1..Len(q) /\ j # k
      /\ q[j].chunkHash = q[k].chunkHash
      /\ q[j].dedupFlag \in {"UNIQUE", "DUPLICATE"}
  BY <1>2 DEF LocalIndex
<1>5. q[k] \in InQueryEntry /\ q[j] \in InQueryEntry
  BY <1>2, <1>4, ElementOfSeq
<1> DEFINE flag == IF q[j].dedupFlag = "UNIQUE" THEN "TMP_UNIQUE" ELSE "TMP_DUPLICATE"
           e == [[q[k] EXCEPT !.dedupFlag = flag] EXCEPT !.ref = j]
           f == [q[j] EXCEPT !.chunkFreq = q[k].chunkFreq]
           r == [[q EXCEPT ![k] = e] EXCEPT ![j] = f]
<1>6. inQuery \in [Client -> Seq(InQueryEntry)] /\ DOMAIN q = 1..Len(q)
  BY <1>2 DEF EnclaveType
<1>7. inQuery' = [inQuery EXCEPT ![c] = r]
  BY <1>2, <1>3, <1>4, <1>6
<1>8. SharedType'
  BY DEF ClassifyLocal, SharedType, ReleaseAtEnd
<1>9. OutsideType' /\ HistoryType'
  BY DEF ClassifyLocal, OutsideType, HistoryType
<1>10. minFreq' = minFreq /\ inContainer' = inContainer /\ inRecipe' = inRecipe
       /\ outQuery' = outQuery
  BY DEF ClassifyLocal
<1>11. Classified(q, k - 1)
  BY <1>2 DEF Shape, BatchShape
<1> HIDE DEF q, k
<1>12. /\ e \in InQueryEntry /\ f \in InQueryEntry
       /\ e.chunkHash = q[k].chunkHash /\ e.ref = j
       /\ e.dedupFlag \in {"TMP_UNIQUE", "TMP_DUPLICATE"}
       /\ SameEntry(f, q[j])
  BY <1>4, <1>5 DEF InQueryEntry, DedupFlag, SameEntry
<1> HIDE DEF e, f, flag
<1>13. /\ r \in Seq(InQueryEntry) /\ Len(r) = Len(q)
       /\ r[k] = e /\ r[j] = f
       /\ \A n \in 1..Len(q) : n # k /\ n # j => r[n] = q[n]
  BY <1>2, <1>4, <1>12, SetEntry
<1> HIDE DEF r
<1>14. /\ inQuery' \in [Client -> Seq(InQueryEntry)]
       /\ inQuery'[c] = r
       /\ \A d \in Client \ {c} : inQuery'[d] = inQuery[d]
  BY <1>6, <1>7, <1>13
<1>15. EnclaveType'
  BY <1>2, <1>10, <1>14 DEF EnclaveType
<1>16. Classified(r, k)
  <2>1. \A n \in 1..(k - 1) : SameEntry(r[n], q[n])
    BY <1>2, <1>12, <1>13 DEF SameEntry
  <2>2. k \in Nat \ {0}
    BY <1>2
  <2> QED
    BY <1>4, <1>11, <1>12, <1>13, <2>1, <2>2, ClassifyNext
<1>17. BatchShape(pc'[c], i'[c], inQuery'[c], outQuery'[c])
  BY <1>1, <1>13, <1>14, <1>16, ClassifyShape DEF q, k
<1> QED
  BY <1>2, <1>8, <1>9, <1>10, <1>14, <1>15, <1>17, ShapeOfOne

LEMMA ClassifyDuplicateTyped ==
    ASSUME TypeOK, Shape, NEW c \in Client, ClassifyDuplicate(c)
    PROVE  TypeOK' /\ Shape'
<1> USE DEF TypeOK, outside, history
<1> DEFINE q == inQuery[c]
           k == i[c]
           e == [[q[k] EXCEPT !.dedupFlag = "DUPLICATE"]
                        EXCEPT !.chunkAddr = topK[q[k].chunkHash].address]
<1>1. Loop(c, "topK", "query")
  BY DEF ClassifyDuplicate
<1>2. /\ pc[c] = "topK" /\ k \in 1..Len(q) /\ Len(q) \in Nat
      /\ q \in Seq(InQueryEntry)
      /\ pc' \in [Client -> Location] /\ i' \in [Client -> Nat \ {0}]
      /\ \A d \in Client \ {c} : pc'[d] = pc[d] /\ i'[d] = i[d]
  BY <1>1, LoopTurn DEF InLoop, Location
<1>3. q[k] \in InQueryEntry
  BY <1>2, ElementOfSeq
<1>4. e \in InQueryEntry /\ e.dedupFlag = "DUPLICATE" /\ e.chunkAddr \in Addr
  <2>1. q[k].chunkHash \in DOMAIN topK
    BY DEF ClassifyDuplicate, InTopK
  <2>2. topK[q[k].chunkHash].address \in Addr
    BY <2>1 DEF SharedType, PartialFunction, HeapItem
  <2> QED
    BY <1>3, <2>2 DEF InQueryEntry, DedupFlag
<1>5. inQuery' = [inQuery EXCEPT ![c] = [q EXCEPT ![k] = e]]
  BY DEF ClassifyDuplicate
<1>6. SharedType'
  BY DEF ClassifyDuplicate, SharedType, ReleaseAtEnd
<1>7. OutsideType' /\ HistoryType'
  BY DEF ClassifyDuplicate, OutsideType, HistoryType
<1>8. minFreq' = minFreq /\ inContainer' = inContainer /\ inRecipe' = inRecipe
      /\ outQuery' = outQuery
  BY DEF ClassifyDuplicate
<1>9. Classified(q, k - 1) /\ inQuery \in [Client -> Seq(InQueryEntry)]
  BY <1>2 DEF Shape, BatchShape, EnclaveType
<1> DEFINE r == [q EXCEPT ![k] = e]
<1> HIDE DEF q, k, e
<1>10. /\ r \in Seq(InQueryEntry) /\ Len(r) = Len(q) /\ r[k] = e
       /\ \A n \in 1..Len(q) : n # k => r[n] = q[n]
  BY <1>2, <1>4, SetEntry
<1> HIDE DEF r
<1>11. /\ inQuery' \in [Client -> Seq(InQueryEntry)]
       /\ inQuery'[c] = r
       /\ \A d \in Client \ {c} : inQuery'[d] = inQuery[d]
  BY <1>5, <1>9, <1>10 DEF r
<1>12. EnclaveType'
  BY <1>2, <1>8, <1>11 DEF EnclaveType
<1>13. Classified(r, k)
  <2>1. \A n \in 1..(k - 1) : SameEntry(r[n], q[n])
    BY <1>2, <1>10 DEF SameEntry
  <2>2. k \in Nat \ {0}
    BY <1>2
  <2> QED
    BY <1>4, <1>9, <1>10, <2>1, <2>2, ClassifyNext
<1>14. BatchShape(pc'[c], i'[c], inQuery'[c], outQuery'[c])
  BY <1>1, <1>10, <1>11, <1>13, ClassifyShape DEF q, k
<1> QED
  BY <1>2, <1>6, <1>7, <1>8, <1>11, <1>12, <1>14, ShapeOfOne

LEMMA ClassifyUniqueTyped ==
    ASSUME TypeOK, Shape, NEW c \in Client, ClassifyUnique(c)
    PROVE  TypeOK' /\ Shape'
<1> USE DEF TypeOK, outside, history
<1> DEFINE q == inQuery[c]
           k == i[c]
           e == [q[k] EXCEPT !.dedupFlag = "UNIQUE"]
<1>1. Loop(c, "topK", "query")
  BY DEF ClassifyUnique
<1>2. /\ pc[c] = "topK" /\ k \in 1..Len(q) /\ Len(q) \in Nat
      /\ q \in Seq(InQueryEntry)
      /\ pc' \in [Client -> Location] /\ i' \in [Client -> Nat \ {0}]
      /\ \A d \in Client \ {c} : pc'[d] = pc[d] /\ i'[d] = i[d]
  BY <1>1, LoopTurn DEF InLoop, Location
<1>3. q[k] \in InQueryEntry
  BY <1>2, ElementOfSeq
<1>4. e \in InQueryEntry /\ e.dedupFlag = "UNIQUE"
  BY <1>3 DEF InQueryEntry, DedupFlag
<1>5. inQuery' = [inQuery EXCEPT ![c] = [q EXCEPT ![k] = e]]
  BY DEF ClassifyUnique
<1>6. SharedType'
  BY DEF ClassifyUnique, SharedType, ReleaseAtEnd
<1>7. OutsideType' /\ HistoryType'
  BY DEF ClassifyUnique, OutsideType, HistoryType
<1>8. minFreq' = minFreq /\ inContainer' = inContainer /\ inRecipe' = inRecipe
      /\ outQuery' = outQuery
  BY DEF ClassifyUnique
<1>9. Classified(q, k - 1) /\ inQuery \in [Client -> Seq(InQueryEntry)]
  BY <1>2 DEF Shape, BatchShape, EnclaveType
<1> DEFINE r == [q EXCEPT ![k] = e]
<1> HIDE DEF q, k, e
<1>10. /\ r \in Seq(InQueryEntry) /\ Len(r) = Len(q) /\ r[k] = e
       /\ \A n \in 1..Len(q) : n # k => r[n] = q[n]
  BY <1>2, <1>4, SetEntry
<1> HIDE DEF r
<1>11. /\ inQuery' \in [Client -> Seq(InQueryEntry)]
       /\ inQuery'[c] = r
       /\ \A d \in Client \ {c} : inQuery'[d] = inQuery[d]
  BY <1>5, <1>9, <1>10 DEF r
<1>12. EnclaveType'
  BY <1>2, <1>8, <1>11 DEF EnclaveType
<1>13. Classified(r, k)
  <2>1. \A n \in 1..(k - 1) : SameEntry(r[n], q[n])
    BY <1>2, <1>10 DEF SameEntry
  <2>2. k \in Nat \ {0}
    BY <1>2
  <2> QED
    BY <1>4, <1>9, <1>10, <2>1, <2>2, ClassifyNext
<1>14. BatchShape(pc'[c], i'[c], inQuery'[c], outQuery'[c])
  BY <1>1, <1>10, <1>11, <1>13, ClassifyShape DEF q, k
<1> QED
  BY <1>2, <1>6, <1>7, <1>8, <1>11, <1>12, <1>14, ShapeOfOne
-----------------------------------------------------------------------------
(* The phase that stores chunks and writes the recipe.                      *)

(* Changing the answers of one client. *)
LEMMA RangeOfExcept ==
    ASSUME NEW D, NEW f, f \in [D -> Range(f)], NEW c, NEW v
    PROVE  [f EXCEPT ![c] = v] \in [D -> Range([f EXCEPT ![c] = v])]
BY DEF Range

LEMMA QueryOutIndexTyped ==
    ASSUME TypeOK, Shape, NEW c \in Client, QueryOutIndex(c)
    PROVE  TypeOK' /\ Shape'
<1> USE DEF TypeOK, shared, enclave, history
<1> DEFINE q == inQuery[c]
           oq == [fp \in OutQueryHashes(c) |->
                     IF fp \in DOMAIN outIndex
                     THEN [dedupFlag |-> "DUPLICATE", chunkAddr |-> outIndex[fp]]
                     ELSE [dedupFlag |-> "UNIQUE",    chunkAddr |-> NoAddr]]
<1>1. /\ pc[c] = "query" /\ pc' = [pc EXCEPT ![c] = "proc"]
      /\ i' = i /\ inQuery' = inQuery
      /\ outQuery' = [outQuery EXCEPT ![c] = oq]
  BY DEF QueryOutIndex, Goto
<1>2. SharedType' /\ HistoryType'
  BY DEF QueryOutIndex, SharedType, HistoryType
<1>3. EnclaveType'
  BY <1>1 DEF QueryOutIndex, EnclaveType, Location
<1>4. q \in Seq(InQueryEntry) /\ DOMAIN q = 1..Len(q)
  BY DEF EnclaveType
<1>5. \A n \in 1..Len(q) : q[n] \in InQueryEntry
  BY <1>4, ElementOfSeq
<1>6. OutQueryHashes(c) = {q[n].chunkHash : n \in {m \in 1..Len(q) : q[m].dedupFlag = "UNIQUE"}}
  BY <1>4 DEF OutQueryHashes
<1>7. OutQueryHashes(c) \subseteq Fp
  BY <1>5, <1>6 DEF InQueryEntry
<1>8. PartialFunction(outIndex, Fp, Addr)
  BY DEF SharedType
<1>9. PartialFunction(oq, Fp, OutQueryEntry)
  BY <1>7, <1>8 DEF PartialFunction, OutQueryEntry
<1>10. \A fp \in DOMAIN oq : oq[fp].chunkAddr \notin Addr => oq[fp].dedupFlag = "UNIQUE"
  BY <1>8 DEF PartialFunction
<1>11. DOMAIN oq = OutQueryHashes(c)
  OBVIOUS
<1>12. UNCHANGED <<curContainer, inputMQ, done, writer, uuid>>
  BY DEF QueryOutIndex
<1> HIDE DEF oq, q
<1>13. /\ outQuery'[c] = oq
       /\ outQuery' \in [Client -> Range(outQuery')]
       /\ \A d \in Client \ {c} : outQuery'[d] = outQuery[d]
  BY <1>1, RangeOfExcept DEF OutsideType
<1>14. OutsideType'
  BY <1>9, <1>12, <1>13 DEF OutsideType
<1>15. i'[c] = 1 /\ pc'[c] = "proc" /\ inQuery'[c] = q
  BY <1>1 DEF Shape, BatchShape, InLoop, EnclaveType, q
<1>16. Placed(q, i'[c] - 1)
  BY <1>15 DEF Placed
<1>17. Queried(q, oq, i'[c] - 1)
  BY <1>6, <1>10, <1>11, <1>15 DEF Queried
<1>18. 1 \in 1..Len(q) /\ Classified(q, Len(q))
  BY <1>1, <1>15 DEF Shape, BatchShape, InBatch, q
<1>19. BatchShape(pc'[c], i'[c], inQuery'[c], outQuery'[c])
  BY <1>13, <1>15, <1>16, <1>17, <1>18 DEF BatchShape, InBatch, InLoop
<1> QED
  BY <1>1, <1>2, <1>3, <1>13, <1>14, <1>19, ShapeOfOne DEF EnclaveType

(* UpdateFileRecipe moves addresses only. *)
LEMMA RecipeTyped ==
    ASSUME TypeOK, NEW c \in Client, NEW addr \in Addr, UpdateFileRecipe(c, addr)
    PROVE  recipes' \in [Client -> RecipeFile] /\ inRecipe' \in [Client -> Seq(Addr)]
<1> DEFINE buffer == Append(inRecipe[c], addr)
           list   == recipes[c].entryList \o buffer
<1>1. /\ recipes \in [Client -> RecipeFile] /\ inRecipe \in [Client -> Seq(Addr)]
  BY DEF TypeOK, SharedType, EnclaveType
<1>2. buffer \in Seq(Addr)
  BY <1>1, AppendProperties
<1>3. list \in Seq(Addr)
  BY <1>1, <1>2, ConcatProperties DEF RecipeFile
<1>4. \/ /\ recipes' = [recipes EXCEPT ![c] = [recipes[c] EXCEPT !.entryList = list]]
         /\ inRecipe' = [inRecipe EXCEPT ![c] = <<>>]
      \/ recipes' = recipes /\ inRecipe' = [inRecipe EXCEPT ![c] = buffer]
  BY DEF UpdateFileRecipe
<1> DEFINE rec == [recipes[c] EXCEPT !.entryList = list]
<1> HIDE DEF buffer, list
<1>5. rec \in RecipeFile
  BY <1>1, <1>3 DEF RecipeFile
<1> HIDE DEF rec
<1>6. recipes' \in [Client -> RecipeFile]
  BY <1>1, <1>4, <1>5 DEF rec
<1>7. inRecipe' \in [Client -> Seq(Addr)]
  BY <1>1, <1>2, <1>4, EmptySeq
<1> QED
  BY <1>6, <1>7

(* What Ocall_WriteContainer leaves behind. *)
LEMMA WriteTyped ==
    ASSUME TypeOK, NEW c \in Client, NEW k \in Container, WriteContainer(c, k)
    PROVE  /\ PartialFunction(containers', ContainerID, SUBSET Slot)
           /\ inputMQ' \in [Client -> Seq(Container)]
           /\ uuid' \in [Client -> Nat]
           /\ curContainer' \in [Client -> Container]
<1>1. /\ containers \in [DOMAIN containers -> SUBSET Slot]
      /\ DOMAIN containers \subseteq ContainerID
      /\ inputMQ \in [Client -> Seq(Container)] /\ uuid \in [Client -> Nat]
      /\ curContainer \in [Client -> Container]
  BY DEF TypeOK, SharedType, OutsideType, PartialFunction
<1>2. k.containerID \in ContainerID /\ k.body \in SUBSET Slot
  BY DEF Container
<1>3. PartialFunction(Put(containers, k.containerID, k.body), ContainerID, SUBSET Slot)
  <2> DEFINE put == Put(containers, k.containerID, k.body)
  <2>1. put \in [DOMAIN containers \cup {k.containerID} -> SUBSET Slot]
    BY <1>1, <1>2, PutEntry
  <2> HIDE DEF put
  <2>2. DOMAIN put = DOMAIN containers \cup {k.containerID}
    BY <2>1
  <2> QED
    BY <1>1, <1>2, <2>1, <2>2 DEF PartialFunction, put
<1>4. PartialFunction(containers', ContainerID, SUBSET Slot)
  <2>1. containers' = Put(containers, k.containerID, k.body) \/ containers' = containers
    BY DEF WriteContainer
  <2> QED
    BY <1>1, <1>3, <2>1 DEF PartialFunction
<1>5. Append(inputMQ[c], k) \in Seq(Container)
  BY <1>1, AppendProperties
<1>6. inputMQ' \in [Client -> Seq(Container)]
  BY <1>1, <1>5 DEF WriteContainer
<1>7. CreateUUID(c) \in ContainerID
  BY <1>1 DEF CreateUUID, ContainerID
<1>8. curContainer' \in [Client -> Container]
  BY <1>1, <1>7 DEF WriteContainer, Container
<1>9. uuid' \in [Client -> Nat]
  BY <1>1 DEF WriteContainer
<1> QED
  BY <1>4, <1>6, <1>8, <1>9

(* SaveChunk leaves well-formed containers, and the address it returns is   *)
(* set.                                                                     *)
LEMMA SaveTyped ==
    ASSUME TypeOK, NEW c \in Client, NEW fp \in Fp, SaveChunk(c, fp)
    PROVE  /\ PartialFunction(containers', ContainerID, SUBSET Slot)
           /\ inputMQ' \in [Client -> Seq(Container)]
           /\ uuid' \in [Client -> Nat]
           /\ curContainer' \in [Client -> Container]
           /\ inContainer' \in [Client -> [buf : SUBSET Slot, curSize : Nat]]
           /\ SaveAddr(c, fp) \in Addr
<1> DEFINE InBuf == [buf : SUBSET Slot, curSize : Nat]
           grown == [buf     |-> inContainer[c].buf \cup {<<inContainer[c].curSize, fp>>},
                     curSize |-> inContainer[c].curSize + ChunkLen[fp] + BlockSize]
           fresh == [buf |-> {<<0, fp>>}, curSize |-> ChunkLen[fp] + BlockSize]
<1>1. /\ inContainer \in [Client -> InBuf]
      /\ PartialFunction(containers, ContainerID, SUBSET Slot)
      /\ inputMQ \in [Client -> Seq(Container)] /\ uuid \in [Client -> Nat]
      /\ curContainer \in [Client -> Container]
  BY DEF TypeOK, SharedType, EnclaveType, OutsideType
<1>2. ChunkLen[fp] \in Nat /\ BlockSize \in Nat
  BY UploadAssumption
<1>3. inContainer[c] \in InBuf /\ inContainer[c].buf \in SUBSET Slot
      /\ inContainer[c].curSize \in Nat
  BY <1>1
<1>4. grown \in InBuf /\ fresh \in InBuf
  BY <1>2, <1>3 DEF Slot
<1>5. curContainer[c] \in Container /\ FilledContainer(c) \in Container
  BY <1>1, <1>3 DEF FilledContainer, Container
<1>6. SaveAddr(c, fp) \in Addr
  <2>1. curContainer[c].containerID \in ContainerID
    BY <1>5 DEF Container
  <2>2. CreateUUID(c) \in ContainerID
    BY <1>1 DEF CreateUUID, ContainerID
  <2> QED
    BY <1>3, <2>1, <2>2 DEF SaveAddr, Addr
<1>7. \/ /\ inContainer' = [inContainer EXCEPT ![c] = grown]
         /\ UNCHANGED <<containers, inputMQ, uuid, curContainer>>
      \/ /\ inContainer' = [inContainer EXCEPT ![c] = fresh]
         /\ WriteContainer(c, FilledContainer(c))
  BY DEF SaveChunk
<1> HIDE DEF InBuf, grown, fresh
<1>8. inContainer' \in [Client -> InBuf]
  BY <1>1, <1>4, <1>7
<1> QED
  BY <1>1, <1>5, <1>6, <1>7, <1>8, WriteTyped DEF InBuf

(* Processing the next entry. *)
LEMMA ProcessNext ==
    ASSUME NEW q, NEW r, NEW oq, NEW or, NEW k \in 1..Len(q),
           Len(q) \in Nat, Len(r) = Len(q),
           Classified(q, Len(q)), Placed(q, k - 1), Queried(q, oq, k - 1),
           \A n \in 1..Len(q) : n # k => r[n] = q[n],
           r[k].chunkHash = q[k].chunkHash, r[k].dedupFlag = q[k].dedupFlag,
           r[k].ref = q[k].ref,
           r[k].dedupFlag \in {"UNIQUE", "DUPLICATE"} => r[k].chunkAddr \in Addr,
           DOMAIN or = DOMAIN oq,
           \A fp \in DOMAIN oq : or[fp].dedupFlag = oq[fp].dedupFlag,
           \A fp \in DOMAIN oq : or[fp].chunkAddr = oq[fp].chunkAddr \/ or[fp].chunkAddr \in Addr,
           q[k].dedupFlag = "UNIQUE" => or[q[k].chunkHash].chunkAddr \in Addr
    PROVE  Classified(r, Len(r)) /\ Placed(r, k) /\ Queried(r, or, k)
<1>1. \A n \in 1..Len(q) : /\ r[n].chunkHash = q[n].chunkHash
                           /\ r[n].dedupFlag = q[n].dedupFlag
                           /\ r[n].ref = q[n].ref
  OBVIOUS
<1>2. Classified(r, Len(r))
  <2> SUFFICES ASSUME NEW j \in 1..Len(q)
               PROVE  /\ r[j].dedupFlag # "NONE"
                      /\ r[j].dedupFlag = "DUPLICATE" => r[j].chunkAddr \in Addr
                      /\ r[j].dedupFlag \in {"TMP_UNIQUE", "TMP_DUPLICATE"} =>
                            /\ r[j].ref \in 1..(j - 1)
                            /\ r[r[j].ref].dedupFlag \in {"UNIQUE", "DUPLICATE"}
                            /\ r[r[j].ref].chunkHash = r[j].chunkHash
    BY DEF Classified
  <2>1. /\ q[j].dedupFlag # "NONE"
        /\ q[j].dedupFlag = "DUPLICATE" => q[j].chunkAddr \in Addr
        /\ q[j].dedupFlag \in {"TMP_UNIQUE", "TMP_DUPLICATE"} =>
              /\ q[j].ref \in 1..(j - 1)
              /\ q[q[j].ref].dedupFlag \in {"UNIQUE", "DUPLICATE"}
              /\ q[q[j].ref].chunkHash = q[j].chunkHash
    BY DEF Classified
  <2>2. ASSUME q[j].ref \in 1..(j - 1) PROVE q[j].ref \in 1..Len(q)
    BY <2>2
  <2> QED
    BY <1>1, <2>1, <2>2
<1>3. Placed(r, k)
  <2> SUFFICES ASSUME NEW j \in 1..k, r[j].dedupFlag \in {"UNIQUE", "DUPLICATE"}
               PROVE  r[j].chunkAddr \in Addr
    BY DEF Placed
  <2>1. CASE j = k
    BY <2>1
  <2>2. CASE j # k
    <3>1. j \in 1..(k - 1) /\ j \in 1..Len(q)
      BY <2>2
    <3> QED
      BY <2>2, <3>1 DEF Placed
  <2> QED
    BY <2>1, <2>2
<1>4. Queried(r, or, k)
  <2>1. \A j \in 1..Len(r) : r[j].dedupFlag = "UNIQUE" => r[j].chunkHash \in DOMAIN or
    BY <1>1 DEF Queried
  <2>2. ASSUME NEW fp \in DOMAIN or, or[fp].chunkAddr \notin Addr
        PROVE  /\ or[fp].dedupFlag = "UNIQUE"
               /\ \E j \in (k + 1)..Len(r) : r[j].dedupFlag = "UNIQUE" /\ r[j].chunkHash = fp
    <3>1. oq[fp].chunkAddr \notin Addr
      BY <2>2
    <3>2. PICK j \in ((k - 1) + 1)..Len(q) : q[j].dedupFlag = "UNIQUE" /\ q[j].chunkHash = fp
      BY <2>2, <3>1 DEF Queried
    <3>3. j # k
      BY <2>2, <3>2
    <3>4. j \in (k + 1)..Len(r) /\ j \in 1..Len(q)
      BY <3>2, <3>3
    <3>5. oq[fp].dedupFlag = "UNIQUE"
      BY <2>2, <3>1 DEF Queried
    <3> QED
      BY <1>1, <2>2, <3>2, <3>4, <3>5
  <2> QED
    BY <2>1, <2>2 DEF Queried
<1> QED
  BY <1>2, <1>3, <1>4

(* After processing entry i the shape of the batch is as required. *)
LEMMA ProcessShape ==
    ASSUME TypeOK, Shape, NEW c \in Client, Loop(c, "proc", "lockHeap"),
           Len(inQuery'[c]) = Len(inQuery[c]),
           Classified(inQuery'[c], Len(inQuery'[c])),
           Placed(inQuery'[c], i[c]),
           Queried(inQuery'[c], outQuery'[c], i[c])
    PROVE  BatchShape(pc'[c], i'[c], inQuery'[c], outQuery'[c])
<1>1. /\ i[c] \in 1..Len(inQuery[c]) /\ Len(inQuery[c]) \in Nat
      /\ \/ i[c] = Len(inQuery[c]) /\ pc'[c] = "lockHeap" /\ i'[c] = 1
         \/ i[c] < Len(inQuery[c]) /\ pc'[c] = "proc" /\ i'[c] = i[c] + 1
  BY LoopTurn DEF InLoop, Location
<1>2. CASE i[c] = Len(inQuery[c]) /\ pc'[c] = "lockHeap" /\ i'[c] = 1
  BY <1>1, <1>2 DEF BatchShape, InBatch, InLoop
<1>3. CASE i[c] < Len(inQuery[c]) /\ pc'[c] = "proc" /\ i'[c] = i[c] + 1
  <2>1. i'[c] - 1 = i[c] /\ i'[c] \in 1..Len(inQuery'[c])
    BY <1>1, <1>3
  <2> QED
    BY <1>3, <2>1 DEF BatchShape, InBatch, InLoop
<1> QED
  BY <1>1, <1>2, <1>3

(* A chunk that need not be stored has a known address. *)
LEMMA KnownAddrSet ==
    ASSUME TypeOK, Shape, NEW c \in Client, pc[c] = "proc", ~NeedsStore(c)
    PROVE  KnownAddr(c) \in Addr
<1> DEFINE q == inQuery[c]
           k == i[c]
           oq == outQuery[c]
<1>1. /\ k \in 1..Len(q) /\ q \in Seq(InQueryEntry) /\ Len(q) \in Nat
      /\ Classified(q, Len(q)) /\ Placed(q, k - 1) /\ Queried(q, oq, k - 1)
  BY DEF TypeOK, EnclaveType, Shape, BatchShape, InBatch
<1>2. q[k] \in InQueryEntry
  BY <1>1, ElementOfSeq
<1>3. /\ q[k].dedupFlag \in {"UNIQUE", "DUPLICATE", "TMP_UNIQUE", "TMP_DUPLICATE"}
      /\ q[k].dedupFlag = "DUPLICATE" => q[k].chunkAddr \in Addr
      /\ q[k].dedupFlag \in {"TMP_UNIQUE", "TMP_DUPLICATE"} =>
            /\ q[k].ref \in 1..(k - 1)
            /\ q[q[k].ref].dedupFlag \in {"UNIQUE", "DUPLICATE"}
  BY <1>1, <1>2 DEF Classified, InQueryEntry, DedupFlag
<1>4. CASE q[k].dedupFlag = "DUPLICATE"
  BY <1>3, <1>4 DEF KnownAddr
<1>5. CASE q[k].dedupFlag = "UNIQUE"
  <2>1. KnownAddr(c) = oq[q[k].chunkHash].chunkAddr
    BY <1>5 DEF KnownAddr
  <2>2. oq[q[k].chunkHash].dedupFlag # "UNIQUE" /\ q[k].chunkHash \in DOMAIN oq
    BY <1>1, <1>5 DEF NeedsStore, Queried
  <2> QED
    BY <1>1, <2>1, <2>2 DEF Queried
<1>6. CASE q[k].dedupFlag \in {"TMP_UNIQUE", "TMP_DUPLICATE"}
  <2>1. KnownAddr(c) = q[q[k].ref].chunkAddr
    BY <1>6 DEF KnownAddr
  <2> QED
    BY <1>1, <1>3, <1>6, <2>1 DEF Placed
<1> QED
  BY <1>3, <1>4, <1>5, <1>6

LEMMA ProcessDuplicateTyped ==
    ASSUME TypeOK, Shape, NEW c \in Client, ProcessDuplicate(c)
    PROVE  TypeOK' /\ Shape'
<1> USE DEF TypeOK, outside, history
<1> DEFINE q == inQuery[c]
           k == i[c]
           e == IF q[k].dedupFlag = "UNIQUE" THEN [q[k] EXCEPT !.chunkAddr = KnownAddr(c)]
                                             ELSE q[k]
           r == [q EXCEPT ![k] = e]
<1>1. Loop(c, "proc", "lockHeap") /\ ~NeedsStore(c) /\ UpdateFileRecipe(c, KnownAddr(c))
  BY DEF ProcessDuplicate
<1>2. /\ pc[c] = "proc" /\ k \in 1..Len(q) /\ Len(q) \in Nat
      /\ q \in Seq(InQueryEntry)
      /\ pc' \in [Client -> Location] /\ i' \in [Client -> Nat \ {0}]
      /\ \A d \in Client \ {c} : pc'[d] = pc[d] /\ i'[d] = i[d]
  BY <1>1, LoopTurn DEF InLoop, Location
<1>3. KnownAddr(c) \in Addr
  BY <1>1, <1>2, KnownAddrSet
<1>4. q[k] \in InQueryEntry /\ inQuery \in [Client -> Seq(InQueryEntry)]
  BY <1>2, ElementOfSeq DEF EnclaveType
<1>5. recipes' \in [Client -> RecipeFile] /\ inRecipe' \in [Client -> Seq(Addr)]
  BY <1>1, <1>3, RecipeTyped
<1>6. SharedType'
  BY <1>5 DEF ProcessDuplicate, SharedType
<1>7. OutsideType' /\ HistoryType'
  BY DEF ProcessDuplicate, OutsideType, HistoryType
<1>8. minFreq' = minFreq /\ inContainer' = inContainer /\ outQuery' = outQuery
  BY DEF ProcessDuplicate
<1>9. inQuery' = IF q[k].dedupFlag = "UNIQUE"
                 THEN [inQuery EXCEPT ![c] = [q EXCEPT ![k] = [q[k] EXCEPT !.chunkAddr = KnownAddr(c)]]]
                 ELSE inQuery
  BY DEF ProcessDuplicate
<1>10. /\ Classified(q, Len(q)) /\ Placed(q, k - 1) /\ Queried(q, outQuery[c], k - 1)
  BY <1>2 DEF Shape, BatchShape
<1>11. /\ e \in InQueryEntry /\ e.chunkHash = q[k].chunkHash
       /\ e.dedupFlag = q[k].dedupFlag /\ e.ref = q[k].ref
       /\ q[k].dedupFlag = "UNIQUE" => e.chunkAddr = KnownAddr(c)
       /\ q[k].dedupFlag # "UNIQUE" => e = q[k]
  BY <1>3, <1>4 DEF InQueryEntry
<1>12. q[k].dedupFlag = "UNIQUE" => outQuery[c][q[k].chunkHash].chunkAddr = KnownAddr(c)
  BY DEF KnownAddr
<1>13. q[k].dedupFlag = "DUPLICATE" => q[k].chunkAddr \in Addr
  BY <1>2, <1>10 DEF Classified
<1>14. q[k].dedupFlag # "UNIQUE" => [inQuery EXCEPT ![c] = [q EXCEPT ![k] = q[k]]] = inQuery
  BY <1>2, <1>4
<1>15. inQuery' = [inQuery EXCEPT ![c] = r]
  BY <1>9, <1>14
<1> HIDE DEF q, k, e
<1>16. /\ r \in Seq(InQueryEntry) /\ Len(r) = Len(q) /\ r[k] = e
       /\ \A n \in 1..Len(q) : n # k => r[n] = q[n]
  BY <1>2, <1>11, SetEntry
<1> HIDE DEF r
<1>17. /\ inQuery' \in [Client -> Seq(InQueryEntry)]
       /\ inQuery'[c] = r
       /\ \A d \in Client \ {c} : inQuery'[d] = inQuery[d]
  BY <1>4, <1>15, <1>16
<1>18. EnclaveType'
  BY <1>2, <1>5, <1>8, <1>17 DEF EnclaveType
<1>19. Classified(r, Len(r)) /\ Placed(r, k) /\ Queried(r, outQuery[c], k)
  BY <1>2, <1>3, <1>10, <1>11, <1>12, <1>13, <1>16, ProcessNext
<1>20. BatchShape(pc'[c], i'[c], inQuery'[c], outQuery'[c])
  BY <1>1, <1>8, <1>16, <1>17, <1>19, ProcessShape DEF q, k
<1> QED
  BY <1>2, <1>6, <1>7, <1>8, <1>17, <1>18, <1>20, ShapeOfOne

LEMMA ProcessUniqueTyped ==
    ASSUME TypeOK, Shape, NEW c \in Client, ProcessUnique(c)
    PROVE  TypeOK' /\ Shape'
<1> USE DEF TypeOK
<1> DEFINE q == inQuery[c]
           k == i[c]
           fp == q[k].chunkHash
           addr == SaveAddr(c, fp)
           e == [q[k] EXCEPT !.chunkAddr = addr]
           r == [q EXCEPT ![k] = e]
           oq == outQuery[c]
           or == [oq EXCEPT ![fp] = [oq[fp] EXCEPT !.chunkAddr = addr]]
<1>1. /\ Loop(c, "proc", "lockHeap") /\ NeedsStore(c) /\ SaveChunk(c, fp)
      /\ UpdateFileRecipe(c, addr)
      /\ inQuery' = [inQuery EXCEPT ![c] = r]
      /\ outQuery' = [outQuery EXCEPT ![c] = or]
      /\ UNCHANGED <<sketch, topK, sketchLck, topKIndexLck, outIndex,
                     minFreq, done, writer, history>>
  BY DEF ProcessUnique
<1>2. /\ pc[c] = "proc" /\ k \in 1..Len(q) /\ Len(q) \in Nat
      /\ q \in Seq(InQueryEntry)
      /\ pc' \in [Client -> Location] /\ i' \in [Client -> Nat \ {0}]
      /\ \A d \in Client \ {c} : pc'[d] = pc[d] /\ i'[d] = i[d]
  BY <1>1, LoopTurn DEF InLoop, Location
<1>3. q[k] \in InQueryEntry /\ inQuery \in [Client -> Seq(InQueryEntry)]
  BY <1>2, ElementOfSeq DEF EnclaveType
<1>4. fp \in Fp /\ q[k].dedupFlag = "UNIQUE"
  BY <1>1, <1>3 DEF InQueryEntry, NeedsStore
<1>5. /\ PartialFunction(containers', ContainerID, SUBSET Slot)
      /\ inputMQ' \in [Client -> Seq(Container)]
      /\ uuid' \in [Client -> Nat]
      /\ curContainer' \in [Client -> Container]
      /\ inContainer' \in [Client -> [buf : SUBSET Slot, curSize : Nat]]
      /\ addr \in Addr
  BY <1>1, <1>4, SaveTyped
<1>6. recipes' \in [Client -> RecipeFile] /\ inRecipe' \in [Client -> Seq(Addr)]
  BY <1>1, <1>5, RecipeTyped
<1>7. SharedType'
  BY <1>1, <1>5, <1>6 DEF SharedType
<1>8. HistoryType'
  BY <1>1 DEF HistoryType, history
<1>9. /\ Classified(q, Len(q)) /\ Placed(q, k - 1) /\ Queried(q, oq, k - 1)
  BY <1>2 DEF Shape, BatchShape
<1>10. fp \in DOMAIN oq /\ PartialFunction(oq, Fp, OutQueryEntry)
  BY <1>2, <1>4, <1>9 DEF Queried, OutsideType
<1>11. /\ e \in InQueryEntry /\ e.chunkHash = q[k].chunkHash
       /\ e.dedupFlag = q[k].dedupFlag /\ e.ref = q[k].ref /\ e.chunkAddr = addr
  BY <1>3, <1>5 DEF InQueryEntry
<1> HIDE DEF q, k, e, fp, addr, oq
<1>12. /\ PartialFunction(or, Fp, OutQueryEntry)
       /\ DOMAIN or = DOMAIN oq
       /\ or[fp].chunkAddr = addr /\ or[fp].dedupFlag = oq[fp].dedupFlag
       /\ \A g \in DOMAIN oq : g # fp => or[g] = oq[g]
  <2>1. oq[fp] \in OutQueryEntry /\ oq \in [DOMAIN oq -> OutQueryEntry]
    BY <1>10 DEF PartialFunction
  <2> DEFINE v == [oq[fp] EXCEPT !.chunkAddr = addr]
  <2>2. v \in OutQueryEntry /\ v.chunkAddr = addr /\ v.dedupFlag = oq[fp].dedupFlag
    BY <1>5, <2>1 DEF OutQueryEntry
  <2> HIDE DEF v
  <2>3. /\ or \in [DOMAIN oq -> OutQueryEntry] /\ DOMAIN or = DOMAIN oq /\ or[fp] = v
        /\ \A g \in DOMAIN oq : g # fp => or[g] = oq[g]
    BY <1>10, <2>1, <2>2 DEF v
  <2> QED
    BY <1>10, <2>2, <2>3 DEF PartialFunction
<1>13. /\ r \in Seq(InQueryEntry) /\ Len(r) = Len(q) /\ r[k] = e
       /\ \A n \in 1..Len(q) : n # k => r[n] = q[n]
  BY <1>2, <1>11, SetEntry
<1> HIDE DEF r, or
<1>14. /\ inQuery' \in [Client -> Seq(InQueryEntry)]
       /\ inQuery'[c] = r
       /\ \A d \in Client \ {c} : inQuery'[d] = inQuery[d]
  BY <1>1, <1>3, <1>13
<1>15. /\ outQuery'[c] = or
       /\ outQuery' \in [Client -> Range(outQuery')]
       /\ \A d \in Client \ {c} : outQuery'[d] = outQuery[d]
  BY <1>1, RangeOfExcept DEF OutsideType
<1>16. OutsideType'
  BY <1>1, <1>5, <1>12, <1>15 DEF OutsideType
<1>17. EnclaveType'
  BY <1>1, <1>2, <1>5, <1>6, <1>14 DEF EnclaveType
<1>18. Classified(r, Len(r)) /\ Placed(r, k) /\ Queried(r, or, k)
  <2>1. \A g \in DOMAIN oq : or[g].dedupFlag = oq[g].dedupFlag
    BY <1>12
  <2>2. \A g \in DOMAIN oq : or[g].chunkAddr = oq[g].chunkAddr \/ or[g].chunkAddr \in Addr
    BY <1>5, <1>12
  <2>3. or[q[k].chunkHash].chunkAddr \in Addr
    BY <1>5, <1>12 DEF fp
  <2>4. /\ r[k].chunkHash = q[k].chunkHash /\ r[k].dedupFlag = q[k].dedupFlag
        /\ r[k].ref = q[k].ref /\ r[k].chunkAddr \in Addr
    BY <1>5, <1>11, <1>13
  <2>5. DOMAIN or = DOMAIN oq /\ Len(r) = Len(q)
    BY <1>12, <1>13
  <2>6. \A n \in 1..Len(q) : n # k => r[n] = q[n]
    BY <1>13
  <2> QED
    BY <1>2, <1>9, <2>1, <2>2, <2>3, <2>4, <2>5, <2>6, ProcessNext
<1>19. BatchShape(pc'[c], i'[c], inQuery'[c], outQuery'[c])
  BY <1>1, <1>13, <1>14, <1>15, <1>18, ProcessShape DEF q, k
<1> QED
  BY <1>2, <1>7, <1>8, <1>14, <1>15, <1>16, <1>17, <1>19, ShapeOfOne
-----------------------------------------------------------------------------
(* The heap phase.                                                          *)

(* Every entry of the heap loop that is not a repetition has its address. *)
LEMMA HeapEntry ==
    ASSUME TypeOK, Shape, NEW c \in Client, pc[c] = "heap"
    PROVE  LET e == inQuery[c][i[c]] IN
           /\ i[c] \in DOMAIN inQuery[c]
           /\ e \in InQueryEntry /\ e.chunkHash \in Fp /\ e.chunkFreq \in Nat
           /\ e.dedupFlag \in {"UNIQUE", "DUPLICATE"} => e.chunkAddr \in Addr
<1> DEFINE q == inQuery[c]
           k == i[c]
<1>1. /\ k \in 1..Len(q) /\ q \in Seq(InQueryEntry) /\ Len(q) \in Nat
      /\ Placed(q, Len(q))
  BY DEF TypeOK, EnclaveType, Shape, BatchShape, InBatch
<1>2. q[k] \in InQueryEntry /\ DOMAIN q = 1..Len(q)
  BY <1>1, ElementOfSeq
<1> QED
  BY <1>1, <1>2 DEF Placed, InQueryEntry

(* A turn of the heap loop that keeps the top-k index well formed. *)
LEMMA HeapTurnTyped ==
    ASSUME TypeOK, Shape, NEW c \in Client, HeapTurn(c),
           PartialFunction(topK', Fp, HeapItem)
    PROVE  TypeOK' /\ Shape'
<1> USE DEF TypeOK, enclave, outside, history
<1>1. /\ Loop(c, "heap", "outUpdate")
      /\ inQuery' = inQuery /\ outQuery' = outQuery
  BY DEF HeapTurn
<1>2. /\ pc[c] = "heap" /\ i[c] \in 1..Len(inQuery[c]) /\ Len(inQuery[c]) \in Nat
      /\ pc' \in [Client -> Location] /\ i' \in [Client -> Nat \ {0}]
      /\ \A d \in Client \ {c} : pc'[d] = pc[d] /\ i'[d] = i[d]
      /\ \/ pc'[c] = "outUpdate" /\ i'[c] = 1
         \/ i[c] < Len(inQuery[c]) /\ pc'[c] = "heap" /\ i'[c] = i[c] + 1
  BY <1>1, LoopTurn DEF InLoop, Location
<1>3. SharedType'
  BY DEF HeapTurn, SharedType, ReleaseAtEnd
<1>4. EnclaveType'
  BY <1>2 DEF HeapTurn, EnclaveType
<1>5. OutsideType' /\ HistoryType'
  BY DEF HeapTurn, OutsideType, HistoryType
<1>6. i'[c] \in 1..Len(inQuery[c])
  BY <1>2
<1>7. BatchShape(pc'[c], i'[c], inQuery'[c], outQuery'[c])
  BY <1>1, <1>2, <1>6 DEF Shape, BatchShape, InBatch, InLoop
<1> QED
  BY <1>1, <1>2, <1>3, <1>4, <1>5, <1>7, ShapeOfOne

LEMMA HeapSkipTyped ==
    ASSUME TypeOK, Shape, NEW c \in Client, HeapSkip(c)
    PROVE  TypeOK' /\ Shape'
BY HeapTurnTyped DEF HeapSkip, TypeOK, SharedType, PartialFunction

LEMMA HeapUpdateFreqTyped ==
    ASSUME TypeOK, Shape, NEW c \in Client, HeapUpdateFreq(c)
    PROVE  TypeOK' /\ Shape'
<1> DEFINE e == inQuery[c][i[c]]
           fp == e.chunkHash
           v == [topK[fp] EXCEPT !.chunkFreq = e.chunkFreq]
<1>1. /\ HeapTurn(c) /\ fp \in DOMAIN topK
      /\ topK' = [topK EXCEPT ![fp] = v]
  BY DEF HeapUpdateFreq, UpdateInsideIndexFreq
<1>2. pc[c] = "heap"
  BY <1>1 DEF HeapTurn, Loop
<1>3. e.chunkFreq \in Nat
  BY <1>2, HeapEntry
<1>4. topK \in [DOMAIN topK -> HeapItem] /\ DOMAIN topK \subseteq Fp
  BY DEF TypeOK, SharedType, PartialFunction
<1>5. v \in HeapItem
  BY <1>1, <1>3, <1>4 DEF HeapItem
<1> HIDE DEF v, e, fp
<1>6. PartialFunction(topK', Fp, HeapItem)
  BY <1>1, <1>4, <1>5 DEF PartialFunction
<1> QED
  BY <1>1, <1>6, HeapTurnTyped

(* The top-k index after HeapAdd: the new entry, and the old ones that Pop   *)
(* left.                                                                    *)
LEMMA HeapAddIndex ==
    ASSUME TypeOK, Shape, NEW c \in Client, HeapAdd(c)
    PROVE  LET e == inQuery[c][i[c]] IN
           /\ PartialFunction(topK', Fp, HeapItem)
           /\ e.chunkHash \notin DOMAIN topK
           /\ topK'[e.chunkHash].chunkFreq = e.chunkFreq
           /\ topK'[e.chunkHash].address = e.chunkAddr
           /\ \E popped \in PopChoices :
                 /\ DOMAIN topK' = (DOMAIN topK \ popped) \cup {e.chunkHash}
                 /\ \A fp \in DOMAIN topK \ popped : topK'[fp] = topK[fp]
<1> DEFINE e == inQuery[c][i[c]]
           fp == e.chunkHash
           v == [address |-> e.chunkAddr, chunkFreq |-> e.chunkFreq]
<1>1. /\ HeapTurn(c) /\ Candidate(c) /\ fp \notin DOMAIN topK
      /\ \E popped \in PopChoices :
            topK' = Put(Restrict(topK, DOMAIN topK \ popped), fp, v)
  BY DEF HeapAdd, AddChunkToHeap
<1>2. pc[c] = "heap"
  BY <1>1 DEF HeapTurn, Loop
<1>3. e.chunkFreq \in Nat /\ e.chunkAddr \in Addr /\ fp \in Fp
  BY <1>1, <1>2, HeapEntry DEF Candidate
<1>4. topK \in [DOMAIN topK -> HeapItem] /\ DOMAIN topK \subseteq Fp
  BY DEF TypeOK, SharedType, PartialFunction
<1>5. v \in HeapItem /\ v.chunkFreq = e.chunkFreq /\ v.address = e.chunkAddr
  BY <1>3 DEF HeapItem
<1>6. PICK popped \in PopChoices :
         topK' = Put(Restrict(topK, DOMAIN topK \ popped), fp, v)
  BY <1>1
<1> DEFINE D == DOMAIN topK \ popped
           f == Restrict(topK, D)
<1>7. f \in [D -> HeapItem] /\ \A n \in D : f[n] = topK[n]
  BY <1>4 DEF Restrict
<1>8. fp \notin D /\ D \subseteq Fp
  BY <1>1, <1>4
<1> HIDE DEF e, fp, v, D, f
<1>9. topK' = Put(f, fp, v)
  BY <1>6 DEF f, D
<1>10. /\ topK' \in [D \cup {fp} -> HeapItem] /\ topK'[fp] = v
       /\ \A n \in D \ {fp} : topK'[n] = f[n]
  <2>1. f \in [D -> HeapItem] /\ v \in HeapItem
    BY <1>5, <1>7
  <2>2. /\ Put(f, fp, v) \in [D \cup {fp} -> HeapItem] /\ Put(f, fp, v)[fp] = v
        /\ \A n \in D \ {fp} : Put(f, fp, v)[n] = f[n]
    BY <2>1 DEF Put
  <2> QED
    BY <1>9, <2>2
<1>11. DOMAIN topK' = D \cup {fp}
  BY <1>10
<1>12. PartialFunction(topK', Fp, HeapItem)
  BY <1>3, <1>8, <1>10, <1>11 DEF PartialFunction
<1>13. \A n \in D : topK'[n] = topK[n]
  BY <1>7, <1>8, <1>10
<1> QED
  BY <1>1, <1>5, <1>6, <1>10, <1>11, <1>12, <1>13 DEF e, fp, D

LEMMA HeapAddTyped ==
    ASSUME TypeOK, Shape, NEW c \in Client, HeapAdd(c)
    PROVE  TypeOK' /\ Shape'
BY HeapAddIndex, HeapTurnTyped DEF HeapAdd

LEMMA UpdateOutIndexTyped ==
    ASSUME TypeOK, Shape, NEW c \in Client, UpdateOutIndex(c)
    PROVE  TypeOK' /\ Shape'
<1> USE DEF TypeOK, history
<1> DEFINE oq == outQuery[c]
           idx == [fp \in NewEntries(c) \cup DOMAIN outIndex |->
                      IF fp \in NewEntries(c) THEN oq[fp].chunkAddr ELSE outIndex[fp]]
<1>1. /\ pc[c] = "outUpdate" /\ pc' = [pc EXCEPT ![c] = "recv"]
      /\ i' = i
      /\ inQuery' = [inQuery EXCEPT ![c] = <<>>]
      /\ outQuery' = [outQuery EXCEPT ![c] = <<>>]
      /\ minFreq' = [minFreq EXCEPT ![c] = 0]
      /\ outIndex' = idx
  BY DEF UpdateOutIndex, Goto
<1>2. Queried(inQuery[c], oq, Len(inQuery[c])) /\ i[c] = 1
  BY <1>1 DEF Shape, BatchShape, InLoop
<1>3. Len(inQuery[c]) \in Nat
  BY DEF EnclaveType
<1>4. \A fp \in DOMAIN oq : oq[fp].chunkAddr \in Addr
  BY <1>2, <1>3 DEF Queried
<1>5. DOMAIN oq \subseteq Fp /\ NewEntries(c) \subseteq DOMAIN oq
  BY DEF OutsideType, PartialFunction, NewEntries
<1>6. PartialFunction(outIndex, Fp, Addr)
  BY DEF SharedType
<1>7. PartialFunction(idx, Fp, Addr)
  BY <1>4, <1>5, <1>6 DEF PartialFunction
<1> HIDE DEF idx
<1>8. SharedType'
  BY <1>1, <1>7 DEF UpdateOutIndex, SharedType
<1>9. HistoryType'
  BY DEF UpdateOutIndex, HistoryType
<1>10. EnclaveType'
  <2>1. inQuery' \in [Client -> Seq(InQueryEntry)]
    BY <1>1 DEF EnclaveType
  <2>2. UNCHANGED <<inContainer, inRecipe>>
    BY DEF UpdateOutIndex
  <2> QED
    BY <1>1, <2>1, <2>2 DEF EnclaveType, Location
<1>11. /\ outQuery'[c] = <<>>
       /\ outQuery' \in [Client -> Range(outQuery')]
       /\ \A d \in Client \ {c} : outQuery'[d] = outQuery[d]
  BY <1>1, RangeOfExcept DEF OutsideType
<1>12. PartialFunction(<<>>, Fp, OutQueryEntry)
  BY DEF PartialFunction
<1>13. UNCHANGED <<curContainer, inputMQ, done, writer, uuid>>
  BY DEF UpdateOutIndex
<1>14. OutsideType'
  BY <1>11, <1>12, <1>13 DEF OutsideType
<1>15. pc'[c] = "recv" /\ i'[c] = 1 /\ inQuery'[c] = <<>>
  BY <1>1, <1>2 DEF EnclaveType
<1>16. BatchShape(pc'[c], i'[c], inQuery'[c], outQuery'[c])
  BY <1>15 DEF BatchShape, InBatch, InLoop
<1> QED
  BY <1>1, <1>8, <1>9, <1>10, <1>11, <1>14, <1>16, ShapeOfOne DEF EnclaveType
-----------------------------------------------------------------------------
(* The end of a session, and the DataWriter.                                *)

LEMMA RecvRecipeEndTyped ==
    ASSUME TypeOK, Shape, NEW c \in Client, RecvRecipeEnd(c)
    PROVE  TypeOK' /\ Shape'
<1> USE DEF TypeOK, history
<1> DEFINE list == recipes[c].entryList \o inRecipe[c]
           tail == TailContainer(c)
<1>1. /\ pc[c] = "recv" /\ pc' = [pc EXCEPT ![c] = "ended"]
      /\ i' = i /\ inQuery' = inQuery /\ outQuery' = outQuery
      /\ recipes' = [recipes EXCEPT ![c] = [head |-> "final", entryList |-> list]]
      /\ inRecipe' = [inRecipe EXCEPT ![c] = <<>>]
      /\ curContainer' = [curContainer EXCEPT ![c] = tail]
      /\ UNCHANGED <<minFreq, inContainer, inputMQ, done, writer, uuid>>
  BY DEF RecvRecipeEnd, Goto
<1>2. list \in Seq(Addr)
  BY ConcatProperties DEF SharedType, EnclaveType, RecipeFile
<1>3. tail \in Container
  BY DEF TailContainer, FilledContainer, OutsideType, EnclaveType, Container
<1> HIDE DEF list, tail
<1>4. recipes' \in [Client -> RecipeFile]
  BY <1>1, <1>2 DEF SharedType, RecipeFile
<1>5. SharedType'
  BY <1>4 DEF RecvRecipeEnd, SharedType
<1>6. EnclaveType'
  BY <1>1 DEF EnclaveType, Location
<1>7. OutsideType'
  BY <1>1, <1>3 DEF OutsideType
<1>8. HistoryType'
  BY DEF RecvRecipeEnd, HistoryType
<1>9. BatchShape(pc'[c], i'[c], inQuery'[c], outQuery'[c])
  BY <1>1 DEF EnclaveType, Shape, BatchShape, InBatch, InLoop
<1> QED
  BY <1>1, <1>5, <1>6, <1>7, <1>8, <1>9, ShapeOfOne DEF EnclaveType

LEMMA DisconnectTyped ==
    ASSUME TypeOK, Shape, NEW c \in Client, Disconnect(c)
    PROVE  TypeOK' /\ Shape'
<1> USE DEF TypeOK, shared, enclave, outside
<1>1. /\ pc[c] \in {"recv", "ended"} /\ pc' = [pc EXCEPT ![c] = "last"]
      /\ i' = i /\ inQuery' = inQuery /\ outQuery' = outQuery
      /\ aborts' \in {aborts, aborts + 1}
  BY DEF Disconnect, Goto
<1>2. SharedType' /\ OutsideType'
  BY DEF Disconnect, SharedType, OutsideType
<1>3. EnclaveType'
  BY <1>1 DEF Disconnect, EnclaveType, Location
<1>4. HistoryType'
  BY <1>1 DEF Disconnect, HistoryType
<1>5. BatchShape(pc'[c], i'[c], inQuery'[c], outQuery'[c])
  BY <1>1 DEF EnclaveType, Shape, BatchShape, InBatch, InLoop
<1> QED
  BY <1>1, <1>2, <1>3, <1>4, <1>5, ShapeOfOne DEF EnclaveType

LEMMA LastContainerTyped ==
    ASSUME TypeOK, Shape, NEW c \in Client, LastContainer(c)
    PROVE  TypeOK' /\ Shape'
<1> USE DEF TypeOK, enclave, history
<1>1. /\ pc[c] = "last" /\ pc' = [pc EXCEPT ![c] = "join"]
      /\ i' = i /\ inQuery' = inQuery /\ outQuery' = outQuery
      /\ done' = [done EXCEPT ![c] = TRUE] /\ writer' = writer
  BY DEF LastContainer, Goto
<1>2. \/ WriteContainer(c, curContainer[c])
      \/ UNCHANGED <<containers, inputMQ, uuid, curContainer>>
  BY DEF LastContainer
<1>3. curContainer[c] \in Container
  BY DEF OutsideType
<1>4. /\ PartialFunction(containers', ContainerID, SUBSET Slot)
      /\ inputMQ' \in [Client -> Seq(Container)]
      /\ uuid' \in [Client -> Nat]
      /\ curContainer' \in [Client -> Container]
  <2>1. CASE WriteContainer(c, curContainer[c])
    BY <1>3, <2>1, WriteTyped
  <2>2. CASE UNCHANGED <<containers, inputMQ, uuid, curContainer>>
    BY <2>2 DEF SharedType, OutsideType, PartialFunction
  <2> QED
    BY <1>2, <2>1, <2>2
<1>5. SharedType'
  BY <1>4 DEF LastContainer, SharedType
<1>6. EnclaveType'
  BY <1>1 DEF LastContainer, EnclaveType, Location
<1>7. done' \in [Client -> BOOLEAN]
  BY <1>1 DEF OutsideType
<1>8. OutsideType'
  BY <1>1, <1>4, <1>7 DEF OutsideType
<1>9. HistoryType'
  BY DEF LastContainer, HistoryType
<1>10. BatchShape(pc'[c], i'[c], inQuery'[c], outQuery'[c])
  BY <1>1 DEF EnclaveType, Shape, BatchShape, InBatch, InLoop
<1> QED
  BY <1>1, <1>5, <1>6, <1>8, <1>9, <1>10, ShapeOfOne DEF EnclaveType

LEMMA JoinTyped ==
    ASSUME TypeOK, Shape, NEW c \in Client, Join(c)
    PROVE  TypeOK' /\ Shape'
<1> USE DEF TypeOK, shared, outside, history
<1>1. /\ pc[c] = "join" /\ pc' = [pc EXCEPT ![c] = "idle"]
      /\ i' = i /\ inQuery' = inQuery /\ outQuery' = outQuery
  BY DEF Join, Goto
<1>2. SharedType' /\ OutsideType' /\ HistoryType'
  BY DEF Join, SharedType, OutsideType, HistoryType
<1>3. EnclaveType'
  BY <1>1 DEF Join, EnclaveType, Location, NoContainer
<1>4. BatchShape(pc'[c], i'[c], inQuery'[c], outQuery'[c])
  BY <1>1 DEF EnclaveType, Shape, BatchShape, InBatch, InLoop
<1> QED
  BY <1>1, <1>2, <1>3, <1>4, ShapeOfOne DEF EnclaveType

LEMMA WriterCheckTyped ==
    ASSUME TypeOK, Shape, NEW c \in Client, WriterCheck(c)
    PROVE  TypeOK' /\ Shape'
<1> USE DEF TypeOK, shared, enclave, history
<1>1. SharedType' /\ HistoryType'
  BY DEF WriterCheck, SharedType, HistoryType
<1>2. EnclaveType'
  BY DEF WriterCheck, EnclaveType
<1>3. OutsideType'
  BY DEF WriterCheck, OutsideType
<1>4. Shape'
  BY DEF WriterCheck, Shape
<1> QED
  BY <1>1, <1>2, <1>3, <1>4

LEMMA WriterPopTyped ==
    ASSUME TypeOK, Shape, NEW c \in Client, WriterPop(c)
    PROVE  TypeOK' /\ Shape'
<1> USE DEF TypeOK, enclave, history
<1> DEFINE k == Head(inputMQ[c])
<1>1. \/ /\ inputMQ[c] # <<>>
         /\ containers' = Put(containers, k.containerID, k.body)
         /\ inputMQ' = [inputMQ EXCEPT ![c] = Tail(inputMQ[c])]
      \/ UNCHANGED <<containers, inputMQ>>
  BY DEF WriterPop
<1>2. inputMQ \in [Client -> Seq(Container)] /\ inputMQ[c] \in Seq(Container)
  BY DEF OutsideType
<1>3. /\ containers \in [DOMAIN containers -> SUBSET Slot]
      /\ DOMAIN containers \subseteq ContainerID
  BY DEF SharedType, PartialFunction
<1>4. /\ PartialFunction(containers', ContainerID, SUBSET Slot)
      /\ inputMQ' \in [Client -> Seq(Container)]
  <2>1. CASE UNCHANGED <<containers, inputMQ>>
    BY <1>2, <1>3, <2>1 DEF PartialFunction
  <2>2. CASE /\ inputMQ[c] # <<>>
             /\ containers' = Put(containers, k.containerID, k.body)
             /\ inputMQ' = [inputMQ EXCEPT ![c] = Tail(inputMQ[c])]
    <3>1. k \in Container /\ Tail(inputMQ[c]) \in Seq(Container)
      BY <1>2, <2>2, HeadTailProperties
    <3>2. k.containerID \in ContainerID /\ k.body \in SUBSET Slot
      BY <3>1 DEF Container
    <3> HIDE DEF k
    <3>3. containers' \in [DOMAIN containers \cup {k.containerID} -> SUBSET Slot]
      BY <1>3, <2>2, <3>2, PutEntry
    <3>4. DOMAIN containers' = DOMAIN containers \cup {k.containerID}
      BY <3>3
    <3> QED
      BY <1>2, <1>3, <2>2, <3>1, <3>2, <3>3, <3>4 DEF PartialFunction
  <2> QED
    BY <1>1, <2>1, <2>2
<1>5. SharedType'
  BY <1>4 DEF WriterPop, SharedType
<1>6. EnclaveType' /\ HistoryType'
  BY DEF WriterPop, EnclaveType, HistoryType
<1>7. OutsideType'
  BY <1>4 DEF WriterPop, OutsideType
<1>8. Shape'
  BY DEF WriterPop, Shape
<1> QED
  BY <1>5, <1>6, <1>7, <1>8
-----------------------------------------------------------------------------
(* Every step of the specification. *)
LEMMA NextTyped ==
    ASSUME TypeOK, Shape, [Next]_vars
    PROVE  TypeOK' /\ Shape'
<1>1. CASE UNCHANGED vars
  BY <1>1 DEF vars, shared, enclave, outside, history, TypeOK, SharedType,
              EnclaveType, OutsideType, HistoryType, PartialFunction, Shape
<1>2. ASSUME NEW c \in Client, Receive(c) PROVE TypeOK' /\ Shape'
  BY <1>2, StartUploadTyped, RecvBatchTyped, RecvRecipeEndTyped, DisconnectTyped
     DEF Receive
<1>3. ASSUME NEW c \in Client, Batch(c) PROVE TypeOK' /\ Shape'
  BY <1>3, LockSketchTyped, UpdateSketchTyped, LockTopKTyped, ClassifyLocalTyped,
     ClassifyDuplicateTyped, ClassifyUniqueTyped, QueryOutIndexTyped,
     ProcessDuplicateTyped, ProcessUniqueTyped, LockHeapTyped, HeapSkipTyped,
     HeapUpdateFreqTyped, HeapAddTyped, UpdateOutIndexTyped
     DEF Batch
<1>4. ASSUME NEW c \in Client, Shutdown(c) PROVE TypeOK' /\ Shape'
  BY <1>4, LastContainerTyped, JoinTyped DEF Shutdown
<1>5. ASSUME NEW c \in Client, DataWriter(c) PROVE TypeOK' /\ Shape'
  BY <1>5, WriterCheckTyped, WriterPopTyped DEF DataWriter
<1> QED
  BY <1>1, <1>2, <1>3, <1>4, <1>5 DEF Next, WaitForClient

(* Every variable keeps its type: in particular every address that reaches  *)
(* the top-k index, the out-enclave index or a recipe (AddChunkToHeap,      *)
(* Ocall_UpdateOutIndex, UpdateFileRecipe) has been set, for any number of  *)
(* clients and any batches.                                                 *)
THEOREM TypeCorrect == Spec => []TypeOK
<1>1. Init => TypeOK /\ Shape
  BY InitTyped
<1>2. TypeOK /\ Shape /\ [Next]_vars => TypeOK' /\ Shape'
  BY NextTyped
<1> QED
  BY <1>1, <1>2, PTL DEF Spec
-----------------------------------------------------------------------------
(* No entry of the batch q carries a frequency above its estimate. *)
WithinEstimate(sk, q) ==
    \A j \in DOMAIN q : q[j].chunkFreq <= Estimate(sk, q[j].chunkHash)
-----------------------------------------------------------------------------
(* Changing one entry of a batch keeps the batch within the estimates if    *)
(* the new entry is.                                                        *)
LEMMA SetWithin ==
    ASSUME NEW sk, NEW q \in Seq(InQueryEntry), NEW k \in 1..Len(q),
           NEW e \in InQueryEntry,
           WithinEstimate(sk, q), e.chunkFreq <= Estimate(sk, e.chunkHash)
    PROVE  WithinEstimate(sk, [q EXCEPT ![k] = e])
<1> DEFINE r == [q EXCEPT ![k] = e]
<1>1. /\ r \in Seq(InQueryEntry) /\ Len(r) = Len(q)
      /\ \A j \in 1..Len(q) : r[j] = IF j = k THEN e ELSE q[j]
  BY SetEntry
<1>2. DOMAIN q = 1..Len(q)
  OBVIOUS
<1> HIDE DEF r
<1>3. DOMAIN r = 1..Len(q)
  BY <1>1
<1>4. ASSUME NEW j \in 1..Len(q)
      PROVE  r[j].chunkFreq <= Estimate(sk, r[j].chunkHash)
  <2>1. CASE j = k
    BY <1>1, <2>1
  <2>2. CASE j # k
    BY <1>1, <1>2, <2>2 DEF WithinEstimate
  <2> QED
    BY <2>1, <2>2
<1> QED
  BY <1>3, <1>4 DEF WithinEstimate, r

(* A step that changes the batch of one client at most, and neither the     *)
(* sketch nor the counts.                                                   *)
LEMMA WithinOfOne ==
    ASSUME NEW c \in Client, HeapWithinEstimate, NeverUnderestimates,
           UNCHANGED <<sketch, counted>>,
           \A d \in Client \ {c} : inQuery'[d] = inQuery[d],
           WithinEstimate(sketch, inQuery'[c]),
           \A fp \in DOMAIN topK' : topK'[fp].chunkFreq <= Estimate(sketch, fp)
    PROVE  HeapWithinEstimate' /\ NeverUnderestimates'
<1>1. NeverUnderestimates'
  BY DEF NeverUnderestimates
<1>2. \A d \in Client : WithinEstimate(sketch, inQuery'[d])
  BY DEF HeapWithinEstimate, WithinEstimate
<1>3. HeapWithinEstimate'
  BY <1>2 DEF HeapWithinEstimate, WithinEstimate
<1> QED
  BY <1>1, <1>3

(* A step that changes no frequency anywhere. *)
LEMMA WithinSame ==
    ASSUME HeapWithinEstimate, NeverUnderestimates,
           UNCHANGED <<sketch, counted, topK, inQuery>>
    PROVE  HeapWithinEstimate' /\ NeverUnderestimates'
BY DEF HeapWithinEstimate, NeverUnderestimates

LEMMA InitWithin == Init => HeapWithinEstimate /\ NeverUnderestimates
<1> SUFFICES ASSUME Init PROVE HeapWithinEstimate /\ NeverUnderestimates
  OBVIOUS
<1>1. NeverUnderestimates
  BY EstimateEmpty DEF Init, NeverUnderestimates
<1>2. HeapWithinEstimate
  BY DEF Init, HeapWithinEstimate
<1> QED
  BY <1>1, <1>2
-----------------------------------------------------------------------------
LEMMA RecvBatchWithin ==
    ASSUME TypeOK, Shape, HeapWithinEstimate, NeverUnderestimates,
           NEW c \in Client, NEW b \in Batches, RecvBatch(c, b)
    PROVE  HeapWithinEstimate' /\ NeverUnderestimates'
<1> DEFINE q == [j \in 1..Len(b) |-> [chunkHash |-> b[j], chunkFreq |-> 0,
                dedupFlag |-> "NONE", chunkAddr |-> NoAddr, ref |-> j]]
<1>1. /\ inQuery' = [inQuery EXCEPT ![c] = q]
      /\ UNCHANGED <<sketch, counted, topK>>
  BY DEF RecvBatch, shared
<1>2. /\ inQuery'[c] = q
      /\ \A d \in Client \ {c} : inQuery'[d] = inQuery[d]
  BY <1>1 DEF TypeOK, EnclaveType
<1>3. b \in Seq(Fp) /\ sketch \in Sketch
  BY UploadAssumption DEF TypeOK, SharedType
<1>4. ASSUME NEW j \in DOMAIN q
      PROVE  q[j].chunkFreq <= Estimate(sketch, q[j].chunkHash)
  <2>1. q[j].chunkFreq = 0 /\ q[j].chunkHash \in Fp
    BY <1>3, ElementOfSeq
  <2> QED
    BY <1>3, <2>1, EstimateIsMin
<1>5. WithinEstimate(sketch, inQuery'[c])
  BY <1>2, <1>4 DEF WithinEstimate
<1>6. \A fp \in DOMAIN topK' : topK'[fp].chunkFreq <= Estimate(sketch, fp)
  BY <1>1 DEF HeapWithinEstimate
<1> QED
  BY <1>1, <1>2, <1>5, <1>6, WithinOfOne

(* EcallCMSketch::Update under sketchLck_: the estimates of all other chunks *)
(* stay, the one counted grows and is what the entry gets.                   *)
LEMMA UpdateSketchWithin ==
    ASSUME TypeOK, Shape, HeapWithinEstimate, NeverUnderestimates,
           NEW c \in Client, UpdateSketch(c)
    PROVE  HeapWithinEstimate' /\ NeverUnderestimates'
<1> DEFINE q == inQuery[c]
           k == i[c]
           fp == q[k].chunkHash
           e == [q[k] EXCEPT !.chunkFreq = Estimate(sketch', fp)]
<1>1. /\ Loop(c, "sketch", "lockTopK")
      /\ sketch' = Update(sketch, fp)
      /\ inQuery' = [inQuery EXCEPT ![c] = [q EXCEPT ![k] = e]]
      /\ counted' = [counted EXCEPT ![fp] = @ + 1]
      /\ topK' = topK
  BY DEF UpdateSketch
<1>2. k \in 1..Len(q) /\ q \in Seq(InQueryEntry)
  BY <1>1, LoopTurn DEF InLoop, Location
<1>3. q[k] \in InQueryEntry
  BY <1>2, ElementOfSeq
<1>4. fp \in Fp /\ sketch \in Sketch
  BY <1>3 DEF InQueryEntry, TypeOK, SharedType
<1>5. sketch' \in Sketch /\ Estimate(sketch', fp) \in Nat
  BY <1>1, <1>4, UpdateCounters, EstimateIsMin
<1>6. e \in InQueryEntry /\ e.chunkHash = fp /\ e.chunkFreq = Estimate(sketch', fp)
  BY <1>3, <1>5 DEF InQueryEntry
<1>7. \A g \in Fp : /\ Estimate(sketch, g) \in Nat /\ Estimate(sketch', g) \in Nat
                    /\ Estimate(sketch, g) <= Estimate(sketch', g)
  BY <1>1, <1>4, <1>5, EstimateIsMin, EstimateMonotone
<1>8. NeverUnderestimates'
  <2> SUFFICES ASSUME NEW g \in Fp PROVE counted'[g] <= Estimate(sketch', g)
    BY DEF NeverUnderestimates
  <2>1. counted \in [Fp -> Nat] /\ counted[g] <= Estimate(sketch, g)
    BY DEF TypeOK, HistoryType, NeverUnderestimates
  <2>2. CASE g = fp
    <3>1. Estimate(sketch, fp) + 1 <= Estimate(sketch', fp)
      BY <1>1, <1>4, EstimateGrows
    <3>2. counted'[g] = counted[g] + 1
      BY <1>1, <2>1, <2>2
    <3> HIDE DEF fp
    <3> QED
      BY <1>7, <2>1, <2>2, <3>1, <3>2
  <2>3. CASE g # fp
    <3>1. counted'[g] = counted[g]
      BY <1>1, <2>1, <2>3
    <3> QED
      BY <1>7, <2>1, <3>1
  <2> QED
    BY <2>2, <2>3
<1>9. ASSUME NEW d \in Client PROVE WithinEstimate(sketch', inQuery[d])
  <2> SUFFICES ASSUME NEW j \in DOMAIN inQuery[d]
               PROVE  inQuery[d][j].chunkFreq <= Estimate(sketch', inQuery[d][j].chunkHash)
    BY DEF WithinEstimate
  <2>1. inQuery[d] \in Seq(InQueryEntry)
    BY DEF TypeOK, EnclaveType
  <2>2. inQuery[d][j] \in InQueryEntry
    BY <2>1, ElementOfSeq
  <2>3. inQuery[d][j].chunkFreq \in Nat /\ inQuery[d][j].chunkHash \in Fp
    BY <2>2 DEF InQueryEntry
  <2>4. inQuery[d][j].chunkFreq <= Estimate(sketch, inQuery[d][j].chunkHash)
    BY DEF HeapWithinEstimate
  <2> QED
    BY <1>7, <2>3, <2>4
<1>10. WithinEstimate(sketch', inQuery'[c])
  <2>1. WithinEstimate(sketch', q) /\ e.chunkFreq <= Estimate(sketch', e.chunkHash)
    BY <1>5, <1>6, <1>9
  <2>2. inQuery'[c] = [q EXCEPT ![k] = e]
    BY <1>1 DEF TypeOK, EnclaveType
  <2> HIDE DEF q, k, e
  <2> QED
    BY <1>2, <1>6, <2>1, <2>2, SetWithin
<1>11. \A d \in Client : WithinEstimate(sketch', inQuery'[d])
  <2>1. \A d \in Client \ {c} : inQuery'[d] = inQuery[d]
    BY <1>1 DEF TypeOK, EnclaveType
  <2> QED
    BY <1>9, <1>10, <2>1
<1>12. ASSUME NEW g \in DOMAIN topK PROVE topK[g].chunkFreq <= Estimate(sketch', g)
  <2>1. g \in Fp /\ topK[g].chunkFreq \in Nat
    BY DEF TypeOK, SharedType, PartialFunction, HeapItem
  <2> QED
    BY <1>7, <2>1 DEF HeapWithinEstimate
<1> QED
  BY <1>1, <1>8, <1>11, <1>12 DEF HeapWithinEstimate, WithinEstimate

(* A repetition hands its frequency to the entry it refers to, which is of   *)
(* the same chunk.                                                          *)
LEMMA ClassifyLocalWithin ==
    ASSUME TypeOK, Shape, HeapWithinEstimate, NeverUnderestimates,
           NEW c \in Client, ClassifyLocal(c)
    PROVE  HeapWithinEstimate' /\ NeverUnderestimates'
<1> DEFINE q == inQuery[c]
           k == i[c]
<1>1. Loop(c, "topK", "query") /\ UNCHANGED <<sketch, topK, counted>>
  BY DEF ClassifyLocal, history
<1>2. k \in 1..Len(q) /\ q \in Seq(InQueryEntry) /\ Len(q) \in Nat
  BY <1>1, LoopTurn DEF InLoop, Location
<1>3. PICK j \in LocalIndex(c) :
        inQuery' = [inQuery EXCEPT
             ![c][i[c]].dedupFlag = IF inQuery[c][j].dedupFlag = "UNIQUE"
                                    THEN "TMP_UNIQUE" ELSE "TMP_DUPLICATE",
             ![c][i[c]].ref = j,
             ![c][j].chunkFreq = inQuery[c][i[c]].chunkFreq]
  BY DEF ClassifyLocal
<1>4. j \in Nat /\ j \in 1..Len(q) /\ j # k /\ q[j].chunkHash = q[k].chunkHash
  BY <1>2 DEF LocalIndex
<1>5. q[k] \in InQueryEntry /\ q[j] \in InQueryEntry
  BY <1>2, <1>4, ElementOfSeq
<1> DEFINE flag == IF q[j].dedupFlag = "UNIQUE" THEN "TMP_UNIQUE" ELSE "TMP_DUPLICATE"
           e == [[q[k] EXCEPT !.dedupFlag = flag] EXCEPT !.ref = j]
           f == [q[j] EXCEPT !.chunkFreq = q[k].chunkFreq]
           m == [q EXCEPT ![k] = e]
           r == [m EXCEPT ![j] = f]
<1>6. inQuery \in [Client -> Seq(InQueryEntry)] /\ DOMAIN q = 1..Len(q)
  BY <1>2 DEF TypeOK, EnclaveType
<1>7. inQuery' = [inQuery EXCEPT ![c] = r]
  BY <1>2, <1>3, <1>4, <1>6
<1>8. /\ e \in InQueryEntry /\ f \in InQueryEntry
      /\ e.chunkHash = q[k].chunkHash /\ e.chunkFreq = q[k].chunkFreq
      /\ f.chunkHash = q[k].chunkHash /\ f.chunkFreq = q[k].chunkFreq
  BY <1>4, <1>5 DEF InQueryEntry, DedupFlag
<1>9. /\ WithinEstimate(sketch, q)
      /\ q[k].chunkFreq <= Estimate(sketch, q[k].chunkHash)
  BY <1>2, <1>6 DEF HeapWithinEstimate, WithinEstimate
<1>10. inQuery'[c] = r /\ \A d \in Client \ {c} : inQuery'[d] = inQuery[d]
  BY <1>6, <1>7
<1> HIDE DEF q, k, e, f
<1>11. WithinEstimate(sketch, m)
  BY <1>2, <1>8, <1>9, SetWithin
<1>12. m \in Seq(InQueryEntry) /\ Len(m) = Len(q)
  BY <1>2, <1>8, SetEntry
<1> HIDE DEF m
<1>13. WithinEstimate(sketch, r)
  BY <1>4, <1>8, <1>9, <1>11, <1>12, SetWithin
<1> HIDE DEF r
<1>14. \A fp \in DOMAIN topK' : topK'[fp].chunkFreq <= Estimate(sketch, fp)
  BY <1>1 DEF HeapWithinEstimate
<1> QED
  BY <1>1, <1>10, <1>13, <1>14, WithinOfOne

(* A step that changes one entry, and in it neither hash nor frequency. *)
LEMMA EntryWithin ==
    ASSUME TypeOK, Shape, HeapWithinEstimate, NeverUnderestimates,
           NEW c \in Client, i[c] \in 1..Len(inQuery[c]), NEW e \in InQueryEntry,
           e.chunkHash = inQuery[c][i[c]].chunkHash,
           e.chunkFreq = inQuery[c][i[c]].chunkFreq,
           inQuery' = [inQuery EXCEPT ![c] = [inQuery[c] EXCEPT ![i[c]] = e]],
           UNCHANGED <<sketch, topK, counted>>
    PROVE  HeapWithinEstimate' /\ NeverUnderestimates'
<1> DEFINE q == inQuery[c]
           k == i[c]
<1>1. inQuery \in [Client -> Seq(InQueryEntry)] /\ q \in Seq(InQueryEntry) /\ DOMAIN q = 1..Len(q)
  BY DEF TypeOK, EnclaveType
<1>2. WithinEstimate(sketch, q) /\ e.chunkFreq <= Estimate(sketch, e.chunkHash)
  BY <1>1 DEF HeapWithinEstimate, WithinEstimate
<1>3. /\ inQuery'[c] = [q EXCEPT ![k] = e]
      /\ \A d \in Client \ {c} : inQuery'[d] = inQuery[d]
  BY <1>1
<1>4. WithinEstimate(sketch, inQuery'[c])
  <2>1. k \in 1..Len(q) /\ q \in Seq(InQueryEntry)
    BY <1>1
  <2> HIDE DEF q, k
  <2>2. WithinEstimate(sketch, [q EXCEPT ![k] = e])
    BY <1>2, <2>1, SetWithin
  <2> QED
    BY <1>3, <2>2
<1>5. \A fp \in DOMAIN topK' : topK'[fp].chunkFreq <= Estimate(sketch, fp)
  BY DEF HeapWithinEstimate
<1> QED
  BY <1>3, <1>4, <1>5, WithinOfOne

LEMMA ClassifyDuplicateWithin ==
    ASSUME TypeOK, Shape, HeapWithinEstimate, NeverUnderestimates,
           NEW c \in Client, ClassifyDuplicate(c)
    PROVE  HeapWithinEstimate' /\ NeverUnderestimates'
<1> DEFINE q == inQuery[c]
           k == i[c]
           addr == topK[q[k].chunkHash].address
           e == [[q[k] EXCEPT !.dedupFlag = "DUPLICATE"] EXCEPT !.chunkAddr = addr]
<1>1. /\ Loop(c, "topK", "query") /\ InTopK(c)
      /\ inQuery' = [inQuery EXCEPT ![c][i[c]].dedupFlag = "DUPLICATE",
                                    ![c][i[c]].chunkAddr = addr]
      /\ UNCHANGED <<sketch, topK, counted>>
  BY DEF ClassifyDuplicate, history
<1>2. k \in 1..Len(q) /\ q \in Seq(InQueryEntry) /\ q[k] \in InQueryEntry
  BY <1>1, LoopTurn, ElementOfSeq DEF InLoop, Location
<1>3. inQuery \in [Client -> Seq(InQueryEntry)] /\ DOMAIN q = 1..Len(q)
  BY <1>2 DEF TypeOK, EnclaveType
<1>4. inQuery' = [inQuery EXCEPT ![c] = [q EXCEPT ![k] = e]]
  BY <1>1, <1>2, <1>3
<1>5. addr \in Addr
  BY <1>1 DEF InTopK, TypeOK, SharedType, PartialFunction, HeapItem
<1>6. e \in InQueryEntry /\ e.chunkHash = q[k].chunkHash /\ e.chunkFreq = q[k].chunkFreq
  <2> HIDE DEF addr
  <2> QED
    BY <1>2, <1>5 DEF InQueryEntry, DedupFlag
<1> HIDE DEF e
<1> QED
  BY <1>1, <1>2, <1>4, <1>6, EntryWithin

LEMMA ClassifyUniqueWithin ==
    ASSUME TypeOK, Shape, HeapWithinEstimate, NeverUnderestimates,
           NEW c \in Client, ClassifyUnique(c)
    PROVE  HeapWithinEstimate' /\ NeverUnderestimates'
<1> DEFINE q == inQuery[c]
           k == i[c]
           e == [q[k] EXCEPT !.dedupFlag = "UNIQUE"]
<1>1. /\ Loop(c, "topK", "query")
      /\ inQuery' = [inQuery EXCEPT ![c] = [q EXCEPT ![k] = e]]
      /\ UNCHANGED <<sketch, topK, counted>>
  BY DEF ClassifyUnique, history
<1>2. k \in 1..Len(q) /\ q \in Seq(InQueryEntry) /\ q[k] \in InQueryEntry
  BY <1>1, LoopTurn, ElementOfSeq DEF InLoop, Location
<1>3. e \in InQueryEntry /\ e.chunkHash = q[k].chunkHash /\ e.chunkFreq = q[k].chunkFreq
  BY <1>2 DEF InQueryEntry, DedupFlag
<1> HIDE DEF e
<1> QED
  BY <1>1, <1>2, <1>3, EntryWithin

LEMMA ProcessDuplicateWithin ==
    ASSUME TypeOK, Shape, HeapWithinEstimate, NeverUnderestimates,
           NEW c \in Client, ProcessDuplicate(c)
    PROVE  HeapWithinEstimate' /\ NeverUnderestimates'
<1> DEFINE q == inQuery[c]
           k == i[c]
           e == [q[k] EXCEPT !.chunkAddr = KnownAddr(c)]
<1>1. /\ Loop(c, "proc", "lockHeap") /\ ~NeedsStore(c)
      /\ \/ inQuery' = [inQuery EXCEPT ![c] = [q EXCEPT ![k] = e]]
         \/ inQuery' = inQuery
      /\ UNCHANGED <<sketch, topK, counted>>
  BY DEF ProcessDuplicate, history
<1>2. /\ pc[c] = "proc" /\ k \in 1..Len(q) /\ q \in Seq(InQueryEntry)
      /\ q[k] \in InQueryEntry
  BY <1>1, LoopTurn, ElementOfSeq DEF InLoop, Location
<1>3. KnownAddr(c) \in Addr
  BY <1>1, <1>2, KnownAddrSet
<1>4. e \in InQueryEntry /\ e.chunkHash = q[k].chunkHash /\ e.chunkFreq = q[k].chunkFreq
  BY <1>2, <1>3 DEF InQueryEntry
<1> HIDE DEF e
<1>5. CASE inQuery' = [inQuery EXCEPT ![c] = [q EXCEPT ![k] = e]]
  BY <1>1, <1>2, <1>4, <1>5, EntryWithin
<1>6. CASE inQuery' = inQuery
  BY <1>1, <1>6, WithinSame
<1> QED
  BY <1>1, <1>5, <1>6

LEMMA ProcessUniqueWithin ==
    ASSUME TypeOK, Shape, HeapWithinEstimate, NeverUnderestimates,
           NEW c \in Client, ProcessUnique(c)
    PROVE  HeapWithinEstimate' /\ NeverUnderestimates'
<1> DEFINE q == inQuery[c]
           k == i[c]
           addr == SaveAddr(c, q[k].chunkHash)
           e == [q[k] EXCEPT !.chunkAddr = addr]
<1>1. /\ Loop(c, "proc", "lockHeap") /\ SaveChunk(c, q[k].chunkHash)
      /\ inQuery' = [inQuery EXCEPT ![c] = [q EXCEPT ![k] = e]]
      /\ UNCHANGED <<sketch, topK, counted>>
  BY DEF ProcessUnique, history
<1>2. k \in 1..Len(q) /\ q \in Seq(InQueryEntry) /\ q[k] \in InQueryEntry
  BY <1>1, LoopTurn, ElementOfSeq DEF InLoop, Location
<1>3. q[k].chunkHash \in Fp
  BY <1>2 DEF InQueryEntry
<1>4. addr \in Addr
  BY <1>1, <1>3, SaveTyped
<1> HIDE DEF addr
<1>5. e \in InQueryEntry /\ e.chunkHash = q[k].chunkHash /\ e.chunkFreq = q[k].chunkFreq
  BY <1>2, <1>4 DEF InQueryEntry
<1> HIDE DEF e
<1> QED
  BY <1>1, <1>2, <1>5, EntryWithin

(* The heap takes over the frequency a batch carries, read from the sketch   *)
(* under another lock some time before.                                     *)
LEMMA HeapWithin ==
    ASSUME TypeOK, Shape, HeapWithinEstimate, NeverUnderestimates,
           NEW c \in Client, HeapUpdateFreq(c) \/ HeapAdd(c)
    PROVE  HeapWithinEstimate' /\ NeverUnderestimates'
<1> DEFINE e == inQuery[c][i[c]]
<1>1. HeapTurn(c)
  BY DEF HeapUpdateFreq, HeapAdd
<1>2. UNCHANGED <<sketch, counted, inQuery>> /\ pc[c] = "heap"
  BY <1>1 DEF HeapTurn, Loop, enclave, history
<1>3. e.chunkFreq <= Estimate(sketch, e.chunkHash)
  BY <1>2, HeapEntry DEF HeapWithinEstimate
<1>4. \A fp \in DOMAIN topK' :
         \/ fp = e.chunkHash /\ topK'[fp].chunkFreq = e.chunkFreq
         \/ fp \in DOMAIN topK /\ topK'[fp] = topK[fp]
  <2>1. CASE HeapUpdateFreq(c)
    <3> DEFINE fp == e.chunkHash
               v == [topK[fp] EXCEPT !.chunkFreq = e.chunkFreq]
    <3>1. fp \in DOMAIN topK /\ topK' = [topK EXCEPT ![fp] = v]
      BY <2>1 DEF HeapUpdateFreq, UpdateInsideIndexFreq
    <3>2. topK \in [DOMAIN topK -> HeapItem]
      BY DEF TypeOK, SharedType, PartialFunction
    <3>3. v.chunkFreq = e.chunkFreq
      BY <3>1, <3>2 DEF HeapItem
    <3> HIDE DEF v, fp
    <3>4. DOMAIN topK' = DOMAIN topK /\ topK'[fp] = v
          /\ \A g \in DOMAIN topK : g # fp => topK'[g] = topK[g]
      BY <3>1, <3>2
    <3> QED
      BY <3>3, <3>4 DEF fp
  <2>2. CASE HeapAdd(c)
    <3>1. topK'[e.chunkHash].chunkFreq = e.chunkFreq
      BY <2>2, HeapAddIndex
    <3>2. PICK popped \in PopChoices :
             /\ DOMAIN topK' = (DOMAIN topK \ popped) \cup {e.chunkHash}
             /\ \A fp \in DOMAIN topK \ popped : topK'[fp] = topK[fp]
      BY <2>2, HeapAddIndex
    <3> QED
      BY <3>1, <3>2
  <2> QED
    BY <2>1, <2>2
<1> HIDE DEF e
<1>5. \A fp \in DOMAIN topK' : topK'[fp].chunkFreq <= Estimate(sketch, fp)
  BY <1>3, <1>4 DEF HeapWithinEstimate
<1>6. WithinEstimate(sketch, inQuery'[c]) /\ \A d \in Client \ {c} : inQuery'[d] = inQuery[d]
  BY <1>2 DEF HeapWithinEstimate, WithinEstimate
<1> QED
  BY <1>2, <1>5, <1>6, WithinOfOne

LEMMA UpdateOutIndexWithin ==
    ASSUME TypeOK, HeapWithinEstimate, NeverUnderestimates,
           NEW c \in Client, UpdateOutIndex(c)
    PROVE  HeapWithinEstimate' /\ NeverUnderestimates'
<1>1. /\ UNCHANGED <<sketch, topK, counted>>
      /\ inQuery' = [inQuery EXCEPT ![c] = <<>>]
  BY DEF UpdateOutIndex, history
<1>2. inQuery'[c] = <<>> /\ \A d \in Client \ {c} : inQuery'[d] = inQuery[d]
  BY <1>1 DEF TypeOK, EnclaveType
<1>3. WithinEstimate(sketch, inQuery'[c])
  BY <1>2 DEF WithinEstimate
<1>4. \A fp \in DOMAIN topK' : topK'[fp].chunkFreq <= Estimate(sketch, fp)
  BY <1>1 DEF HeapWithinEstimate
<1> QED
  BY <1>1, <1>2, <1>3, <1>4, WithinOfOne

(* Every other action leaves the sketch, the heap and the batches alone. *)
LEMMA OtherWithin ==
    ASSUME NEW c \in Client,
           \/ StartUpload(c) \/ RecvRecipeEnd(c) \/ Disconnect(c) \/ LockSketch(c)
           \/ LockTopK(c) \/ QueryOutIndex(c) \/ LockHeap(c) \/ HeapSkip(c)
           \/ LastContainer(c) \/ Join(c) \/ WriterCheck(c) \/ WriterPop(c)
    PROVE  UNCHANGED <<sketch, counted, topK, inQuery>>
<1> USE DEF shared, enclave, history
<1>1. CASE StartUpload(c) \/ RecvRecipeEnd(c) \/ Disconnect(c) \/ LockSketch(c)
  BY <1>1 DEF StartUpload, RecvRecipeEnd, Disconnect, LockSketch
<1>2. CASE LockTopK(c) \/ QueryOutIndex(c) \/ LockHeap(c) \/ HeapSkip(c)
  BY <1>2 DEF LockTopK, QueryOutIndex, LockHeap, HeapSkip, HeapTurn
<1>3. CASE LastContainer(c) \/ Join(c) \/ WriterCheck(c) \/ WriterPop(c)
  BY <1>3 DEF LastContainer, Join, WriterCheck, WriterPop
<1> QED
  BY <1>1, <1>2, <1>3

LEMMA NextWithin ==
    ASSUME TypeOK, Shape, HeapWithinEstimate, NeverUnderestimates, [Next]_vars
    PROVE  HeapWithinEstimate' /\ NeverUnderestimates'
<1>1. CASE UNCHANGED vars
  BY <1>1, WithinSame DEF vars, shared, enclave, history
<1>2. ASSUME NEW c \in Client, Receive(c)
      PROVE  HeapWithinEstimate' /\ NeverUnderestimates'
  BY <1>2, RecvBatchWithin, OtherWithin, WithinSame DEF Receive
<1>3. ASSUME NEW c \in Client, Batch(c)
      PROVE  HeapWithinEstimate' /\ NeverUnderestimates'
  BY <1>3, UpdateSketchWithin, ClassifyLocalWithin, ClassifyDuplicateWithin,
     ClassifyUniqueWithin, ProcessDuplicateWithin, ProcessUniqueWithin, HeapWithin,
     UpdateOutIndexWithin, OtherWithin, WithinSame DEF Batch
<1>4. ASSUME NEW c \in Client, Shutdown(c) \/ DataWriter(c)
      PROVE  HeapWithinEstimate' /\ NeverUnderestimates'
  BY <1>4, OtherWithin, WithinSame DEF Shutdown, DataWriter
<1> QED
  BY <1>1, <1>2, <1>3, <1>4 DEF Next, WaitForClient

(* The sketch never underestimates a chunk, and no frequency kept in the     *)
(* top-k index or carried by a batch exceeds what the sketch estimates now,  *)
(* although ProcessOneBatch reads it under sketchLck_ and uses it under      *)
(* topKIndexLck_ later: for any number of clients, rows, counters and        *)
(* collisions.                                                              *)
THEOREM FrequenciesBounded == Spec => [](HeapWithinEstimate /\ NeverUnderestimates)
<1>1. Init => TypeOK /\ Shape /\ HeapWithinEstimate /\ NeverUnderestimates
  BY InitTyped, InitWithin
<1>2. TypeOK /\ Shape /\ HeapWithinEstimate /\ NeverUnderestimates /\ [Next]_vars
        => TypeOK' /\ Shape' /\ HeapWithinEstimate' /\ NeverUnderestimates'
  BY NextTyped, NextWithin
<1> QED
  BY <1>1, <1>2, PTL DEF Spec

(* The half of it that concerns the sketch alone: Estimate is at least how  *)
(* often a chunk was counted, by whichever clients and whatever shares its  *)
(* counters.                                                                *)
THEOREM SketchNeverUnderestimates == Spec => []NeverUnderestimates
BY FrequenciesBounded, PTL
-----------------------------------------------------------------------------
(* What the steps of a batch do to its entries.                             *)

(* Entry e after a step that keeps the fingerprint and the flag of f. *)
SameMark(e, f) == e.chunkHash = f.chunkHash /\ e.dedupFlag = f.dedupFlag

(* The step changes, of all batches, at most entry k of that of client c. *)
OnlyEntry(c, k) ==
    /\ k \in 1..Len(inQuery[c]) /\ Len(inQuery'[c]) = Len(inQuery[c])
    /\ inQuery'[c][k].chunkHash = inQuery[c][k].chunkHash
    /\ \A j \in 1..Len(inQuery[c]) : j # k => inQuery'[c][j] = inQuery[c][j]
    /\ \A d \in Client \ {c} : inQuery'[d] = inQuery[d]

LEMMA EntryChanged ==
    ASSUME TypeOK, NEW c \in Client, NEW k \in 1..Len(inQuery[c]), NEW e \in InQueryEntry,
           e.chunkHash = inQuery[c][k].chunkHash,
           inQuery' = [inQuery EXCEPT ![c] = [inQuery[c] EXCEPT ![k] = e]]
    PROVE  OnlyEntry(c, k) /\ inQuery'[c][k] = e
<1> DEFINE q == inQuery[c]
           r == [q EXCEPT ![k] = e]
<1>1. inQuery \in [Client -> Seq(InQueryEntry)] /\ q \in Seq(InQueryEntry)
  BY DEF TypeOK, EnclaveType
<1>2. inQuery'[c] = r /\ \A d \in Client \ {c} : inQuery'[d] = inQuery[d]
  BY <1>1
<1> HIDE DEF q
<1>3. Len(r) = Len(q) /\ \A j \in 1..Len(q) : r[j] = IF j = k THEN e ELSE q[j]
  BY <1>1, SetEntry DEF q
<1>4. k \in 1..Len(q)
  BY DEF q
<1> HIDE DEF r
<1> QED
  BY <1>2, <1>3, <1>4 DEF q, OnlyEntry

LEMMA UpdateSketchEntry ==
    ASSUME TypeOK, Shape, NEW c \in Client, UpdateSketch(c)
    PROVE  /\ OnlyEntry(c, i[c])
           /\ inQuery'[c][i[c]].dedupFlag = inQuery[c][i[c]].dedupFlag
           /\ inQuery'[c][i[c]].chunkFreq = Estimate(sketch', inQuery[c][i[c]].chunkHash)
<1> DEFINE q == inQuery[c]
           k == i[c]
           e == [q[k] EXCEPT !.chunkFreq = Estimate(sketch', q[k].chunkHash)]
<1>1. /\ Loop(c, "sketch", "lockTopK") /\ sketch' = Update(sketch, q[k].chunkHash)
      /\ inQuery' = [inQuery EXCEPT ![c] = [q EXCEPT ![k] = e]]
  BY DEF UpdateSketch
<1>2. k \in 1..Len(q) /\ q \in Seq(InQueryEntry) /\ q[k] \in InQueryEntry
  BY <1>1, LoopTurn, ElementOfSeq DEF InLoop, Location
<1>3. q[k].chunkHash \in Fp
  BY <1>2 DEF InQueryEntry
<1>4. sketch' \in Sketch
  BY <1>1, <1>3, UpdateCounters DEF TypeOK, SharedType
<1>5. Estimate(sketch', q[k].chunkHash) \in Nat
  BY <1>3, <1>4, EstimateIsMin
<1>6. /\ e \in InQueryEntry /\ e.chunkHash = q[k].chunkHash
      /\ e.dedupFlag = q[k].dedupFlag /\ e.chunkFreq = Estimate(sketch', q[k].chunkHash)
  BY <1>2, <1>5 DEF InQueryEntry
<1> HIDE DEF e
<1> QED
  BY <1>1, <1>2, <1>6, EntryChanged

LEMMA ClassifyUniqueEntry ==
    ASSUME TypeOK, Shape, NEW c \in Client, ClassifyUnique(c)
    PROVE  /\ OnlyEntry(c, i[c]) /\ inQuery'[c][i[c]].dedupFlag = "UNIQUE"
           /\ inQuery'[c][i[c]].chunkFreq = inQuery[c][i[c]].chunkFreq
<1> DEFINE q == inQuery[c]
           k == i[c]
           e == [q[k] EXCEPT !.dedupFlag = "UNIQUE"]
<1>1. /\ Loop(c, "topK", "query")
      /\ inQuery' = [inQuery EXCEPT ![c] = [q EXCEPT ![k] = e]]
  BY DEF ClassifyUnique
<1>2. k \in 1..Len(q) /\ q \in Seq(InQueryEntry) /\ q[k] \in InQueryEntry
  BY <1>1, LoopTurn, ElementOfSeq DEF InLoop, Location
<1>3. /\ e \in InQueryEntry /\ e.chunkHash = q[k].chunkHash
      /\ e.dedupFlag = "UNIQUE" /\ e.chunkFreq = q[k].chunkFreq
  BY <1>2 DEF InQueryEntry, DedupFlag
<1> HIDE DEF e
<1> QED
  BY <1>1, <1>2, <1>3, EntryChanged

LEMMA ClassifyDuplicateEntry ==
    ASSUME TypeOK, Shape, NEW c \in Client, ClassifyDuplicate(c)
    PROVE  /\ OnlyEntry(c, i[c]) /\ inQuery'[c][i[c]].dedupFlag = "DUPLICATE"
           /\ inQuery'[c][i[c]].chunkFreq = inQuery[c][i[c]].chunkFreq
           /\ inQuery[c][i[c]].chunkHash \in DOMAIN topK
<1> DEFINE q == inQuery[c]
           k == i[c]
           addr == topK[q[k].chunkHash].address
           e == [[q[k] EXCEPT !.dedupFlag = "DUPLICATE"] EXCEPT !.chunkAddr = addr]
<1>1. /\ Loop(c, "topK", "query") /\ q[k].chunkHash \in DOMAIN topK
      /\ inQuery' = [inQuery EXCEPT ![c] = [q EXCEPT ![k] = e]]
  BY DEF ClassifyDuplicate, InTopK
<1>2. k \in 1..Len(q) /\ q \in Seq(InQueryEntry) /\ q[k] \in InQueryEntry
  BY <1>1, LoopTurn, ElementOfSeq DEF InLoop, Location
<1>3. addr \in Addr
  BY <1>1 DEF TypeOK, SharedType, PartialFunction, HeapItem
<1>4. /\ e \in InQueryEntry /\ e.chunkHash = q[k].chunkHash
      /\ e.dedupFlag = "DUPLICATE" /\ e.chunkFreq = q[k].chunkFreq
  BY <1>2, <1>3 DEF InQueryEntry, DedupFlag
<1> HIDE DEF e
<1> QED
  BY <1>1, <1>2, <1>4, EntryChanged

(* A repetition is marked, and its frequency goes to the entry that saw the *)
(* chunk first.                                                             *)
LEMMA ClassifyLocalEntry ==
    ASSUME TypeOK, Shape, NEW c \in Client, ClassifyLocal(c)
    PROVE  \E j \in LocalIndex(c) :
             /\ j \in 1..Len(inQuery[c]) /\ j # i[c] /\ i[c] \in 1..Len(inQuery[c])
             /\ Len(inQuery'[c]) = Len(inQuery[c])
             /\ inQuery'[c][i[c]].chunkHash = inQuery[c][i[c]].chunkHash
             /\ inQuery'[c][i[c]].dedupFlag \in {"TMP_UNIQUE", "TMP_DUPLICATE"}
             /\ inQuery'[c][i[c]].chunkFreq = inQuery[c][i[c]].chunkFreq
             /\ SameMark(inQuery'[c][j], inQuery[c][j])
             /\ inQuery[c][j].chunkHash = inQuery[c][i[c]].chunkHash
             /\ inQuery'[c][j].chunkFreq = inQuery[c][i[c]].chunkFreq
             /\ \A n \in 1..Len(inQuery[c]) :
                   n # i[c] /\ n # j => inQuery'[c][n] = inQuery[c][n]
             /\ \A d \in Client \ {c} : inQuery'[d] = inQuery[d]
<1> DEFINE q == inQuery[c]
           k == i[c]
<1>1. Loop(c, "topK", "query")
  BY DEF ClassifyLocal
<1>2. k \in 1..Len(q) /\ Len(q) \in Nat /\ q \in Seq(InQueryEntry)
  BY <1>1, LoopTurn DEF InLoop, Location
<1>3. PICK j \in LocalIndex(c) :
        inQuery' = [inQuery EXCEPT
             ![c][i[c]].dedupFlag = IF inQuery[c][j].dedupFlag = "UNIQUE"
                                    THEN "TMP_UNIQUE" ELSE "TMP_DUPLICATE",
             ![c][i[c]].ref = j,
             ![c][j].chunkFreq = inQuery[c][i[c]].chunkFreq]
  BY DEF ClassifyLocal
<1>4. j \in Nat /\ j \in 1..Len(q) /\ j # k /\ q[j].chunkHash = q[k].chunkHash
  BY <1>2 DEF LocalIndex
<1>5. q[k] \in InQueryEntry /\ q[j] \in InQueryEntry
  BY <1>2, <1>4, ElementOfSeq
<1> DEFINE flag == IF q[j].dedupFlag = "UNIQUE" THEN "TMP_UNIQUE" ELSE "TMP_DUPLICATE"
           e == [[q[k] EXCEPT !.dedupFlag = flag] EXCEPT !.ref = j]
           f == [q[j] EXCEPT !.chunkFreq = q[k].chunkFreq]
           r == [[q EXCEPT ![k] = e] EXCEPT ![j] = f]
<1>6. inQuery \in [Client -> Seq(InQueryEntry)] /\ DOMAIN q = 1..Len(q)
  BY <1>2 DEF TypeOK, EnclaveType
<1>7. inQuery' = [inQuery EXCEPT ![c] = r]
  BY <1>2, <1>3, <1>4, <1>6
<1> HIDE DEF q, k
<1>8. /\ e.chunkHash = q[k].chunkHash /\ e.chunkFreq = q[k].chunkFreq
      /\ e.dedupFlag \in {"TMP_UNIQUE", "TMP_DUPLICATE"}
      /\ SameMark(f, q[j]) /\ f.chunkFreq = q[k].chunkFreq
      /\ e \in InQueryEntry /\ f \in InQueryEntry
  BY <1>4, <1>5 DEF InQueryEntry, DedupFlag, SameMark
<1> HIDE DEF e, f, flag
<1>9. /\ Len(r) = Len(q) /\ r[k] = e /\ r[j] = f
      /\ \A n \in 1..Len(q) : n # k /\ n # j => r[n] = q[n]
  BY <1>2, <1>4, <1>8, SetEntry
<1> HIDE DEF r
<1>10. inQuery'[c] = r /\ \A d \in Client \ {c} : inQuery'[d] = inQuery[d]
  BY <1>6, <1>7
<1> USE DEF q, k
<1> QED
  BY <1>2, <1>4, <1>8, <1>9, <1>10

LEMMA ProcessEntry ==
    ASSUME TypeOK, Shape, NEW c \in Client, ProcessDuplicate(c) \/ ProcessUnique(c)
    PROVE  /\ OnlyEntry(c, i[c])
           /\ inQuery'[c][i[c]].dedupFlag = inQuery[c][i[c]].dedupFlag
<1> DEFINE q == inQuery[c]
           k == i[c]
<1>1. Loop(c, "proc", "lockHeap")
  BY DEF ProcessDuplicate, ProcessUnique
<1>2. /\ pc[c] = "proc" /\ k \in 1..Len(q) /\ q \in Seq(InQueryEntry)
      /\ q[k] \in InQueryEntry
  BY <1>1, LoopTurn, ElementOfSeq DEF InLoop, Location
<1>3. \/ inQuery' = inQuery
      \/ \E a \in Addr : inQuery' = [inQuery EXCEPT ![c] =
              [q EXCEPT ![k] = [q[k] EXCEPT !.chunkAddr = a]]]
  <2>1. CASE ProcessDuplicate(c)
    <3>1. KnownAddr(c) \in Addr
      BY <1>2, <2>1, KnownAddrSet DEF ProcessDuplicate
    <3> QED
      BY <2>1, <3>1 DEF ProcessDuplicate
  <2>2. CASE ProcessUnique(c)
    <3>1. SaveAddr(c, q[k].chunkHash) \in Addr
      BY <1>2, <2>2, SaveTyped DEF ProcessUnique, InQueryEntry
    <3> QED
      BY <2>2, <3>1 DEF ProcessUnique
  <2> QED
    BY <2>1, <2>2
<1>4. CASE inQuery' = inQuery
  BY <1>2, <1>4 DEF OnlyEntry
<1>5. ASSUME NEW a \in Addr,
             inQuery' = [inQuery EXCEPT ![c] = [q EXCEPT ![k] = [q[k] EXCEPT !.chunkAddr = a]]]
      PROVE  OnlyEntry(c, k) /\ inQuery'[c][k].dedupFlag = q[k].dedupFlag
  <2> DEFINE e == [q[k] EXCEPT !.chunkAddr = a]
  <2>1. e \in InQueryEntry /\ SameMark(e, q[k])
    BY <1>2 DEF InQueryEntry, SameMark
  <2>2. inQuery' = [inQuery EXCEPT ![c] = [q EXCEPT ![k] = e]]
    BY <1>5
  <2> HIDE DEF e
  <2> QED
    BY <1>2, <2>1, <2>2, EntryChanged DEF SameMark
<1> QED
  BY <1>3, <1>4, <1>5

(* The steps that leave the batches alone. *)
LEMMA OtherEntries ==
    ASSUME NEW c \in Client,
           \/ StartUpload(c) \/ RecvRecipeEnd(c) \/ Disconnect(c) \/ LockSketch(c)
           \/ LockTopK(c) \/ QueryOutIndex(c) \/ LockHeap(c) \/ HeapSkip(c)
           \/ HeapUpdateFreq(c) \/ HeapAdd(c)
           \/ LastContainer(c) \/ Join(c) \/ WriterCheck(c) \/ WriterPop(c)
    PROVE  inQuery' = inQuery
<1>1. ASSUME HeapUpdateFreq(c) \/ HeapAdd(c) PROVE inQuery' = inQuery
  BY <1>1 DEF HeapUpdateFreq, HeapAdd, HeapTurn, enclave
<1> QED
  BY <1>1, OtherWithin
-----------------------------------------------------------------------------
(* The size of the top-k index.                                             *)
FiniteHeap == IsFiniteSet(DOMAIN topK)

(* A step that does not change which chunks are in the index. *)
LEMMA BoundedSame ==
    ASSUME FiniteHeap, HeapBounded, DOMAIN topK' = DOMAIN topK
    PROVE  FiniteHeap' /\ HeapBounded'
BY DEF FiniteHeap, HeapBounded, TopKSize

(* AddChunkToHeap pops exactly when the index is full, so its size grows by  *)
(* one below the limit and stays at the limit.                              *)
LEMMA HeapAddBounded ==
    ASSUME TypeOK, Shape, FiniteHeap, HeapBounded, NEW c \in Client, HeapAdd(c)
    PROVE  FiniteHeap' /\ HeapBounded'
<1> DEFINE fp == inQuery[c][i[c]].chunkHash
           D == DOMAIN topK
<1>1. PICK popped \in PopChoices :
         DOMAIN topK' = (D \ popped) \cup {fp} /\ fp \notin D
  BY HeapAddIndex
<1>2. /\ IsFiniteSet(D) /\ Cardinality(D) \in Nat /\ Cardinality(D) <= TopThreshold
      /\ TopThreshold \in Nat /\ TopKSize = Cardinality(D)
  BY FS_CardinalityType, UploadAssumption DEF FiniteHeap, HeapBounded, TopKSize
<1>3. CASE TopKSize = TopThreshold
  <2>1. PICK g \in D : popped = {g}
    BY <1>1, <1>3 DEF PopChoices
  <2> HIDE DEF D, fp
  <2>2. IsFiniteSet(D \ {g}) /\ Cardinality(D \ {g}) = Cardinality(D) - 1
    BY <1>2, FS_RemoveElement
  <2>3. fp \notin D \ {g}
    BY <1>1
  <2> DEFINE E == D \ {g}
  <2> HIDE DEF E
  <2>4. IsFiniteSet(E \cup {fp}) /\ Cardinality(E \cup {fp}) = Cardinality(E) + 1
    BY <2>2, <2>3, FS_AddElement DEF E
  <2>5. DOMAIN topK' = E \cup {fp} /\ Cardinality(E) = Cardinality(D) - 1
    BY <1>1, <2>1, <2>2 DEF E
  <2> QED
    BY <1>2, <2>4, <2>5 DEF FiniteHeap, HeapBounded, TopKSize
<1>4. CASE TopKSize # TopThreshold
  <2>1. DOMAIN topK' = D \cup {fp}
    BY <1>1, <1>4 DEF PopChoices
  <2> HIDE DEF D, fp
  <2>2. IsFiniteSet(D \cup {fp}) /\ Cardinality(D \cup {fp}) = Cardinality(D) + 1
    BY <1>1, <1>2, FS_AddElement
  <2> QED
    BY <1>2, <1>4, <2>1, <2>2 DEF FiniteHeap, HeapBounded, TopKSize
<1> QED
  BY <1>3, <1>4

LEMMA NextBounded ==
    ASSUME TypeOK, Shape, FiniteHeap, HeapBounded, [Next]_vars
    PROVE  FiniteHeap' /\ HeapBounded'
<1> USE DEF shared
<1>1. CASE UNCHANGED vars
  BY <1>1, BoundedSame DEF vars
<1>2. ASSUME NEW c \in Client, Receive(c) \/ Shutdown(c) \/ DataWriter(c)
      PROVE  topK' = topK
  <2>1. CASE Receive(c)
    BY <2>1 DEF Receive, StartUpload, RecvBatch, RecvRecipeEnd, Disconnect
  <2>2. CASE Shutdown(c)
    BY <2>2 DEF Shutdown, LastContainer, Join
  <2>3. CASE DataWriter(c)
    BY <2>3 DEF DataWriter, WriterCheck, WriterPop
  <2> QED
    BY <1>2, <2>1, <2>2, <2>3
<1>3. ASSUME NEW c \in Client, Batch(c)
      PROVE  HeapAdd(c) \/ DOMAIN topK' = DOMAIN topK
  <2>1. CASE LockSketch(c) \/ UpdateSketch(c) \/ LockTopK(c) \/ ClassifyLocal(c)
             \/ ClassifyDuplicate(c) \/ ClassifyUnique(c) \/ QueryOutIndex(c)
    BY <2>1 DEF LockSketch, UpdateSketch, LockTopK, ClassifyLocal,
                ClassifyDuplicate, ClassifyUnique, QueryOutIndex
  <2>2. CASE ProcessDuplicate(c) \/ ProcessUnique(c) \/ LockHeap(c) \/ HeapSkip(c)
             \/ UpdateOutIndex(c)
    BY <2>2 DEF ProcessDuplicate, ProcessUnique, LockHeap, HeapSkip, UpdateOutIndex
  <2>3. CASE HeapUpdateFreq(c)
    BY <2>3 DEF HeapUpdateFreq, UpdateInsideIndexFreq
  <2> QED
    BY <1>3, <2>1, <2>2, <2>3 DEF Batch
<1> QED
  BY <1>1, <1>2, <1>3, BoundedSame, HeapAddBounded DEF Next, WaitForClient

(* The top-k index never holds more than topThreshold_ chunks, although      *)
(* AddChunkToHeap compares its size with == and several clients add in       *)
(* turn.                                                                    *)
THEOREM TopKBounded == Spec => []HeapBounded
<1>1. Init => TypeOK /\ Shape /\ FiniteHeap /\ HeapBounded
  <2> SUFFICES ASSUME Init PROVE FiniteHeap /\ HeapBounded
    BY InitTyped
  <2>1. DOMAIN topK = {}
    BY DEF Init
  <2> QED
    BY <2>1, FS_EmptySet, UploadAssumption DEF FiniteHeap, HeapBounded, TopKSize
<1>2. TypeOK /\ Shape /\ FiniteHeap /\ HeapBounded /\ [Next]_vars
        => TypeOK' /\ Shape' /\ FiniteHeap' /\ HeapBounded'
  BY NextTyped, NextBounded
<1> QED
  BY <1>1, <1>2, PTL DEF Spec
-----------------------------------------------------------------------------
(* What the top-k index holds is, or is about to be, in the out-enclave     *)
(* index.                                                                   *)

(* Chunk fp is in the out-enclave index, or a batch that stored it is on    *)
(* its way to put it there.                                                 *)
Backed(fp) ==
    \/ fp \in DOMAIN outIndex
    \/ \E c \in Client : pc[c] \in {"heap", "outUpdate"} /\ fp \in NewEntries(c)

(* HeapBacked, and the same for what a batch found in the top-k index; what *)
(* a query found in the out-enclave index is still there.                   *)
Backing ==
    /\ HeapBacked
    /\ \A c \in Client :
         /\ \A j \in 1..Len(inQuery[c]) :
              inQuery[c][j].dedupFlag = "DUPLICATE" => Backed(inQuery[c][j].chunkHash)
         /\ \A fp \in DOMAIN outQuery[c] :
              outQuery[c][fp].dedupFlag = "DUPLICATE" => fp \in DOMAIN outIndex

LEMMA BackedKept ==
    ASSUME DOMAIN outIndex \subseteq DOMAIN outIndex',
           \A d \in Client : pc[d] \in {"heap", "outUpdate"} =>
               \/ pc'[d] \in {"heap", "outUpdate"} /\ outQuery'[d] = outQuery[d]
               \/ NewEntries(d) \subseteq DOMAIN outIndex',
           NEW fp, Backed(fp)
    PROVE  Backed(fp)'
<1>1. CASE fp \in DOMAIN outIndex
  BY <1>1 DEF Backed
<1>2. ASSUME NEW d \in Client, pc[d] \in {"heap", "outUpdate"}, fp \in NewEntries(d)
      PROVE  Backed(fp)'
  BY <1>2 DEF Backed, NewEntries
<1> QED
  BY <1>1, <1>2 DEF Backed

LEMMA BackingOfOne ==
    ASSUME Backing, NEW c \in Client,
           \A fp : Backed(fp) => Backed(fp)',
           DOMAIN outIndex \subseteq DOMAIN outIndex',
           \A fp \in DOMAIN topK' : fp \in DOMAIN topK \/ Backed(fp)',
           \A d \in Client \ {c} : inQuery'[d] = inQuery[d] /\ outQuery'[d] = outQuery[d],
           \A j \in 1..Len(inQuery'[c]) : inQuery'[c][j].dedupFlag = "DUPLICATE" =>
               Backed(inQuery'[c][j].chunkHash),
           \A fp \in DOMAIN outQuery'[c] : outQuery'[c][fp].dedupFlag = "DUPLICATE" =>
               fp \in DOMAIN outIndex'
    PROVE  Backing'
<1>1. HeapBacked'
  <2>1. \A fp \in DOMAIN topK : Backed(fp)
    BY DEF Backing, HeapBacked, Backed
  <2>2. \A fp \in DOMAIN topK' : Backed(fp)'
    BY <2>1
  <2> QED
    BY <2>2 DEF HeapBacked, Backed
<1>2. ASSUME NEW d \in Client, NEW j \in 1..Len(inQuery'[d]),
             inQuery'[d][j].dedupFlag = "DUPLICATE"
      PROVE  Backed(inQuery[d][j].chunkHash)'
  <2>1. Backed(inQuery'[d][j].chunkHash)
    <3>1. CASE d = c
      BY <1>2, <3>1
    <3>2. CASE d # c
      BY <1>2, <3>2 DEF Backing
    <3> QED
      BY <3>1, <3>2
  <2>2. PICK fp : fp = inQuery'[d][j].chunkHash
    OBVIOUS
  <2>3. Backed(fp)'
    BY <2>1, <2>2
  <2> QED
    BY <2>2, <2>3 DEF Backed
<1>3. ASSUME NEW d \in Client, NEW fp \in DOMAIN outQuery'[d],
             outQuery'[d][fp].dedupFlag = "DUPLICATE"
      PROVE  fp \in DOMAIN outIndex'
  BY <1>3 DEF Backing
<1> QED
  BY <1>1, <1>2, <1>3 DEF Backing

(* Between the two heap locations and the update of the out-enclave index   *)
(* nothing changes what a client is about to add.                           *)
LEMMA OnTheWay ==
    ASSUME TypeOK, NEW c \in Client,
           \/ Receive(c) \/ Shutdown(c) \/ DataWriter(c) \/ Batch(c),
           ~UpdateOutIndex(c)
    PROVE  /\ outIndex' = outIndex
           /\ \A d \in Client : pc[d] \in {"heap", "outUpdate"} =>
                  pc'[d] \in {"heap", "outUpdate"} /\ outQuery'[d] = outQuery[d]
<1> USE DEF shared, outside, Goto, Loop
<1>1. pc \in [Client -> Location] /\ outQuery \in [Client -> Range(outQuery)]
  BY DEF TypeOK, EnclaveType, OutsideType
<1>2. CASE StartUpload(c) \/ RecvRecipeEnd(c) \/ Disconnect(c)
  BY <1>1, <1>2 DEF StartUpload, RecvRecipeEnd, Disconnect
<1>3. CASE \E b \in Batches : RecvBatch(c, b)
  BY <1>1, <1>3 DEF RecvBatch
<1>4. CASE LockSketch(c) \/ UpdateSketch(c) \/ LockTopK(c)
  BY <1>1, <1>4 DEF LockSketch, UpdateSketch, LockTopK
<1>5. CASE ClassifyLocal(c) \/ ClassifyDuplicate(c) \/ ClassifyUnique(c)
  BY <1>1, <1>5 DEF ClassifyLocal, ClassifyDuplicate, ClassifyUnique
<1>6. CASE QueryOutIndex(c)
  BY <1>1, <1>6 DEF QueryOutIndex
<1>7. CASE ProcessDuplicate(c)
  BY <1>1, <1>7 DEF ProcessDuplicate
<1>8. CASE ProcessUnique(c)
  BY <1>1, <1>8 DEF ProcessUnique
<1>9. CASE LockHeap(c)
  BY <1>1, <1>9 DEF LockHeap
<1>10. CASE HeapSkip(c) \/ HeapUpdateFreq(c) \/ HeapAdd(c)
  BY <1>1, <1>10 DEF HeapSkip, HeapUpdateFreq, HeapAdd, HeapTurn
<1>11. CASE Shutdown(c)
  BY <1>1, <1>11 DEF Shutdown, LastContainer, Join
<1>12. CASE DataWriter(c)
  BY <1>1, <1>12 DEF DataWriter, WriterCheck, WriterPop
<1> QED
  BY <1>2, <1>3, <1>4, <1>5, <1>6, <1>7, <1>8, <1>9, <1>10, <1>11, <1>12
     DEF Receive, Batch

(* What an action does to the answers and to the chunks of the top-k index. *)
LEMMA SameAnswers ==
    ASSUME NEW c \in Client,
           \/ Receive(c) \/ Shutdown(c) \/ DataWriter(c)
           \/ LockSketch(c) \/ UpdateSketch(c) \/ LockTopK(c)
           \/ ClassifyLocal(c) \/ ClassifyDuplicate(c) \/ ClassifyUnique(c)
           \/ ProcessDuplicate(c)
           \/ LockHeap(c) \/ HeapSkip(c) \/ HeapUpdateFreq(c)
    PROVE  outQuery' = outQuery /\ DOMAIN topK' = DOMAIN topK
<1> USE DEF shared, outside
<1>1. CASE Receive(c)
  BY <1>1 DEF Receive, StartUpload, RecvRecipeEnd, Disconnect, RecvBatch
<1>2. CASE LockSketch(c) \/ UpdateSketch(c) \/ LockTopK(c)
  BY <1>2 DEF LockSketch, UpdateSketch, LockTopK
<1>3. CASE ClassifyLocal(c) \/ ClassifyDuplicate(c) \/ ClassifyUnique(c)
  BY <1>3 DEF ClassifyLocal, ClassifyDuplicate, ClassifyUnique
<1>4. CASE ProcessDuplicate(c) \/ LockHeap(c)
  BY <1>4 DEF ProcessDuplicate, LockHeap
<1>5. CASE HeapSkip(c) \/ HeapUpdateFreq(c)
  BY <1>5 DEF HeapSkip, HeapUpdateFreq, HeapTurn, UpdateInsideIndexFreq
<1>6. CASE Shutdown(c) \/ DataWriter(c)
  BY <1>6 DEF Shutdown, LastContainer, Join, DataWriter, WriterCheck, WriterPop
<1> QED
  BY <1>1, <1>2, <1>3, <1>4, <1>5, <1>6

(* The fingerprints and flags of the batches after a step: an entry found   *)
(* in the top-k index is one it was before, or one whose chunk the index    *)
(* holds now.                                                               *)
LEMMA DuplicatesFrom ==
    ASSUME TypeOK, Shape, Backing, NEW c \in Client,
           \/ Receive(c) \/ Shutdown(c) \/ DataWriter(c) \/ Batch(c)
    PROVE  /\ \A d \in Client \ {c} : inQuery'[d] = inQuery[d]
           /\ \A j \in 1..Len(inQuery'[c]) : inQuery'[c][j].dedupFlag = "DUPLICATE" =>
                 Backed(inQuery'[c][j].chunkHash)
<1>1. \A j \in 1..Len(inQuery[c]) : inQuery[c][j].dedupFlag = "DUPLICATE" =>
         Backed(inQuery[c][j].chunkHash)
  BY DEF Backing
<1>2. ASSUME UpdateSketch(c) \/ ProcessDuplicate(c) \/ ProcessUnique(c) \/ ClassifyUnique(c)
      PROVE  /\ OnlyEntry(c, i[c])
             /\ \/ inQuery'[c][i[c]].dedupFlag = inQuery[c][i[c]].dedupFlag
                \/ inQuery'[c][i[c]].dedupFlag = "UNIQUE"
  BY <1>2, UpdateSketchEntry, ProcessEntry, ClassifyUniqueEntry
<1>3. CASE UpdateSketch(c) \/ ProcessDuplicate(c) \/ ProcessUnique(c) \/ ClassifyUnique(c)
  BY <1>1, <1>2, <1>3 DEF OnlyEntry
<1>4. CASE ClassifyDuplicate(c)
  <2>1. OnlyEntry(c, i[c]) /\ inQuery[c][i[c]].chunkHash \in DOMAIN topK
    BY <1>4, ClassifyDuplicateEntry
  <2>2. Backed(inQuery[c][i[c]].chunkHash)
    BY <2>1 DEF Backing, HeapBacked, Backed
  <2> QED
    BY <1>1, <2>1, <2>2 DEF OnlyEntry
<1>5. CASE ClassifyLocal(c)
  BY <1>1, <1>5, ClassifyLocalEntry DEF SameMark
<1>6. CASE UpdateOutIndex(c)
  BY <1>6 DEF UpdateOutIndex, TypeOK, EnclaveType
<1>7. ASSUME NEW b \in Batches, RecvBatch(c, b)
      PROVE  /\ \A d \in Client \ {c} : inQuery'[d] = inQuery[d]
             /\ \A j \in 1..Len(inQuery'[c]) : inQuery'[c][j].dedupFlag # "DUPLICATE"
  <2> DEFINE r == [j \in 1..Len(b) |-> [chunkHash |-> b[j], chunkFreq |-> 0,
                      dedupFlag |-> "NONE", chunkAddr |-> NoAddr, ref |-> j]]
  <2>1. inQuery'[c] = r /\ \A d \in Client \ {c} : inQuery'[d] = inQuery[d]
    BY <1>7 DEF RecvBatch, TypeOK, EnclaveType
  <2>2. Len(b) \in Nat
    BY UploadAssumption
  <2>3. Len(r) = Len(b) /\ \A j \in 1..Len(b) : r[j].dedupFlag = "NONE"
    BY <2>2
  <2> HIDE DEF r
  <2> QED
    BY <2>1, <2>3
<1>8. ASSUME inQuery' = inQuery
      PROVE  /\ \A d \in Client \ {c} : inQuery'[d] = inQuery[d]
             /\ \A j \in 1..Len(inQuery'[c]) : inQuery'[c][j].dedupFlag = "DUPLICATE" =>
                   Backed(inQuery'[c][j].chunkHash)
  BY <1>1, <1>8
<1> QED
  BY <1>3, <1>4, <1>5, <1>6, <1>7, <1>8, OtherEntries
     DEF Receive, Shutdown, DataWriter, Batch

LEMMA NextBacking ==
    ASSUME TypeOK, Shape, Backing, [Next]_vars
    PROVE  Backing'
<1>1. CASE UNCHANGED vars
  BY <1>1 DEF vars, shared, enclave, outside, Backing, HeapBacked, Backed, NewEntries
<1>2. ASSUME NEW c \in Client, Receive(c) \/ Shutdown(c) \/ DataWriter(c) \/ Batch(c),
             ~UpdateOutIndex(c)
      PROVE  Backing'
  <2>1. /\ outIndex' = outIndex
        /\ \A d \in Client : pc[d] \in {"heap", "outUpdate"} =>
               pc'[d] \in {"heap", "outUpdate"} /\ outQuery'[d] = outQuery[d]
    BY <1>2, OnTheWay
  <2>2. \A fp : Backed(fp) => Backed(fp)'
    BY <2>1, BackedKept
  <2>3. /\ \A d \in Client \ {c} : inQuery'[d] = inQuery[d]
        /\ \A j \in 1..Len(inQuery'[c]) : inQuery'[c][j].dedupFlag = "DUPLICATE" =>
              Backed(inQuery'[c][j].chunkHash)
    BY <1>2, DuplicatesFrom
  <2>4. \A fp \in DOMAIN outQuery[c] : outQuery[c][fp].dedupFlag = "DUPLICATE" =>
           fp \in DOMAIN outIndex
    BY DEF Backing
  <2>5. CASE QueryOutIndex(c)
    <3> DEFINE oq == [fp \in OutQueryHashes(c) |->
                         IF fp \in DOMAIN outIndex
                         THEN [dedupFlag |-> "DUPLICATE", chunkAddr |-> outIndex[fp]]
                         ELSE [dedupFlag |-> "UNIQUE",    chunkAddr |-> NoAddr]]
    <3>1. topK' = topK /\ outQuery' = [outQuery EXCEPT ![c] = oq]
      BY <2>5 DEF QueryOutIndex, shared
    <3>2. \A fp \in DOMAIN oq : oq[fp].dedupFlag = "DUPLICATE" => fp \in DOMAIN outIndex
      OBVIOUS
    <3> HIDE DEF oq
    <3>3. outQuery'[c] = oq /\ \A d \in Client \ {c} : outQuery'[d] = outQuery[d]
      BY <3>1 DEF TypeOK, OutsideType
    <3> QED
      BY <2>1, <2>2, <2>3, <3>1, <3>2, <3>3, BackingOfOne
  <2>6. CASE ProcessUnique(c)
    <3> DEFINE fq == inQuery[c][i[c]].chunkHash
               oq == outQuery[c]
               a == SaveAddr(c, fq)
    <3>1. topK' = topK /\ outQuery' = [outQuery EXCEPT ![c] = [oq EXCEPT ![fq].chunkAddr = a]]
      BY <2>6 DEF ProcessUnique
    <3>2. PartialFunction(oq, Fp, OutQueryEntry) /\ outQuery \in [Client -> Range(outQuery)]
      BY DEF TypeOK, OutsideType
    <3>3. DOMAIN [oq EXCEPT ![fq].chunkAddr = a] = DOMAIN oq
          /\ \A fp \in DOMAIN oq : [oq EXCEPT ![fq].chunkAddr = a][fp].dedupFlag = oq[fp].dedupFlag
      <4> HIDE DEF oq, fq, a
      <4> QED
        BY <3>2 DEF PartialFunction, OutQueryEntry
    <3>4. /\ outQuery'[c] = [oq EXCEPT ![fq].chunkAddr = a]
          /\ \A d \in Client \ {c} : outQuery'[d] = outQuery[d]
      BY <3>1, <3>2
    <3> HIDE DEF fq, a
    <3>5. \A fp \in DOMAIN outQuery'[c] : outQuery'[c][fp].dedupFlag = "DUPLICATE" =>
             fp \in DOMAIN outIndex
      BY <2>4, <3>3, <3>4
    <3> QED
      BY <2>1, <2>2, <2>3, <3>1, <3>4, <3>5, BackingOfOne
  <2>7. CASE HeapAdd(c)
    <3> DEFINE e == inQuery[c][i[c]]
    <3>1. pc[c] = "heap" /\ pc'[c] \in {"heap", "outUpdate"} /\ UNCHANGED outQuery
      BY <2>7 DEF HeapAdd, HeapTurn, Loop, outside, TypeOK, EnclaveType
    <3>2. e.dedupFlag \in {"UNIQUE", "DUPLICATE"}
      BY <2>7 DEF HeapAdd, Candidate
    <3>3. i[c] \in 1..Len(inQuery[c]) /\ Queried(inQuery[c], outQuery[c], Len(inQuery[c]))
      BY <3>1 DEF Shape, BatchShape, InBatch
    <3>4. Backed(e.chunkHash)
      <4>1. CASE e.dedupFlag = "DUPLICATE"
        BY <3>3, <4>1 DEF Backing
      <4>2. CASE e.dedupFlag = "UNIQUE"
        <5>1. e.chunkHash \in DOMAIN outQuery[c]
          BY <3>3, <4>2 DEF Queried
        <5>2. outQuery[c][e.chunkHash].dedupFlag \in {"UNIQUE", "DUPLICATE"}
          BY <5>1 DEF TypeOK, OutsideType, PartialFunction, OutQueryEntry
        <5> QED
          BY <2>4, <3>1, <5>1, <5>2 DEF Backed, NewEntries
      <4> QED
        BY <3>2, <4>1, <4>2
    <3>5. DOMAIN topK' \subseteq DOMAIN topK \cup {e.chunkHash}
      BY <2>7, HeapAddIndex
    <3> HIDE DEF e
    <3>6. \A fp \in DOMAIN topK' : fp \in DOMAIN topK \/ Backed(fp)'
      BY <2>2, <3>4, <3>5
    <3> QED
      BY <2>1, <2>2, <2>3, <2>4, <3>1, <3>6, BackingOfOne
  <2>8. CASE outQuery' = outQuery /\ DOMAIN topK' = DOMAIN topK
    BY <2>1, <2>2, <2>3, <2>4, <2>8, BackingOfOne
  <2> QED
    BY <1>2, <2>5, <2>6, <2>7, <2>8, SameAnswers DEF Batch
<1>3. ASSUME NEW c \in Client, UpdateOutIndex(c) PROVE Backing'
  <2>1. /\ pc[c] = "outUpdate" /\ \A d \in Client \ {c} : pc'[d] = pc[d]
        /\ \A d \in Client \ {c} : outQuery'[d] = outQuery[d]
        /\ outQuery'[c] = <<>> /\ topK' = topK
        /\ DOMAIN outIndex' = NewEntries(c) \cup DOMAIN outIndex
    BY <1>3 DEF UpdateOutIndex, Goto, TypeOK, EnclaveType, OutsideType
  <2>2. \A d \in Client : pc[d] \in {"heap", "outUpdate"} =>
            \/ pc'[d] \in {"heap", "outUpdate"} /\ outQuery'[d] = outQuery[d]
            \/ NewEntries(d) \subseteq DOMAIN outIndex'
    BY <2>1
  <2>3. \A fp : Backed(fp) => Backed(fp)'
    BY <2>1, <2>2, BackedKept
  <2>4. /\ \A d \in Client \ {c} : inQuery'[d] = inQuery[d]
        /\ \A j \in 1..Len(inQuery'[c]) : inQuery'[c][j].dedupFlag = "DUPLICATE" =>
              Backed(inQuery'[c][j].chunkHash)
    BY <1>3, DuplicatesFrom DEF Batch
  <2> QED
    BY <2>1, <2>3, <2>4, BackingOfOne
<1> QED
  BY <1>1, <1>2, <1>3 DEF Next, WaitForClient

(* Every chunk of the top-k index is in the out-enclave index or about to   *)
(* be put there by the batch that stored it, whatever other clients do      *)
(* between AddChunkToHeap and Ocall_UpdateOutIndex: an entry that Pop       *)
(* evicts can be found again.                                               *)
THEOREM EvictedChunksFound == Spec => []HeapBacked
<1>1. Init => TypeOK /\ Shape /\ Backing
  <2> SUFFICES ASSUME Init PROVE Backing
    BY InitTyped
  <2>1. /\ DOMAIN topK = {}
        /\ \A c \in Client : inQuery[c] = <<>> /\ outQuery[c] = <<>>
    BY DEF Init
  <2> QED
    BY <2>1 DEF Backing, HeapBacked
<1>2. TypeOK /\ Shape /\ Backing /\ [Next]_vars => TypeOK' /\ Shape' /\ Backing'
  BY NextTyped, NextBacking
<1>3. Backing => HeapBacked
  BY DEF Backing
<1> QED
  BY <1>1, <1>2, <1>3, PTL DEF Spec
-----------------------------------------------------------------------------
(* The shortcut of the lookup: a chunk less frequent than the least         *)
(* frequent one in the heap is not looked up.  Only a build for one client  *)
(* justifies it.                                                            *)

(* How many entries of the batch carry the frequency of this batch, up to   *)
(* the end of the lookup.                                                   *)
Counted(p, k, q) == IF p = "sketch" THEN k - 1
                    ELSE IF p \in {"lockTopK", "topK"} THEN Len(q) ELSE 0

(* The lookup compares with a lower bound of the frequencies in the heap,   *)
(* and the heap is behind the batch on every chunk of the batch.            *)
Fresh(p, k, q, mf, heap) ==
    /\ p = "topK" => \A fp \in DOMAIN heap : mf <= heap[fp].chunkFreq
    /\ \A j \in 1..Counted(p, k, q) :
          q[j].chunkHash \in DOMAIN heap =>
              heap[q[j].chunkHash].chunkFreq <= q[j].chunkFreq

AllFresh == \A c \in Client : Fresh(pc[c], i[c], inQuery[c], minFreq[c], topK)

LEMMA OutsideLookup ==
    ASSUME NEW p, p \notin {"sketch", "lockTopK", "topK"},
           NEW k, NEW q, NEW mf, NEW heap
    PROVE  Fresh(p, k, q, mf, heap)
BY DEF Fresh, Counted

LEMMA UpdateSketchFresh ==
    ASSUME TypeOK, Shape, HeapWithinEstimate, NEW c \in Client, UpdateSketch(c),
           Fresh(pc[c], i[c], inQuery[c], minFreq[c], topK)
    PROVE  Fresh(pc'[c], i'[c], inQuery'[c], minFreq'[c], topK')
<1> DEFINE q == inQuery[c]
           k == i[c]
           h == q[k].chunkHash
<1>1. /\ Loop(c, "sketch", "lockTopK") /\ topK' = topK /\ sketch' = Update(sketch, h)
  BY DEF UpdateSketch
<1>2. /\ pc[c] = "sketch" /\ k \in 1..Len(q) /\ Len(q) \in Nat /\ q \in Seq(InQueryEntry)
      /\ \/ k = Len(q) /\ pc'[c] = "lockTopK"
         \/ pc'[c] = "sketch" /\ i'[c] = k + 1
  BY <1>1, LoopTurn DEF InLoop, Location
<1>3. h \in Fp
  <2>1. q[k] \in InQueryEntry
    BY <1>2, ElementOfSeq
  <2> QED
    BY <2>1 DEF InQueryEntry
<1>4. OnlyEntry(c, k) /\ inQuery'[c][k].chunkFreq = Estimate(sketch', h)
  BY UpdateSketchEntry
<1>5. ASSUME h \in DOMAIN topK PROVE topK[h].chunkFreq <= Estimate(sketch', h)
  <2>1. sketch \in Sketch /\ topK[h].chunkFreq \in Nat
    BY <1>5 DEF TypeOK, SharedType, PartialFunction, HeapItem
  <2>2. Estimate(sketch, h) \in Nat /\ Estimate(sketch', h) \in Nat
    BY <1>1, <1>3, <2>1, EstimateIsMin, UpdateCounters
  <2>3. Estimate(sketch, h) <= Estimate(sketch', h)
    BY <1>1, <1>3, <2>1, EstimateMonotone
  <2>4. topK[h].chunkFreq <= Estimate(sketch, h)
    BY <1>5 DEF HeapWithinEstimate
  <2> QED
    BY <2>1, <2>2, <2>3, <2>4
<1>6. Counted(pc'[c], i'[c], inQuery'[c]) = k
  BY <1>2, <1>4 DEF Counted, OnlyEntry
<1>7. ASSUME NEW j \in 1..k, inQuery'[c][j].chunkHash \in DOMAIN topK
      PROVE  topK[inQuery'[c][j].chunkHash].chunkFreq <= inQuery'[c][j].chunkFreq
  <2>1. CASE j = k
    BY <1>4, <1>5, <1>7, <2>1 DEF OnlyEntry
  <2>2. CASE j # k
    <3>1. j \in 1..(k - 1) /\ j \in 1..Len(q)
      BY <1>2, <2>2
    <3>2. inQuery'[c][j] = q[j]
      BY <1>4, <2>2, <3>1 DEF OnlyEntry
    <3>3. q[j].chunkHash \in DOMAIN topK => topK[q[j].chunkHash].chunkFreq <= q[j].chunkFreq
      BY <1>2, <3>1 DEF Fresh, Counted
    <3> QED
      BY <1>7, <3>2, <3>3
  <2> QED
    BY <2>1, <2>2
<1> QED
  BY <1>1, <1>2, <1>6, <1>7 DEF Fresh

LEMMA LockTopKFresh ==
    ASSUME TypeOK, NEW c \in Client, LockTopK(c),
           Fresh(pc[c], i[c], inQuery[c], minFreq[c], topK)
    PROVE  Fresh(pc'[c], i'[c], inQuery'[c], minFreq'[c], topK')
<1>1. /\ pc[c] = "lockTopK" /\ pc'[c] = "topK" /\ topK' = topK /\ i' = i /\ inQuery' = inQuery
      /\ minFreq'[c] = IF TopKSize = TopThreshold THEN TopEntry ELSE 0
  BY DEF LockTopK, Goto, TypeOK, EnclaveType
<1>2. ASSUME NEW fp \in DOMAIN topK PROVE minFreq'[c] <= topK[fp].chunkFreq
  <2>1. topK[fp].chunkFreq \in Nat
    BY DEF TypeOK, SharedType, PartialFunction, HeapItem
  <2> QED
    BY <1>1, <2>1, TopEntryIsMin
<1> QED
  BY <1>1, <1>2 DEF Fresh, Counted

LEMMA ClassifyFresh ==
    ASSUME TypeOK, Shape, NEW c \in Client,
           ClassifyLocal(c) \/ ClassifyDuplicate(c) \/ ClassifyUnique(c),
           Fresh(pc[c], i[c], inQuery[c], minFreq[c], topK)
    PROVE  Fresh(pc'[c], i'[c], inQuery'[c], minFreq'[c], topK')
<1> DEFINE q == inQuery[c]
           k == i[c]
<1>1. Loop(c, "topK", "query") /\ topK' = topK /\ minFreq' = minFreq
  BY DEF ClassifyLocal, ClassifyDuplicate, ClassifyUnique
<1>2. pc[c] = "topK" /\ k \in 1..Len(q) /\ pc'[c] \in {"topK", "query"}
  BY <1>1, LoopTurn DEF InLoop, Location
<1>3. \A j \in 1..Len(q) : q[j].chunkHash \in DOMAIN topK =>
         topK[q[j].chunkHash].chunkFreq <= q[j].chunkFreq
  BY <1>2 DEF Fresh, Counted
<1>4. Len(inQuery'[c]) = Len(q) /\ \A j \in 1..Len(q) :
         /\ inQuery'[c][j].chunkHash = q[j].chunkHash
         /\ \/ inQuery'[c][j].chunkFreq = q[j].chunkFreq
            \/ /\ inQuery'[c][j].chunkFreq = q[k].chunkFreq
               /\ q[j].chunkHash = q[k].chunkHash
  <2>1. CASE ClassifyLocal(c)
    BY <2>1, ClassifyLocalEntry DEF SameMark
  <2>2. CASE ClassifyDuplicate(c) \/ ClassifyUnique(c)
    <3>1. OnlyEntry(c, k) /\ inQuery'[c][k].chunkFreq = q[k].chunkFreq
      BY <2>2, ClassifyDuplicateEntry, ClassifyUniqueEntry
    <3> QED
      BY <3>1 DEF OnlyEntry
  <2> QED
    BY <2>1, <2>2
<1> HIDE DEF q, k
<1>5. \A j \in 1..Len(q) : inQuery'[c][j].chunkHash \in DOMAIN topK =>
         topK[inQuery'[c][j].chunkHash].chunkFreq <= inQuery'[c][j].chunkFreq
  BY <1>2, <1>3, <1>4
<1>6. CASE pc'[c] = "topK"
  BY <1>1, <1>2, <1>4, <1>5, <1>6 DEF Fresh, Counted
<1>7. CASE pc'[c] = "query"
  BY <1>7, OutsideLookup
<1> QED
  BY <1>2, <1>6, <1>7

LEMMA NextFresh ==
    ASSUME ~MULTI_CLIENT, TypeOK, Shape, HeapWithinEstimate, AllFresh, [Next]_vars
    PROVE  AllFresh'
<1> USE DEF shared, enclave, Goto, Loop
<1>1. CASE UNCHANGED vars
  BY <1>1 DEF vars, AllFresh
<1>2. ASSUME NEW c \in Client, Receive(c) \/ Batch(c) \/ Shutdown(c) \/ DataWriter(c)
      PROVE  Fresh(pc'[c], i'[c], inQuery'[c], minFreq'[c], topK')
  <2>1. /\ pc \in [Client -> Location]
        /\ Fresh(pc[c], i[c], inQuery[c], minFreq[c], topK)
    BY DEF TypeOK, EnclaveType, AllFresh
  <2>2. CASE Receive(c) \/ Shutdown(c)
    <3>1. pc'[c] \notin {"sketch", "lockTopK", "topK"}
      BY <2>1, <2>2 DEF Receive, StartUpload, RecvRecipeEnd, Disconnect, RecvBatch,
                        Shutdown, LastContainer, Join
    <3> QED
      BY <3>1, OutsideLookup
  <2>3. CASE DataWriter(c)
    BY <2>1, <2>3 DEF DataWriter, WriterCheck, WriterPop
  <2>4. CASE LockSketch(c)
    <3>1. pc'[c] = "sketch" /\ i'[c] = 1
      BY <2>1, <2>4 DEF LockSketch, Shape, BatchShape, InLoop
    <3> QED
      BY <3>1 DEF Fresh, Counted
  <2>5. CASE UpdateSketch(c)
    BY <2>1, <2>5, UpdateSketchFresh
  <2>6. CASE LockTopK(c)
    BY <2>1, <2>6, LockTopKFresh
  <2>7. CASE ClassifyLocal(c) \/ ClassifyDuplicate(c) \/ ClassifyUnique(c)
    BY <2>1, <2>7, ClassifyFresh
  <2>8. CASE QueryOutIndex(c) \/ ProcessDuplicate(c) \/ ProcessUnique(c)
    <3>1. pc'[c] \notin {"sketch", "lockTopK", "topK"}
      BY <2>1, <2>8 DEF QueryOutIndex, ProcessDuplicate, ProcessUnique
    <3> QED
      BY <3>1, OutsideLookup
  <2>9. CASE LockHeap(c) \/ HeapSkip(c) \/ HeapUpdateFreq(c) \/ HeapAdd(c) \/ UpdateOutIndex(c)
    <3>1. pc'[c] \notin {"sketch", "lockTopK", "topK"}
      BY <2>1, <2>9 DEF LockHeap, HeapSkip, HeapUpdateFreq, HeapAdd, HeapTurn, UpdateOutIndex
    <3> QED
      BY <3>1, OutsideLookup
  <2> QED
    BY <1>2, <2>2, <2>3, <2>4, <2>5, <2>6, <2>7, <2>8, <2>9 DEF Batch
<1>3. \A c, d \in Client : c = d
  BY UploadAssumption
<1> QED
  BY <1>1, <1>2, <1>3 DEF Next, WaitForClient, AllFresh

(* With one client, skipping the lookup is safe, as the comment in          *)
(* ProcessOneBatch says: "its frequency is smaller than the minimum value   *)
(* in the heap, must not exist in the heap".                                *)
THEOREM LookupSkipSafe ==
    ASSUME ~MULTI_CLIENT
    PROVE  Spec => []LowFreqNotInHeap
<1> DEFINE Inv == TypeOK /\ Shape /\ HeapWithinEstimate /\ NeverUnderestimates /\ AllFresh
<1>1. Init => Inv
  <2> SUFFICES ASSUME Init PROVE AllFresh
    BY InitTyped, InitWithin
  <2>1. \A c \in Client : pc[c] = "idle"
    BY DEF Init
  <2> QED
    BY <2>1, OutsideLookup DEF AllFresh
<1>2. Inv /\ [Next]_vars => Inv'
  BY NextTyped, NextWithin, NextFresh
<1>3. Inv => LowFreqNotInHeap
  <2> SUFFICES ASSUME Inv, NEW c \in Client, pc[c] = "topK",
                      inQuery[c][i[c]].chunkFreq < minFreq[c],
                      inQuery[c][i[c]].chunkHash \in DOMAIN topK
               PROVE  FALSE
    BY DEF LowFreqNotInHeap
  <2> DEFINE e == inQuery[c][i[c]]
  <2>1. i[c] \in 1..Len(inQuery[c]) /\ inQuery[c] \in Seq(InQueryEntry)
    BY DEF Shape, BatchShape, InBatch, TypeOK, EnclaveType
  <2>2. e.chunkFreq \in Nat
    <3>1. e \in InQueryEntry
      BY <2>1, ElementOfSeq
    <3> QED
      BY <3>1 DEF InQueryEntry
  <2>3. topK[e.chunkHash].chunkFreq \in Nat /\ minFreq[c] \in Nat
    BY DEF TypeOK, SharedType, EnclaveType, PartialFunction, HeapItem
  <2>4. /\ minFreq[c] <= topK[e.chunkHash].chunkFreq
        /\ topK[e.chunkHash].chunkFreq <= e.chunkFreq
    BY <2>1 DEF AllFresh, Fresh, Counted
  <2> QED
    BY <2>2, <2>3, <2>4
<1> HIDE DEF Inv
<1> QED
  BY <1>1, <1>2, <1>3, PTL DEF Spec
-----------------------------------------------------------------------------
(* What is stored.                                                          *)

(* The thread is between the start of a session and its recipe end: the     *)
(* container inside the enclave is the current one.                         *)
Open == InBatch \cup {"recv"}

(* Slots inside the container and disjoint; all of them below size. *)
Packed(b) ==
    \A s \in b :
        /\ s[1] + ChunkLen[s[2]] + BlockSize <= MaxContainerSize
        /\ \A t \in b \ {s} :
              \/ s[1] + ChunkLen[s[2]] + BlockSize <= t[1]
              \/ t[1] + ChunkLen[t[2]] + BlockSize <= s[1]
Below(b, size) == \A s \in b : s[1] + ChunkLen[s[2]] + BlockSize <= size

(* The queue between the two threads of a session: used only without        *)
(* MULTI_CLIENT, and empty once the writer has left.                        *)
QueueShape(p, mq, dn, w) ==
    /\ MULTI_CLIENT => mq = <<>>
    /\ ~MULTI_CLIENT /\ w = "off" => mq = <<>> /\ p \in {"idle", "join"}
    /\ w = "lastPop" => dn /\ mq = <<>>
    /\ dn => p \in {"idle", "join"}
    /\ p = "idle" => mq = <<>>

(* The containers of client c: the current one has the last ID drawn and is *)
(* empty outside the enclave except between the recipe end and its last     *)
(* write; the queued ones have earlier IDs.                                 *)
StoreShape(c, p, u, mq, k, b) ==
    /\ k.containerID = <<c, u>>
    /\ p \notin {"ended", "last"} => k.currentSize = 0
    /\ Packed(k.body)
    /\ Packed(b.buf) /\ Below(b.buf, b.curSize)
    /\ \A j \in 1..Len(mq) : /\ \E m \in 0..(u - 1) : mq[j].containerID = <<c, m>>
                             /\ Packed(mq[j].body)

Storage ==
    /\ \A c \in Client : /\ QueueShape(pc[c], inputMQ[c], done[c], writer[c])
                         /\ StoreShape(c, pc[c], uuid[c], inputMQ[c], curContainer[c],
                                       inContainer[c])
    /\ \A d \in Client : \A m \in Nat : <<d, m>> \in DOMAIN containers =>
          m < uuid[d] /\ Packed(containers[<<d, m>>])

(* Chunk fp is at offset o of every copy of container m of client d, and    *)
(* there is a copy as long as no upload was cut short.                      *)
At(d, m, o, fp) ==
    /\ m <= uuid[d]
    /\ <<d, m>> \in DOMAIN containers => <<o, fp>> \in containers[<<d, m>>]
    /\ \A j \in 1..Len(inputMQ[d]) :
          inputMQ[d][j].containerID = <<d, m>> => <<o, fp>> \in inputMQ[d][j].body
    /\ m = uuid[d] /\ pc[d] \in Open => <<o, fp>> \in inContainer[d].buf
    /\ m = uuid[d] /\ curContainer[d].currentSize # 0 => <<o, fp>> \in curContainer[d].body
    /\ aborts = 0 => \/ <<d, m>> \in DOMAIN containers
                     \/ \E j \in 1..Len(inputMQ[d]) : inputMQ[d][j].containerID = <<d, m>>
                     \/ m = uuid[d] /\ (pc[d] \in Open \/ curContainer[d].currentSize # 0)

Good(a, fp) == At(a.containerName[1], a.containerName[2], a.offset, fp)

(* The server holds address a for chunk fp: in the top-k index, the         *)
(* out-enclave index, the batch of a client, the answers to its query, or   *)
(* its recipe at a place where the client sent fp.                          *)
IndexHas(f, a, fp)  == fp \in DOMAIN f /\ f[fp] = a
TopKHas(f, a, fp)   == fp \in DOMAIN f /\ f[fp].address = a
BatchHas(q, a, fp)  == \E j \in 1..Len(q) : q[j].chunkHash = fp /\ q[j].chunkAddr = a
AnswerHas(oq, a, fp) == fp \in DOMAIN oq /\ oq[fp].chunkAddr = a
ListHas(l, f, a, fp) == \E j \in 1..Len(l) : l[j] = a /\ f[j] = fp

Held(a, fp) ==
    \/ TopKHas(topK, a, fp)
    \/ IndexHas(outIndex, a, fp)
    \/ \E c \in Client : \/ BatchHas(inQuery[c], a, fp)
                         \/ AnswerHas(outQuery[c], a, fp)
                         \/ ListHas(Entries(c), file[c], a, fp)

Known == \A a \in Addr : \A fp \in Fp : Held(a, fp) => Good(a, fp)

(* How many entries of the batch have their recipe entry. *)
Processed(p, k, q) == IF p = "proc" THEN k - 1
                      ELSE IF p \in {"lockHeap", "heap", "outUpdate"} THEN Len(q) ELSE 0

(* A recipe of len entries is as long as what the client sent up to the     *)
(* entry being processed; the batch is the end of what it sent.             *)
Lined(p, k, q, len, f) ==
    /\ len <= Len(f)
    /\ p \in Open \cup {"ended"} =>
          /\ Len(f) = (len - Processed(p, k, q)) + Len(q)
          /\ \A j \in 1..Len(q) : f[(len - Processed(p, k, q)) + j] = q[j].chunkHash

(* A recipe with its final head is complete. *)
Sealed(p, rec, buffer, f) ==
    rec.head = "final" => /\ p \notin Open /\ buffer = <<>>
                          /\ Len(rec.entryList) = Len(f)

Aligned ==
    \A c \in Client : /\ Lined(pc[c], i[c], inQuery[c], Len(Entries(c)), file[c])
                      /\ Sealed(pc[c], recipes[c], inRecipe[c], file[c])
-----------------------------------------------------------------------------
(* Where containers are.                                                    *)

(* Every chunk stays where it is, in a container that may move. *)
Kept == \A d \in Client : \A m, o \in Nat : \A fp \in Fp :
            At(d, m, o, fp) => At(d, m, o, fp)'

LEMMA GoodKept ==
    ASSUME Kept, NEW a \in Addr, NEW fp \in Fp, Good(a, fp)
    PROVE  Good(a, fp)'
<1>1. a.containerName[1] \in Client /\ a.containerName[2] \in Nat /\ a.offset \in Nat
  BY DEF Addr, ContainerID
<1>2. PICK d \in Client, m \in Nat, o \in Nat :
         d = a.containerName[1] /\ m = a.containerName[2] /\ o = a.offset
  BY <1>1
<1>3. At(d, m, o, fp)
  BY <1>2 DEF Good
<1>4. At(d, m, o, fp)'
  BY <1>3 DEF Kept
<1> QED
  BY <1>2, <1>4 DEF Good

(* The types the lemmas below need. *)
LEMMA StoreTypes ==
    ASSUME TypeOK
    PROVE  /\ pc \in [Client -> Location]
           /\ inContainer \in [Client -> [buf : SUBSET Slot, curSize : Nat]]
           /\ curContainer \in [Client -> Container]
           /\ inputMQ \in [Client -> Seq(Container)]
           /\ done \in [Client -> BOOLEAN]
           /\ writer \in [Client -> {"off", "check", "pop", "lastPop"}]
           /\ uuid \in [Client -> Nat] /\ aborts \in Nat
           /\ containers \in [DOMAIN containers -> SUBSET Slot]
           /\ DOMAIN containers \subseteq ContainerID
BY DEF TypeOK, SharedType, EnclaveType, OutsideType, HistoryType, PartialFunction

(* A step of client c, its own containers and the files being as required. *)
LEMMA StorageOfOne ==
    ASSUME Storage, NEW c \in Client,
           \A d \in Client \ {c} : /\ pc'[d] = pc[d] /\ uuid'[d] = uuid[d]
                                   /\ inputMQ'[d] = inputMQ[d]
                                   /\ curContainer'[d] = curContainer[d]
                                   /\ inContainer'[d] = inContainer[d]
                                   /\ done'[d] = done[d] /\ writer'[d] = writer[d],
           QueueShape(pc'[c], inputMQ'[c], done'[c], writer'[c]),
           StoreShape(c, pc'[c], uuid'[c], inputMQ'[c], curContainer'[c], inContainer'[c]),
           \A d \in Client : \A m \in Nat : <<d, m>> \in DOMAIN containers' =>
               m < uuid'[d] /\ Packed(containers'[<<d, m>>])
    PROVE  Storage'
<1>1. ASSUME NEW d \in Client
      PROVE  /\ QueueShape(pc'[d], inputMQ'[d], done'[d], writer'[d])
             /\ StoreShape(d, pc'[d], uuid'[d], inputMQ'[d], curContainer'[d], inContainer'[d])
  <2>1. CASE d = c
    BY <2>1
  <2>2. CASE d # c
    <3>1. /\ QueueShape(pc[d], inputMQ[d], done[d], writer[d])
          /\ StoreShape(d, pc[d], uuid[d], inputMQ[d], curContainer[d], inContainer[d])
      BY DEF Storage
    <3> QED
      BY <2>2, <3>1
  <2> QED
    BY <2>1, <2>2
<1> QED
  BY <1>1 DEF Storage

(* A step of a session in progress that neither stores nor moves anything. *)
LEMMA QuietStep ==
    ASSUME TypeOK, Storage, NEW c \in Client, pc[c] \in Open, pc'[c] \in Open,
           \A d \in Client \ {c} : pc'[d] = pc[d],
           UNCHANGED <<containers, inputMQ, curContainer, inContainer, uuid, done,
                       writer, aborts>>
    PROVE  Storage' /\ Kept
<1> USE StoreTypes
<1>1. QueueShape(pc[c], inputMQ[c], done[c], writer[c])
  BY DEF Storage
<1>2. QueueShape(pc'[c], inputMQ'[c], done'[c], writer'[c])
  BY <1>1 DEF QueueShape, Open, InBatch
<1>3. StoreShape(c, pc[c], uuid[c], inputMQ[c], curContainer[c], inContainer[c])
  BY DEF Storage
<1>4. StoreShape(c, pc'[c], uuid'[c], inputMQ'[c], curContainer'[c], inContainer'[c])
  <2>1. curContainer[c].currentSize = 0
    BY <1>3 DEF StoreShape, Open, InBatch
  <2> QED
    BY <1>3, <2>1 DEF StoreShape
<1>5. Storage'
  BY <1>2, <1>4, StorageOfOne DEF Storage
<1>6. \A d \in Client : pc'[d] \in Open <=> pc[d] \in Open
  OBVIOUS
<1>7. Kept
  <2> SUFFICES ASSUME NEW d \in Client, NEW m \in Nat, NEW o \in Nat, NEW fp \in Fp,
                      At(d, m, o, fp)
               PROVE  At(d, m, o, fp)'
    BY DEF Kept
  <2>1. pc'[d] \in Open <=> pc[d] \in Open
    BY <1>6
  <2> QED
    BY <2>1 DEF At
<1> QED
  BY <1>5, <1>7

(* Ocall_WriteContainer: the container k with the current ID goes to a file *)
(* or to the end of the queue, nothing else moves, and the next ID is       *)
(* drawn.                                                                   *)
Written(c, k) ==
    /\ uuid'[c] = uuid[c] + 1
    /\ curContainer'[c] = [containerID |-> <<c, uuid[c] + 1>>, body |-> {}, currentSize |-> 0]
    /\ \A d \in Client \ {c} : /\ uuid'[d] = uuid[d] /\ inputMQ'[d] = inputMQ[d]
                               /\ curContainer'[d] = curContainer[d]
    /\ \A d \in Client : \A m \in Nat : <<d, m>> # <<c, uuid[c]>> =>
          /\ <<d, m>> \in DOMAIN containers' <=> <<d, m>> \in DOMAIN containers
          /\ <<d, m>> \in DOMAIN containers => containers'[<<d, m>>] = containers[<<d, m>>]
    /\ <<c, uuid[c]>> \in DOMAIN containers' => containers'[<<c, uuid[c]>>] = k.body
    /\ \A j \in 1..Len(inputMQ[c]) :
          j \in 1..Len(inputMQ'[c]) /\ inputMQ'[c][j] = inputMQ[c][j]
    /\ \A j \in 1..Len(inputMQ'[c]) :
          \/ inputMQ'[c][j] = k
          \/ j \in 1..Len(inputMQ[c]) /\ inputMQ'[c][j] = inputMQ[c][j]
    /\ \/ <<c, uuid[c]>> \in DOMAIN containers'
       \/ \E j \in 1..Len(inputMQ'[c]) : inputMQ'[c][j] = k
    /\ MULTI_CLIENT => inputMQ'[c] = inputMQ[c]

LEMMA WriteEffect ==
    ASSUME TypeOK, Storage, NEW c \in Client, NEW k \in Container,
           k.containerID = <<c, uuid[c]>>, WriteContainer(c, k)
    PROVE  Written(c, k)
<1> USE StoreTypes
<1> DEFINE n == <<c, uuid[c]>>
<1>1. /\ uuid' = [uuid EXCEPT ![c] = @ + 1]
      /\ curContainer' = [curContainer EXCEPT ![c] =
             [containerID |-> CreateUUID(c), body |-> {}, currentSize |-> 0]]
  BY DEF WriteContainer
<1>2. /\ uuid'[c] = uuid[c] + 1
      /\ curContainer'[c] = [containerID |-> <<c, uuid[c] + 1>>, body |-> {}, currentSize |-> 0]
      /\ \A d \in Client \ {c} : uuid'[d] = uuid[d] /\ curContainer'[d] = curContainer[d]
  BY <1>1 DEF CreateUUID
<1>3. n \notin DOMAIN containers
  BY DEF Storage
<1>4. k.body \in SUBSET Slot
  BY DEF Container
<1>5. CASE MULTI_CLIENT
  <2>1. containers' = Put(containers, n, k.body) /\ inputMQ' = inputMQ
    BY <1>5 DEF WriteContainer
  <2> HIDE DEF n
  <2>2. /\ containers' \in [DOMAIN containers \cup {n} -> SUBSET Slot]
        /\ containers'[n] = k.body
        /\ \A x \in DOMAIN containers \ {n} : containers'[x] = containers[x]
    <3>1. containers \in [DOMAIN containers -> SUBSET Slot]
      OBVIOUS
    <3>2. /\ Put(containers, n, k.body) \in [DOMAIN containers \cup {n} -> SUBSET Slot]
          /\ Put(containers, n, k.body)[n] = k.body
          /\ \A x \in DOMAIN containers \ {n} : Put(containers, n, k.body)[x] = containers[x]
      BY <1>4, <3>1 DEF Put
    <3> QED
      BY <2>1, <3>2
  <2>3. DOMAIN containers' = DOMAIN containers \cup {n}
    BY <2>2
  <2>4. \A d \in Client : \A m \in Nat : <<d, m>> # n =>
           /\ <<d, m>> \in DOMAIN containers' <=> <<d, m>> \in DOMAIN containers
           /\ <<d, m>> \in DOMAIN containers => containers'[<<d, m>>] = containers[<<d, m>>]
    BY <2>2, <2>3
  <2>5. n \in DOMAIN containers'
    BY <2>3
  <2> QED
    BY <1>2, <2>1, <2>2, <2>4, <2>5 DEF n, Written
<1>6. CASE ~MULTI_CLIENT
  <2>1. inputMQ' = [inputMQ EXCEPT ![c] = Append(@, k)] /\ containers' = containers
    BY <1>6 DEF WriteContainer
  <2>2. inputMQ'[c] = Append(inputMQ[c], k) /\ \A d \in Client \ {c} : inputMQ'[d] = inputMQ[d]
    BY <2>1
  <2>3. inputMQ[c] \in Seq(Container) /\ Len(inputMQ[c]) \in Nat
    OBVIOUS
  <2>4. /\ Len(inputMQ'[c]) = Len(inputMQ[c]) + 1
        /\ \A j \in 1..Len(inputMQ[c]) : inputMQ'[c][j] = inputMQ[c][j]
        /\ inputMQ'[c][Len(inputMQ[c]) + 1] = k
    BY <2>2, <2>3, AppendProperties
  <2>5. \A j \in 1..Len(inputMQ[c]) :
           j \in 1..Len(inputMQ'[c]) /\ inputMQ'[c][j] = inputMQ[c][j]
    BY <2>3, <2>4
  <2>6. \A j \in 1..Len(inputMQ'[c]) :
           \/ inputMQ'[c][j] = k
           \/ j \in 1..Len(inputMQ[c]) /\ inputMQ'[c][j] = inputMQ[c][j]
    BY <2>3, <2>4
  <2>7. \E j \in 1..Len(inputMQ'[c]) : inputMQ'[c][j] = k
    <3>1. Len(inputMQ[c]) + 1 \in 1..Len(inputMQ'[c])
      BY <2>3, <2>4
    <3> QED
      BY <2>4, <3>1
  <2> QED
    BY <1>2, <1>3, <1>6, <2>1, <2>2, <2>5, <2>6, <2>7 DEF Written
<1> QED
  BY <1>5, <1>6

(* After the write the files and the queue are as Storage wants them. *)
LEMMA WriteStorage ==
    ASSUME TypeOK, Storage, NEW c \in Client, NEW k \in Container,
           k.containerID = <<c, uuid[c]>>, Packed(k.body), WriteContainer(c, k)
    PROVE  /\ \A j \in 1..Len(inputMQ'[c]) :
                 /\ \E m \in 0..(uuid'[c] - 1) : inputMQ'[c][j].containerID = <<c, m>>
                 /\ Packed(inputMQ'[c][j].body)
           /\ \A d \in Client : \A m \in Nat : <<d, m>> \in DOMAIN containers' =>
                 m < uuid'[d] /\ Packed(containers'[<<d, m>>])
<1> USE StoreTypes
<1>0. Written(c, k)
  BY WriteEffect
<1>1. StoreShape(c, pc[c], uuid[c], inputMQ[c], curContainer[c], inContainer[c])
  BY DEF Storage
<1>2. uuid[c] \in Nat /\ uuid'[c] = uuid[c] + 1
  BY <1>0 DEF Written
<1>3. ASSUME NEW j \in 1..Len(inputMQ'[c])
      PROVE  /\ \E m \in 0..(uuid'[c] - 1) : inputMQ'[c][j].containerID = <<c, m>>
             /\ Packed(inputMQ'[c][j].body)
  <2>1. CASE inputMQ'[c][j] = k
    <3>1. uuid[c] \in 0..(uuid'[c] - 1)
      BY <1>2
    <3> QED
      BY <2>1, <3>1
  <2>2. CASE j \in 1..Len(inputMQ[c]) /\ inputMQ'[c][j] = inputMQ[c][j]
    <3>1. PICK m \in 0..(uuid[c] - 1) : inputMQ[c][j].containerID = <<c, m>>
      BY <1>1, <2>2 DEF StoreShape
    <3>2. m \in 0..(uuid'[c] - 1)
      BY <1>2
    <3> QED
      BY <1>1, <2>2, <3>1, <3>2 DEF StoreShape
  <2> QED
    BY <2>1, <2>2, <1>0 DEF Written
<1>4. ASSUME NEW d \in Client, NEW m \in Nat, <<d, m>> \in DOMAIN containers'
      PROVE  m < uuid'[d] /\ Packed(containers'[<<d, m>>])
  <2>1. CASE <<d, m>> = <<c, uuid[c]>>
    <3>1. d = c /\ m = uuid[c]
      BY <2>1
    <3> QED
      BY <1>2, <1>4, <3>1, <1>0 DEF Written
  <2>2. CASE <<d, m>> # <<c, uuid[c]>>
    <3>1. /\ <<d, m>> \in DOMAIN containers
          /\ containers'[<<d, m>>] = containers[<<d, m>>]
      BY <1>4, <2>2, <1>0 DEF Written
    <3>2. m < uuid[d] /\ Packed(containers[<<d, m>>])
      BY <3>1 DEF Storage
    <3>3. uuid[d] \in Nat /\ uuid'[d] >= uuid[d]
      <4>1. d # c => uuid'[d] = uuid[d]
        BY <1>0 DEF Written
      <4> QED
        BY <1>2, <4>1
    <3>4. uuid'[d] \in Nat
      <4>1. d # c => uuid'[d] = uuid[d]
        BY <1>0 DEF Written
      <4> QED
        BY <1>2, <4>1
    <3> QED
      BY <3>1, <3>2, <3>3, <3>4
  <2> QED
    BY <2>1, <2>2
<1> QED
  BY <1>3, <1>4

(* A write keeps every chunk of the container it writes. *)
LEMMA WriteKeeps ==
    ASSUME TypeOK, Storage, NEW c \in Client, NEW k \in Container,
           k.containerID = <<c, uuid[c]>>, WriteContainer(c, k),
           \A o \in Nat : \A fp \in Fp : At(c, uuid[c], o, fp) => <<o, fp>> \in k.body,
           \A d \in Client \ {c} : pc'[d] = pc[d] /\ inContainer'[d] = inContainer[d],
           aborts' = aborts
    PROVE  Kept
<1> USE StoreTypes
<1>0. Written(c, k)
  BY WriteEffect
<1> SUFFICES ASSUME NEW d \in Client, NEW m \in Nat, NEW o \in Nat, NEW fp \in Fp,
                    At(d, m, o, fp)
             PROVE  At(d, m, o, fp)'
  BY DEF Kept
<1>1. CASE d # c
  <2>1. /\ uuid'[d] = uuid[d] /\ inputMQ'[d] = inputMQ[d] /\ pc'[d] = pc[d]
        /\ curContainer'[d] = curContainer[d] /\ inContainer'[d] = inContainer[d]
    BY <1>1, <1>0 DEF Written
  <2>2. <<d, m>> # <<c, uuid[c]>>
    BY <1>1
  <2>3. /\ <<d, m>> \in DOMAIN containers' <=> <<d, m>> \in DOMAIN containers
        /\ <<d, m>> \in DOMAIN containers => containers'[<<d, m>>] = containers[<<d, m>>]
    BY <2>2, <1>0 DEF Written
  <2> QED
    BY <2>1, <2>3 DEF At
<1>2. CASE d = c
  <2>1. m <= uuid[c] /\ uuid[c] \in Nat /\ uuid'[c] = uuid[c] + 1
    BY <1>2, <1>0 DEF Written, At
  <2>2. m <= uuid'[c] /\ m # uuid'[c]
    BY <2>1
  <2>3. <<d, m>> \in DOMAIN containers' => <<o, fp>> \in containers'[<<d, m>>]
    <3>1. CASE m = uuid[c]
      BY <1>2, <3>1, <1>0 DEF Written
    <3>2. CASE m # uuid[c]
      <4>1. <<d, m>> # <<c, uuid[c]>>
        BY <3>2
      <4> QED
        BY <4>1, <1>0 DEF Written, At
    <3> QED
      BY <3>1, <3>2
  <2>4. \A j \in 1..Len(inputMQ'[d]) :
           inputMQ'[d][j].containerID = <<d, m>> => <<o, fp>> \in inputMQ'[d][j].body
    <3> SUFFICES ASSUME NEW j \in 1..Len(inputMQ'[c]), inputMQ'[c][j].containerID = <<c, m>>
                 PROVE  <<o, fp>> \in inputMQ'[c][j].body
      BY <1>2
    <3>1. CASE inputMQ'[c][j] = k
      BY <1>2, <3>1
    <3>2. CASE j \in 1..Len(inputMQ[c]) /\ inputMQ'[c][j] = inputMQ[c][j]
      BY <1>2, <3>2 DEF At
    <3> QED
      BY <3>1, <3>2, <1>0 DEF Written
  <2>5. aborts = 0 => \/ <<d, m>> \in DOMAIN containers'
                      \/ \E j \in 1..Len(inputMQ'[d]) : inputMQ'[d][j].containerID = <<d, m>>
    <3>1. CASE m = uuid[c]
      <4>1. \/ <<c, uuid[c]>> \in DOMAIN containers'
            \/ \E j \in 1..Len(inputMQ'[c]) : inputMQ'[c][j].containerID = <<c, uuid[c]>>
        BY <1>0 DEF Written
      <4> QED
        BY <1>2, <3>1, <4>1, Zenon
    <3>2. CASE m # uuid[c]
      <4>1. <<d, m>> # <<c, uuid[c]>>
        BY <3>2
      <4>2. aborts = 0 => \/ <<d, m>> \in DOMAIN containers
                          \/ \E j \in 1..Len(inputMQ[c]) : inputMQ[c][j].containerID = <<c, m>>
        BY <1>2, <3>2 DEF At
      <4> QED
        BY <1>2, <4>1, <4>2, <1>0 DEF Written
    <3> QED
      BY <3>1, <3>2
  <2> QED
    BY <1>2, <2>2, <2>3, <2>4, <2>5 DEF At
<1> QED
  BY <1>1, <1>2

(* A chunk put behind the others of a container, and one put into an empty  *)
(* container.                                                               *)
LEMMA PackedGrows ==
    ASSUME NEW b \in SUBSET Slot, NEW size \in Nat, NEW fp \in Fp,
           Packed(b), Below(b, size),
           size + ChunkLen[fp] + BlockSize <= MaxContainerSize
    PROVE  /\ Packed(b \cup {<<size, fp>>})
           /\ Below(b \cup {<<size, fp>>}, size + ChunkLen[fp] + BlockSize)
<1>1. /\ ChunkLen \in [Fp -> Nat \ {0}] /\ BlockSize \in Nat /\ MaxContainerSize \in Nat
      /\ \A s \in b : s[1] \in Nat /\ s[2] \in Fp /\ ChunkLen[s[2]] \in Nat
  BY UploadAssumption DEF Slot
<1> DEFINE x == <<size, fp>>
<1>2. x[1] = size /\ x[2] = fp
  OBVIOUS
<1> HIDE DEF x
<1>3. ASSUME NEW s \in b \cup {x}
      PROVE  /\ s[1] + ChunkLen[s[2]] + BlockSize <= MaxContainerSize
             /\ s[1] + ChunkLen[s[2]] + BlockSize <= size + ChunkLen[fp] + BlockSize
             /\ \A t \in (b \cup {x}) \ {s} :
                   \/ s[1] + ChunkLen[s[2]] + BlockSize <= t[1]
                   \/ t[1] + ChunkLen[t[2]] + BlockSize <= s[1]
  <2>1. CASE s = x
    BY <1>1, <1>2, <2>1 DEF Below
  <2>2. CASE s \in b
    BY <1>1, <1>2, <2>2 DEF Packed, Below
  <2> QED
    BY <2>1, <2>2
<1>4. Packed(b \cup {x})
  BY <1>3 DEF Packed
<1>5. Below(b \cup {x}, size + ChunkLen[fp] + BlockSize)
  BY <1>3 DEF Below
<1> QED
  BY <1>4, <1>5 DEF x

LEMMA PackedOne ==
    ASSUME NEW fp \in Fp
    PROVE  /\ Packed({<<0, fp>>})
           /\ Below({<<0, fp>>}, ChunkLen[fp] + BlockSize)
<1>1. ChunkLen[fp] \in Nat /\ BlockSize \in Nat /\ BlockSize + ChunkLen[fp] <= MaxContainerSize
      /\ MaxContainerSize \in Nat
  BY UploadAssumption
<1> QED
  BY <1>1 DEF Packed, Below

LEMMA PackedNone == Packed({}) /\ Below({}, 0)
BY DEF Packed, Below

(* A chunk in the open container of client c is nowhere else. *)
LEMMA OpenAt ==
    ASSUME TypeOK', Storage', NEW c \in Client, NEW m \in Nat, m = uuid'[c],
           pc'[c] \in Open, NEW o \in Nat, NEW fp \in Fp,
           <<o, fp>> \in inContainer'[c].buf
    PROVE  At(c, m, o, fp)'
<1>1. StoreShape(c, pc'[c], uuid'[c], inputMQ'[c], curContainer'[c], inContainer'[c])
  BY DEF Storage
<1>2. <<c, m>> \notin DOMAIN containers'
  BY DEF Storage
<1>3. \A j \in 1..Len(inputMQ'[c]) : inputMQ'[c][j].containerID # <<c, m>>
  BY <1>1 DEF StoreShape
<1>4. curContainer'[c].currentSize = 0
  BY <1>1 DEF StoreShape, Open, InBatch
<1> QED
  BY <1>2, <1>3, <1>4 DEF At

(* SaveChunk keeps every chunk, and the new one is where SaveAddr says. *)
LEMMA SaveStep ==
    ASSUME TypeOK, TypeOK', Storage, NEW c \in Client, NEW fp \in Fp, NEW a \in Addr,
           a = SaveAddr(c, fp), SaveChunk(c, fp), pc[c] = "proc", pc'[c] \in Open,
           \A d \in Client \ {c} : pc'[d] = pc[d],
           UNCHANGED <<done, writer, aborts>>
    PROVE  Storage' /\ Kept /\ Good(a, fp)'
<1> USE StoreTypes
<1>1. /\ QueueShape(pc[c], inputMQ[c], done[c], writer[c])
      /\ StoreShape(c, pc[c], uuid[c], inputMQ[c], curContainer[c], inContainer[c])
  BY DEF Storage
<1> DEFINE size == inContainer[c].curSize
           b == inContainer[c].buf
<1>2. /\ size \in Nat /\ b \in SUBSET Slot /\ uuid[c] \in Nat
      /\ ChunkLen[fp] \in Nat /\ BlockSize \in Nat /\ MaxContainerSize \in Nat
  BY UploadAssumption
<1>3. /\ curContainer[c].containerID = <<c, uuid[c]>> /\ curContainer[c].currentSize = 0
      /\ Packed(b) /\ Below(b, size)
  BY <1>1 DEF StoreShape
<1>4. CASE Fits(c, fp)
  <2>1. /\ inContainer' = [inContainer EXCEPT ![c] =
               [buf |-> b \cup {<<size, fp>>}, curSize |-> size + ChunkLen[fp] + BlockSize]]
        /\ UNCHANGED <<containers, inputMQ, uuid, curContainer>>
    BY <1>4 DEF SaveChunk
  <2>2. /\ inContainer'[c].buf = b \cup {<<size, fp>>}
        /\ inContainer'[c].curSize = size + ChunkLen[fp] + BlockSize
        /\ \A d \in Client \ {c} : inContainer'[d] = inContainer[d]
    BY <2>1
  <2>3. size + ChunkLen[fp] + BlockSize <= MaxContainerSize
    BY <1>2, <1>4 DEF Fits
  <2>4. /\ Packed(inContainer'[c].buf)
        /\ Below(inContainer'[c].buf, inContainer'[c].curSize)
    <3> HIDE DEF b, size
    <3> QED
      BY <1>2, <1>3, <2>2, <2>3, PackedGrows, ZenonT(60)
  <2>5. StoreShape(c, pc'[c], uuid'[c], inputMQ'[c], curContainer'[c], inContainer'[c])
    BY <1>1, <1>3, <2>1, <2>4 DEF StoreShape
  <2>6. QueueShape(pc'[c], inputMQ'[c], done'[c], writer'[c])
    BY <1>1, <2>1 DEF QueueShape, Open, InBatch
  <2>7. Storage'
    BY <2>1, <2>2, <2>5, <2>6, StorageOfOne DEF Storage
  <2>8. Kept
    <3> SUFFICES ASSUME NEW d \in Client, NEW m \in Nat, NEW o \in Nat, NEW g \in Fp,
                        At(d, m, o, g)
                 PROVE  At(d, m, o, g)'
      BY DEF Kept
    <3>1. pc'[d] \in Open <=> pc[d] \in Open
      BY DEF Open, InBatch
    <3>2. <<o, g>> \in inContainer[d].buf => <<o, g>> \in inContainer'[d].buf
      BY <2>2
    <3> QED
      BY <2>1, <3>1, <3>2 DEF At
  <2>9. a = [containerName |-> <<c, uuid[c]>>, offset |-> size]
    BY <1>3, <1>4 DEF SaveAddr
  <2>10. uuid'[c] = uuid[c] /\ <<size, fp>> \in inContainer'[c].buf
    BY <2>1, <2>2
  <2>11. PICK m \in Nat, o \in Nat : m = uuid[c] /\ o = size
    BY <1>2
  <2>12. At(c, m, o, fp)'
    BY <2>7, <2>10, <2>11, OpenAt
  <2>13. a.containerName[1] = c /\ a.containerName[2] = m /\ a.offset = o
    BY <2>9, <2>11
  <2> QED
    BY <2>7, <2>8, <2>12, <2>13 DEF Good
<1>5. CASE ~Fits(c, fp)
  <2> DEFINE k == FilledContainer(c)
  <2>1. /\ WriteContainer(c, k)
        /\ inContainer' = [inContainer EXCEPT ![c] =
               [buf |-> {<<0, fp>>}, curSize |-> ChunkLen[fp] + BlockSize]]
    BY <1>5 DEF SaveChunk
  <2>2. k \in Container /\ k.containerID = <<c, uuid[c]>> /\ k.body = b
    BY <1>2, <1>3 DEF FilledContainer, Container
  <2>3. /\ inContainer'[c].buf = {<<0, fp>>}
        /\ inContainer'[c].curSize = ChunkLen[fp] + BlockSize
        /\ \A d \in Client \ {c} : inContainer'[d] = inContainer[d]
    BY <2>1
  <2> HIDE DEF k
  <2>4. Written(c, k)
    BY <2>1, <2>2, WriteEffect
  <2>5. /\ \A j \in 1..Len(inputMQ'[c]) :
              /\ \E m \in 0..(uuid'[c] - 1) : inputMQ'[c][j].containerID = <<c, m>>
              /\ Packed(inputMQ'[c][j].body)
        /\ \A d \in Client : \A m \in Nat : <<d, m>> \in DOMAIN containers' =>
              m < uuid'[d] /\ Packed(containers'[<<d, m>>])
    BY <1>3, <2>1, <2>2, WriteStorage
  <2>6. StoreShape(c, pc'[c], uuid'[c], inputMQ'[c], curContainer'[c], inContainer'[c])
    <3>1. /\ curContainer'[c].containerID = <<c, uuid'[c]>>
          /\ curContainer'[c].currentSize = 0 /\ curContainer'[c].body = {}
      BY <2>4 DEF Written
    <3>2. Packed(inContainer'[c].buf) /\ Below(inContainer'[c].buf, inContainer'[c].curSize)
      BY <2>3, PackedOne
    <3> QED
      BY <2>5, <3>1, <3>2, PackedNone DEF StoreShape
  <2>7. QueueShape(pc'[c], inputMQ'[c], done'[c], writer'[c])
    BY <1>1, <2>4 DEF QueueShape, Written, Open, InBatch
  <2>8. Storage'
    <3>1. \A d \in Client \ {c} : /\ pc'[d] = pc[d] /\ uuid'[d] = uuid[d]
                                  /\ inputMQ'[d] = inputMQ[d]
                                  /\ curContainer'[d] = curContainer[d]
                                  /\ inContainer'[d] = inContainer[d]
                                  /\ done'[d] = done[d] /\ writer'[d] = writer[d]
      BY <2>3, <2>4 DEF Written
    <3> QED
      BY <2>5, <2>6, <2>7, <3>1, StorageOfOne
  <2>9. Kept
    <3>1. \A o \in Nat : \A g \in Fp : At(c, uuid[c], o, g) => <<o, g>> \in k.body
      BY <2>2 DEF At, Open, InBatch
    <3> QED
      BY <2>1, <2>2, <2>3, <3>1, WriteKeeps
  <2>10. a = [containerName |-> <<c, uuid[c] + 1>>, offset |-> 0]
    BY <1>5 DEF SaveAddr, CreateUUID
  <2>11. uuid'[c] = uuid[c] + 1 /\ <<0, fp>> \in inContainer'[c].buf
    BY <2>3, <2>4 DEF Written
  <2>12. PICK m \in Nat : m = uuid[c] + 1
    BY <1>2
  <2>13. At(c, m, 0, fp)'
    BY <2>8, <2>11, <2>12, OpenAt
  <2>14. a.containerName[1] = c /\ a.containerName[2] = m /\ a.offset = 0
    BY <2>10, <2>12
  <2> QED
    BY <2>8, <2>9, <2>13, <2>14 DEF Good
<1> QED
  BY <1>4, <1>5
-----------------------------------------------------------------------------
(* The steps that start and end a session, and those of the writer.         *)

LEMMA StartUploadStore ==
    ASSUME TypeOK, Storage, NEW c \in Client, StartUpload(c)
    PROVE  Storage' /\ Kept
<1> USE StoreTypes
<1>1. /\ pc[c] = "idle" /\ pc'[c] = "recv" /\ uuid'[c] = uuid[c] + 1
      /\ curContainer'[c] = [containerID |-> <<c, uuid[c] + 1>>, body |-> {}, currentSize |-> 0]
      /\ inContainer'[c] = NoContainer /\ inputMQ'[c] = <<>> /\ done'[c] = FALSE
      /\ writer'[c] = IF MULTI_CLIENT THEN "off" ELSE "check"
      /\ containers' = containers /\ aborts' = aborts
  BY DEF StartUpload, Goto, CreateUUID
<1>2. \A d \in Client \ {c} : /\ pc'[d] = pc[d] /\ uuid'[d] = uuid[d]
                              /\ inputMQ'[d] = inputMQ[d]
                              /\ curContainer'[d] = curContainer[d]
                              /\ inContainer'[d] = inContainer[d]
                              /\ done'[d] = done[d] /\ writer'[d] = writer[d]
  BY DEF StartUpload, Goto
<1>3. QueueShape(pc'[c], inputMQ'[c], done'[c], writer'[c])
  BY <1>1 DEF QueueShape
<1>4. StoreShape(c, pc'[c], uuid'[c], inputMQ'[c], curContainer'[c], inContainer'[c])
  BY <1>1, PackedNone DEF StoreShape, NoContainer
<1>5. uuid[c] \in Nat /\ \A d \in Client : uuid[d] \in Nat /\ uuid'[d] \in Nat /\ uuid[d] <= uuid'[d]
  BY <1>1, <1>2
<1>6. \A d \in Client : \A m \in Nat : <<d, m>> \in DOMAIN containers' =>
         m < uuid'[d] /\ Packed(containers'[<<d, m>>])
  BY <1>1, <1>5 DEF Storage
<1>7. Storage'
  BY <1>2, <1>3, <1>4, <1>6, StorageOfOne
<1>8. inputMQ[c] = <<>> /\ curContainer[c].currentSize = 0
  BY <1>1 DEF Storage, QueueShape, StoreShape
<1>9. Kept
  <2> SUFFICES ASSUME NEW d \in Client, NEW m \in Nat, NEW o \in Nat, NEW fp \in Fp,
                      At(d, m, o, fp)
               PROVE  At(d, m, o, fp)'
    BY DEF Kept
  <2>1. CASE d = c
    <3>1. m <= uuid[c] /\ m # uuid'[c] /\ m <= uuid'[c]
      BY <1>1, <1>5, <2>1 DEF At
    <3>2. aborts = 0 => <<d, m>> \in DOMAIN containers
      BY <1>1, <1>8, <2>1 DEF At, Open, InBatch
    <3> QED
      BY <1>1, <2>1, <3>1, <3>2 DEF At
  <2>2. CASE d # c
    BY <1>1, <1>2, <2>2 DEF At
  <2> QED
    BY <2>1, <2>2
<1> QED
  BY <1>7, <1>9

(* CLIENT_UPLOAD_RECIPE_END: the chunks of the open container are in the    *)
(* copy made of it; an empty one holds no chunk.                            *)
LEMMA RecvRecipeEndStore ==
    ASSUME TypeOK, Storage, NEW c \in Client, RecvRecipeEnd(c)
    PROVE  Storage' /\ Kept
<1> USE StoreTypes DEF history
<1>1. /\ pc[c] = "recv" /\ pc'[c] = "ended" /\ curContainer'[c] = TailContainer(c)
      /\ \A d \in Client \ {c} : pc'[d] = pc[d] /\ curContainer'[d] = curContainer[d]
      /\ UNCHANGED <<containers, inputMQ, inContainer, uuid, done, writer, aborts>>
  BY DEF RecvRecipeEnd, Goto
<1>2. /\ QueueShape(pc[c], inputMQ[c], done[c], writer[c])
      /\ StoreShape(c, pc[c], uuid[c], inputMQ[c], curContainer[c], inContainer[c])
  BY DEF Storage
<1>3. QueueShape(pc'[c], inputMQ'[c], done'[c], writer'[c])
  BY <1>1, <1>2 DEF QueueShape
<1>4. /\ curContainer'[c].containerID = curContainer[c].containerID
      /\ inContainer[c].curSize # 0 =>
            /\ curContainer'[c].body = inContainer[c].buf
            /\ curContainer'[c].currentSize = inContainer[c].curSize
      /\ inContainer[c].curSize = 0 => curContainer'[c] = curContainer[c]
  BY <1>1 DEF TailContainer, FilledContainer, Container
<1>5. StoreShape(c, pc'[c], uuid'[c], inputMQ'[c], curContainer'[c], inContainer'[c])
  <2>1. Packed(curContainer'[c].body)
    BY <1>2, <1>4 DEF StoreShape
  <2> QED
    BY <1>1, <1>2, <1>4, <2>1 DEF StoreShape
<1>6. Storage'
  BY <1>1, <1>3, <1>5, StorageOfOne DEF Storage
<1>7. inContainer[c].curSize = 0 => ~\E s \in inContainer[c].buf : TRUE
  <2>1. Below(inContainer[c].buf, inContainer[c].curSize) /\ inContainer[c].buf \in SUBSET Slot
    BY <1>2 DEF StoreShape
  <2> SUFFICES ASSUME inContainer[c].curSize = 0, NEW s \in inContainer[c].buf
               PROVE  FALSE
    OBVIOUS
  <2> DEFINE len == ChunkLen[s[2]]
  <2>2. s[1] \in Nat /\ len \in Nat \ {0} /\ BlockSize \in Nat
    BY <2>1, UploadAssumption DEF Slot
  <2>3. s[1] + len + BlockSize <= 0
    BY <2>1 DEF Below
  <2> HIDE DEF len
  <2> QED
    BY <2>2, <2>3
<1>8. Kept
  <2> SUFFICES ASSUME NEW d \in Client, NEW m \in Nat, NEW o \in Nat, NEW fp \in Fp,
                      At(d, m, o, fp)
               PROVE  At(d, m, o, fp)'
    BY DEF Kept
  <2>1. CASE d = c /\ m = uuid[c]
    <3>1. <<o, fp>> \in inContainer[c].buf
      BY <1>1, <2>1 DEF At, Open
    <3>2. curContainer'[c].currentSize # 0 /\ <<o, fp>> \in curContainer'[c].body
      BY <1>4, <1>7, <3>1
    <3> QED
      BY <1>1, <2>1, <3>2 DEF At, Open, InBatch
  <2>2. CASE d = c /\ m # uuid[c]
    <3>1. /\ inputMQ'[d] = inputMQ[d] /\ containers' = containers
          /\ aborts' = aborts /\ uuid'[d] = uuid[d] /\ m # uuid[d]
      BY <1>1, <2>2
    <3> QED
      BY <3>1 DEF At
  <2>3. CASE d # c
    BY <1>1, <2>3 DEF At
  <2> QED
    BY <2>1, <2>2, <2>3
<1> QED
  BY <1>6, <1>8

(* A connection that ends; before the recipe end it is counted in aborts,   *)
(* and the open container may be lost.                                      *)
LEMMA DisconnectStore ==
    ASSUME TypeOK, Storage, NEW c \in Client, Disconnect(c)
    PROVE  Storage' /\ Kept
<1> USE StoreTypes DEF shared, enclave, outside
<1>1. /\ \/ pc[c] = "ended" /\ aborts' = aborts
         \/ pc[c] = "recv" /\ aborts' = aborts + 1
      /\ pc'[c] = "last" /\ \A d \in Client \ {c} : pc'[d] = pc[d]
      /\ UNCHANGED <<containers, inputMQ, curContainer, inContainer, uuid, done, writer>>
  BY DEF Disconnect, Goto
<1>2. /\ QueueShape(pc[c], inputMQ[c], done[c], writer[c])
      /\ StoreShape(c, pc[c], uuid[c], inputMQ[c], curContainer[c], inContainer[c])
  BY DEF Storage
<1>3. QueueShape(pc'[c], inputMQ'[c], done'[c], writer'[c])
  BY <1>1, <1>2 DEF QueueShape
<1>4. StoreShape(c, pc'[c], uuid'[c], inputMQ'[c], curContainer'[c], inContainer'[c])
  BY <1>1, <1>2 DEF StoreShape
<1>5. Storage'
  BY <1>1, <1>3, <1>4, StorageOfOne DEF Storage
<1>6. Kept
  <2> SUFFICES ASSUME NEW d \in Client, NEW m \in Nat, NEW o \in Nat, NEW fp \in Fp,
                      At(d, m, o, fp)
               PROVE  At(d, m, o, fp)'
    BY DEF Kept
  <2>1. /\ pc'[d] \in Open => pc[d] \in Open
        /\ aborts' = 0 => aborts = 0 /\ (pc[d] \in Open => pc'[d] \in Open)
    BY <1>1 DEF Open, InBatch
  <2> QED
    BY <1>1, <2>1 DEF At
<1> QED
  BY <1>5, <1>6

LEMMA LastContainerStore ==
    ASSUME TypeOK, Storage, NEW c \in Client, LastContainer(c)
    PROVE  Storage' /\ Kept
<1> USE StoreTypes DEF enclave, history
<1>1. /\ pc[c] = "last" /\ pc'[c] = "join" /\ done'[c] = TRUE
      /\ \A d \in Client \ {c} : pc'[d] = pc[d] /\ done'[d] = done[d]
      /\ UNCHANGED <<inContainer, writer, aborts>>
  BY DEF LastContainer, Goto
<1>2. /\ QueueShape(pc[c], inputMQ[c], done[c], writer[c])
      /\ StoreShape(c, pc[c], uuid[c], inputMQ[c], curContainer[c], inContainer[c])
  BY DEF Storage
<1>3. writer[c] # "lastPop" /\ (~MULTI_CLIENT => writer[c] # "off")
  BY <1>1, <1>2 DEF QueueShape
<1>4. CASE curContainer[c].currentSize = 0
  <2>1. UNCHANGED <<containers, inputMQ, uuid, curContainer>>
    BY <1>4 DEF LastContainer
  <2>2. QueueShape(pc'[c], inputMQ'[c], done'[c], writer'[c])
    BY <1>1, <1>2, <1>3, <2>1 DEF QueueShape
  <2>3. StoreShape(c, pc'[c], uuid'[c], inputMQ'[c], curContainer'[c], inContainer'[c])
    BY <1>1, <1>2, <1>4, <2>1 DEF StoreShape
  <2>4. Storage'
    BY <1>1, <2>1, <2>2, <2>3, StorageOfOne DEF Storage
  <2>5. Kept
    <3> SUFFICES ASSUME NEW d \in Client, NEW m \in Nat, NEW o \in Nat, NEW fp \in Fp,
                        At(d, m, o, fp)
                 PROVE  At(d, m, o, fp)'
      BY DEF Kept
    <3>1. pc'[d] \in Open <=> pc[d] \in Open
      BY <1>1 DEF Open, InBatch
    <3> QED
      BY <1>1, <2>1, <3>1 DEF At
  <2> QED
    BY <2>4, <2>5
<1>5. CASE curContainer[c].currentSize # 0
  <2> DEFINE k == curContainer[c]
  <2>1. /\ WriteContainer(c, k) /\ k \in Container
        /\ k.containerID = <<c, uuid[c]>> /\ Packed(k.body)
    BY <1>2, <1>5 DEF LastContainer, StoreShape
  <2>2. \A o \in Nat : \A fp \in Fp : At(c, uuid[c], o, fp) => <<o, fp>> \in k.body
    BY <1>5 DEF At
  <2> HIDE DEF k
  <2>3. Written(c, k)
    BY <2>1, WriteEffect
  <2>4. /\ \A j \in 1..Len(inputMQ'[c]) :
              /\ \E m \in 0..(uuid'[c] - 1) : inputMQ'[c][j].containerID = <<c, m>>
              /\ Packed(inputMQ'[c][j].body)
        /\ \A d \in Client : \A m \in Nat : <<d, m>> \in DOMAIN containers' =>
              m < uuid'[d] /\ Packed(containers'[<<d, m>>])
    BY <2>1, WriteStorage
  <2>5. StoreShape(c, pc'[c], uuid'[c], inputMQ'[c], curContainer'[c], inContainer'[c])
    <3>1. /\ curContainer'[c].containerID = <<c, uuid'[c]>>
          /\ curContainer'[c].currentSize = 0 /\ curContainer'[c].body = {}
      BY <2>3 DEF Written
    <3> QED
      BY <1>1, <1>2, <2>4, <3>1, PackedNone DEF StoreShape
  <2>6. QueueShape(pc'[c], inputMQ'[c], done'[c], writer'[c])
    BY <1>1, <1>2, <1>3, <2>3 DEF QueueShape, Written
  <2>7. \A d \in Client \ {c} : /\ pc'[d] = pc[d] /\ uuid'[d] = uuid[d]
                                /\ inputMQ'[d] = inputMQ[d]
                                /\ curContainer'[d] = curContainer[d]
                                /\ inContainer'[d] = inContainer[d]
                                /\ done'[d] = done[d] /\ writer'[d] = writer[d]
    BY <1>1, <2>3 DEF Written
  <2>8. Storage'
    BY <2>4, <2>5, <2>6, <2>7, StorageOfOne
  <2>9. Kept
    BY <1>1, <2>1, <2>2, <2>7, WriteKeeps
  <2> QED
    BY <2>8, <2>9
<1> QED
  BY <1>4, <1>5

(* Join waits for the writer, so the queue is empty. *)
LEMMA JoinStore ==
    ASSUME TypeOK, Storage, NEW c \in Client, Join(c)
    PROVE  Storage' /\ Kept
<1> USE StoreTypes DEF shared, outside, history
<1>1. /\ pc[c] = "join" /\ pc'[c] = "idle" /\ writer[c] = "off"
      /\ inContainer'[c] = NoContainer
      /\ \A d \in Client \ {c} : pc'[d] = pc[d] /\ inContainer'[d] = inContainer[d]
      /\ UNCHANGED <<containers, inputMQ, curContainer, uuid, done, writer, aborts>>
  BY DEF Join, Goto
<1>2. /\ QueueShape(pc[c], inputMQ[c], done[c], writer[c])
      /\ StoreShape(c, pc[c], uuid[c], inputMQ[c], curContainer[c], inContainer[c])
  BY DEF Storage
<1>3. QueueShape(pc'[c], inputMQ'[c], done'[c], writer'[c])
  BY <1>1, <1>2, UploadAssumption DEF QueueShape
<1>4. StoreShape(c, pc'[c], uuid'[c], inputMQ'[c], curContainer'[c], inContainer'[c])
  BY <1>1, <1>2, PackedNone DEF StoreShape, NoContainer
<1>5. Storage'
  BY <1>1, <1>3, <1>4, StorageOfOne DEF Storage
<1>6. Kept
  <2> SUFFICES ASSUME NEW d \in Client, NEW m \in Nat, NEW o \in Nat, NEW fp \in Fp,
                      At(d, m, o, fp)
               PROVE  At(d, m, o, fp)'
    BY DEF Kept
  <2>1. /\ pc'[d] \in Open <=> pc[d] \in Open
        /\ pc[d] \in Open => inContainer'[d] = inContainer[d]
    BY <1>1 DEF Open, InBatch
  <2> QED
    BY <1>1, <2>1 DEF At
<1> QED
  BY <1>5, <1>6

LEMMA WriterCheckStore ==
    ASSUME TypeOK, Storage, NEW c \in Client, WriterCheck(c)
    PROVE  Storage' /\ Kept
<1> USE StoreTypes DEF shared, enclave, history
<1>1. /\ writer[c] = "check" /\ writer'[c] = IF JobDone(c) THEN "lastPop" ELSE "pop"
      /\ \A d \in Client \ {c} : writer'[d] = writer[d]
      /\ UNCHANGED <<pc, containers, inputMQ, curContainer, inContainer, uuid, done, aborts>>
  BY DEF WriterCheck
<1>2. /\ QueueShape(pc[c], inputMQ[c], done[c], writer[c])
      /\ StoreShape(c, pc[c], uuid[c], inputMQ[c], curContainer[c], inContainer[c])
  BY DEF Storage
<1>3. QueueShape(pc'[c], inputMQ'[c], done'[c], writer'[c])
  BY <1>1, <1>2 DEF QueueShape, JobDone
<1>4. StoreShape(c, pc'[c], uuid'[c], inputMQ'[c], curContainer'[c], inContainer'[c])
  BY <1>1, <1>2
<1>5. Storage'
  BY <1>1, <1>3, <1>4, StorageOfOne DEF Storage
<1>6. Kept
  <2> SUFFICES ASSUME NEW d \in Client, NEW m \in Nat, NEW o \in Nat, NEW fp \in Fp,
                      At(d, m, o, fp)
               PROVE  At(d, m, o, fp)'
    BY DEF Kept
  <2> QED
    BY <1>1 DEF At
<1> QED
  BY <1>5, <1>6

(* The writer moves the head of the queue to its file. *)
LEMMA WriterPopStore ==
    ASSUME TypeOK, TypeOK', Storage, NEW c \in Client, WriterPop(c)
    PROVE  Storage' /\ Kept
<1> USE StoreTypes DEF enclave, history
<1>1. /\ writer[c] \in {"pop", "lastPop"}
      /\ writer'[c] = IF writer[c] = "lastPop" THEN "off" ELSE "check"
      /\ \A d \in Client \ {c} : writer'[d] = writer[d]
      /\ UNCHANGED <<pc, curContainer, inContainer, uuid, done, aborts>>
  BY DEF WriterPop
<1>2. /\ QueueShape(pc[c], inputMQ[c], done[c], writer[c])
      /\ StoreShape(c, pc[c], uuid[c], inputMQ[c], curContainer[c], inContainer[c])
  BY DEF Storage
<1>3. CASE inputMQ[c] = <<>>
  <2>1. UNCHANGED <<containers, inputMQ>>
    BY <1>3 DEF WriterPop
  <2>2. QueueShape(pc'[c], inputMQ'[c], done'[c], writer'[c])
    BY <1>1, <1>2, <2>1 DEF QueueShape
  <2>3. StoreShape(c, pc'[c], uuid'[c], inputMQ'[c], curContainer'[c], inContainer'[c])
    BY <1>1, <1>2, <2>1
  <2>4. Storage'
    BY <1>1, <2>1, <2>2, <2>3, StorageOfOne DEF Storage
  <2>5. Kept
    <3> SUFFICES ASSUME NEW d \in Client, NEW m \in Nat, NEW o \in Nat, NEW fp \in Fp,
                        At(d, m, o, fp)
                 PROVE  At(d, m, o, fp)'
      BY DEF Kept
    <3> QED
      BY <1>1, <2>1 DEF At
  <2> QED
    BY <2>4, <2>5
<1>4. CASE inputMQ[c] # <<>>
  <2> DEFINE mq == inputMQ[c]
             k == Head(mq)
  <2>1. /\ containers' = Put(containers, k.containerID, k.body)
        /\ inputMQ'[c] = Tail(mq) /\ \A d \in Client \ {c} : inputMQ'[d] = inputMQ[d]
    BY <1>4 DEF WriterPop
  <2>2. mq \in Seq(Container) /\ Len(mq) \in Nat \ {0}
    BY <1>4, EmptySeq
  <2>3. k = mq[1] /\ k \in Container /\ 1 \in 1..Len(mq)
    BY <1>4, <2>2, HeadTailProperties, ElementOfSeq
  <2>4. /\ Len(inputMQ'[c]) = Len(mq) - 1
        /\ \A j \in 1..Len(inputMQ'[c]) : j + 1 \in 1..Len(mq) /\ inputMQ'[c][j] = mq[j + 1]
    BY <1>4, <2>1, <2>2, HeadTailProperties
  <2>5. PICK x \in 0..(uuid[c] - 1) : k.containerID = <<c, x>>
    BY <1>2, <2>3 DEF StoreShape
  <2>6. Packed(k.body) /\ k.body \in SUBSET Slot /\ ~MULTI_CLIENT
    BY <1>2, <1>4, <2>3 DEF StoreShape, QueueShape, Container
  <2> HIDE DEF mq, k
  <2>7. /\ \A d \in Client : \A m \in Nat : <<d, m>> # <<c, x>> =>
              /\ <<d, m>> \in DOMAIN containers' <=> <<d, m>> \in DOMAIN containers
              /\ <<d, m>> \in DOMAIN containers => containers'[<<d, m>>] = containers[<<d, m>>]
        /\ <<c, x>> \in DOMAIN containers' /\ containers'[<<c, x>>] = k.body
    <3> DEFINE n == k.containerID
    <3> HIDE DEF n
    <3>1. containers' = [y \in DOMAIN containers \cup {n} |-> IF y = n THEN k.body ELSE containers[y]]
      BY <2>1 DEF Put, n
    <3>2. /\ DOMAIN containers' = DOMAIN containers \cup {n} /\ containers'[n] = k.body
          /\ \A y \in DOMAIN containers : y # n => containers'[y] = containers[y]
      BY <3>1
    <3>3. n = <<c, x>>
      BY <2>5 DEF n
    <3> QED
      BY <3>2, <3>3
  <2>8. QueueShape(pc'[c], inputMQ'[c], done'[c], writer'[c])
    <3>1. writer[c] # "lastPop" /\ pc[c] # "idle"
      BY <1>2, <1>4 DEF QueueShape
    <3> QED
      BY <1>1, <1>2, <2>6, <3>1 DEF QueueShape
  <2>9. StoreShape(c, pc'[c], uuid'[c], inputMQ'[c], curContainer'[c], inContainer'[c])
    <3>1. ASSUME NEW j \in 1..Len(inputMQ'[c])
          PROVE  /\ \E m \in 0..(uuid[c] - 1) : inputMQ'[c][j].containerID = <<c, m>>
                 /\ Packed(inputMQ'[c][j].body)
      <4>1. j + 1 \in 1..Len(inputMQ[c]) /\ inputMQ'[c][j] = inputMQ[c][j + 1]
        BY <2>4 DEF mq
      <4> QED
        BY <1>2, <4>1 DEF StoreShape
    <3> QED
      BY <1>1, <1>2, <3>1 DEF StoreShape
  <2>10. ASSUME NEW d \in Client, NEW m \in Nat, <<d, m>> \in DOMAIN containers'
         PROVE  m < uuid'[d] /\ Packed(containers'[<<d, m>>])
    <3>1. CASE <<d, m>> = <<c, x>>
      <4>1. d = c /\ m = x
        BY <3>1
      <4> QED
        BY <1>1, <2>6, <2>7, <4>1
    <3>2. CASE <<d, m>> # <<c, x>>
      BY <1>1, <2>7, <2>10, <3>2 DEF Storage
    <3> QED
      BY <3>1, <3>2
  <2>11. Storage'
    BY <1>1, <2>1, <2>8, <2>9, <2>10, StorageOfOne
  <2>12. ASSUME NEW d \in Client, NEW m \in Nat, NEW o \in Nat, NEW fp \in Fp,
                At(d, m, o, fp)
         PROVE  At(d, m, o, fp)'
    <3>1. <<d, m>> \in DOMAIN containers' => <<o, fp>> \in containers'[<<d, m>>]
      <4>1. CASE <<d, m>> = <<c, x>>
        <5>1. d = c /\ m = x
          BY <4>1
        <5>2. inputMQ[c][1].containerID = <<c, m>> /\ 1 \in 1..Len(inputMQ[c])
          BY <2>3, <2>5, <5>1 DEF mq
        <5>3. <<o, fp>> \in inputMQ[c][1].body
          BY <2>12, <5>1, <5>2 DEF At
        <5> QED
          BY <2>3, <2>7, <5>1, <5>3 DEF mq
      <4>2. CASE <<d, m>> # <<c, x>>
        BY <2>7, <2>12, <4>2 DEF At
      <4> QED
        BY <4>1, <4>2
    <3>2. CASE d # c
      <4>1. <<d, m>> # <<c, x>> /\ inputMQ'[d] = inputMQ[d]
        BY <2>1, <3>2
      <4>2. <<d, m>> \in DOMAIN containers' <=> <<d, m>> \in DOMAIN containers
        BY <2>7, <4>1
      <4> QED
        BY <1>1, <2>12, <3>1, <4>1, <4>2 DEF At
    <3>3. CASE d = c
      <4>1. ASSUME NEW j \in 1..Len(inputMQ'[d]), inputMQ'[d][j].containerID = <<d, m>>
            PROVE  <<o, fp>> \in inputMQ'[d][j].body
        BY <2>4, <2>12, <3>3, <4>1 DEF At, mq
      <4>2. <<d, m>> \in DOMAIN containers => <<d, m>> \in DOMAIN containers'
        BY <2>7
      <4>3. ASSUME NEW j \in 1..Len(inputMQ[d]), inputMQ[d][j].containerID = <<d, m>>
            PROVE  \/ <<d, m>> \in DOMAIN containers'
                   \/ \E l \in 1..Len(inputMQ'[d]) : inputMQ'[d][l].containerID = <<d, m>>
        <5>1. CASE j = 1
          <6>1. <<d, m>> = <<c, x>>
            BY <2>3, <2>5, <3>3, <4>3, <5>1 DEF mq
          <6> QED
            BY <2>7, <6>1
        <5>2. CASE j # 1
          <6>1. j - 1 \in 1..Len(inputMQ'[c]) /\ (j - 1) + 1 = j
            BY <2>2, <2>4, <3>3, <5>2 DEF mq
          <6>2. inputMQ'[c][j - 1] = inputMQ[c][j]
            BY <2>4, <6>1 DEF mq
          <6> QED
            BY <3>3, <4>3, <6>1, <6>2
        <5> QED
          BY <5>1, <5>2
      <4> QED
        BY <1>1, <2>12, <3>1, <4>1, <4>2, <4>3 DEF At
    <3> QED
      BY <3>2, <3>3
  <2> QED
    BY <2>11, <2>12 DEF Kept
<1> QED
  BY <1>3, <1>4

(* SaveChunk is the only step that stores; these do not touch containers. *)
LEMMA BatchStore ==
    ASSUME TypeOK, Shape, Storage, NEW c \in Client,
           \/ \E b \in Batches : RecvBatch(c, b)
           \/ LockSketch(c) \/ UpdateSketch(c)
           \/ LockTopK(c) \/ ClassifyLocal(c) \/ ClassifyDuplicate(c) \/ ClassifyUnique(c)
           \/ QueryOutIndex(c) \/ ProcessDuplicate(c)
           \/ LockHeap(c) \/ HeapSkip(c) \/ HeapUpdateFreq(c) \/ HeapAdd(c)
           \/ UpdateOutIndex(c)
    PROVE  Storage' /\ Kept
<1> USE DEF shared, enclave, outside, history
<1>1. \E p, n \in Open : pc[c] = p /\ pc' = [pc EXCEPT ![c] = n]
  <2>1. CASE \E b \in Batches : RecvBatch(c, b)
    BY <2>1 DEF RecvBatch, Goto, Open, InBatch
  <2>2. CASE LockSketch(c) \/ LockTopK(c) \/ QueryOutIndex(c) \/ LockHeap(c) \/ UpdateOutIndex(c)
    BY <2>2 DEF LockSketch, LockTopK, QueryOutIndex, LockHeap, UpdateOutIndex, Goto, Open, InBatch
  <2>3. CASE UpdateSketch(c) \/ ProcessDuplicate(c)
    BY <2>3 DEF UpdateSketch, ProcessDuplicate, Loop, Open, InBatch
  <2>4. CASE ClassifyLocal(c) \/ ClassifyDuplicate(c) \/ ClassifyUnique(c)
    BY <2>4 DEF ClassifyLocal, ClassifyDuplicate, ClassifyUnique, Loop, Open, InBatch
  <2>5. CASE HeapSkip(c) \/ HeapUpdateFreq(c) \/ HeapAdd(c)
    BY <2>5 DEF HeapSkip, HeapUpdateFreq, HeapAdd, HeapTurn, Loop, Open, InBatch
  <2> QED
    BY <2>1, <2>2, <2>3, <2>4, <2>5
<1>2. UNCHANGED <<containers, inputMQ, curContainer, inContainer, uuid, done, writer, aborts>>
  BY DEF RecvBatch, LockSketch, UpdateSketch, LockTopK, ClassifyLocal, ClassifyDuplicate,
         ClassifyUnique, QueryOutIndex, ProcessDuplicate, LockHeap, HeapSkip,
         HeapUpdateFreq, HeapAdd, HeapTurn, UpdateOutIndex
<1>3. /\ pc[c] \in Open /\ pc'[c] \in Open /\ \A d \in Client \ {c} : pc'[d] = pc[d]
  BY <1>1, StoreTypes
<1> QED
  BY <1>2, <1>3, QuietStep
-----------------------------------------------------------------------------
(* What the recipe lists.                                                   *)

(* Appending to the second of two parts. *)
LEMMA AppendParts ==
    ASSUME NEW S, NEW s \in Seq(S), NEW t \in Seq(S), NEW e \in S
    PROVE  /\ Len(s \o Append(t, e)) = Len(s \o t) + 1
           /\ \A j \in 1..Len(s \o t) : (s \o Append(t, e))[j] = (s \o t)[j]
           /\ (s \o Append(t, e))[Len(s \o t) + 1] = e
<1>1. /\ Append(t, e) \in Seq(S) /\ Len(Append(t, e)) = Len(t) + 1
      /\ \A j \in 1..Len(t) : Append(t, e)[j] = t[j]
      /\ Append(t, e)[Len(t) + 1] = e
  BY AppendProperties
<1> DEFINE u == Append(t, e)
<1> HIDE DEF u
<1>2. /\ Len(s \o t) = Len(s) + Len(t)
      /\ \A j \in 1..(Len(s) + Len(t)) : (s \o t)[j] = IF j <= Len(s) THEN s[j] ELSE t[j - Len(s)]
  BY ConcatProperties
<1>3. /\ Len(s \o u) = Len(s) + Len(u)
      /\ \A j \in 1..(Len(s) + Len(u)) : (s \o u)[j] = IF j <= Len(s) THEN s[j] ELSE u[j - Len(s)]
  BY <1>1, ConcatProperties DEF u
<1>4. /\ Len(s) \in Nat /\ Len(t) \in Nat /\ Len(u) = Len(t) + 1
      /\ \A j \in 1..Len(t) : u[j] = t[j]
      /\ u[Len(t) + 1] = e
  BY <1>1 DEF u
<1>5. Len(s \o u) = Len(s \o t) + 1
  BY <1>2, <1>3, <1>4
<1>6. \A j \in 1..Len(s \o t) : (s \o u)[j] = (s \o t)[j]
  BY <1>2, <1>3, <1>4, SMTT(40)
<1>7. (s \o u)[Len(s \o t) + 1] = e
  <2>1. Len(s \o t) + 1 \in 1..(Len(s) + Len(u)) /\ ~(Len(s \o t) + 1 <= Len(s))
        /\ (Len(s \o t) + 1) - Len(s) = Len(t) + 1
    BY <1>2, <1>4
  <2> QED
    BY <1>3, <1>4, <2>1
<1> QED
  BY <1>5, <1>6, <1>7 DEF u

(* The entries of a client are addresses. *)
LEMMA EntriesTyped ==
    ASSUME TypeOK, NEW c \in Client
    PROVE  /\ Entries(c) \in Seq(Addr) /\ Len(Entries(c)) \in Nat
           /\ recipes[c].entryList \in Seq(Addr) /\ inRecipe[c] \in Seq(Addr)
           /\ file[c] \in Seq(Fp) /\ Len(file[c]) \in Nat
           /\ inRecipe[c] = <<>> => Entries(c) = recipes[c].entryList
           /\ Len(recipes[c].entryList) \in Nat
           /\ Len(recipes[c].entryList) <= Len(Entries(c))
           /\ \A j \in 1..Len(recipes[c].entryList) : Entries(c)[j] = recipes[c].entryList[j]
<1>1. /\ recipes[c].entryList \in Seq(Addr) /\ inRecipe[c] \in Seq(Addr) /\ file[c] \in Seq(Fp)
  BY DEF TypeOK, SharedType, EnclaveType, HistoryType, RecipeFile
<1> DEFINE l == recipes[c].entryList
           b == inRecipe[c]
<1>2. Entries(c) = l \o b
  BY DEF Entries
<1> HIDE DEF l, b
<1>3. l \in Seq(Addr) /\ b \in Seq(Addr) /\ Len(l) \in Nat /\ Len(b) \in Nat
  BY <1>1 DEF l, b
<1>4. /\ l \o b \in Seq(Addr) /\ Len(l \o b) = Len(l) + Len(b)
      /\ \A j \in 1..(Len(l) + Len(b)) : (l \o b)[j] = IF j <= Len(l) THEN l[j] ELSE b[j - Len(l)]
  BY <1>3, ConcatProperties
<1>5. b = <<>> => l \o b = l
  BY <1>3, ConcatEmptySeq
<1>6. \A j \in 1..Len(l) : (l \o b)[j] = l[j]
  BY <1>3, <1>4
<1>7. Len(l) <= Len(l \o b) /\ Len(l \o b) \in Nat /\ Len(file[c]) \in Nat
  BY <1>1, <1>3, <1>4
<1> QED
  BY <1>1, <1>2, <1>3, <1>4, <1>5, <1>6, <1>7 DEF l, b

(* UpdateFileRecipe puts one entry behind the others, whether it stays in   *)
(* the buffer or the buffer is flushed.                                     *)
Listed(c, addr) ==
    /\ Len(Entries(c)') = Len(Entries(c)) + 1
    /\ \A j \in 1..Len(Entries(c)) : Entries(c)'[j] = Entries(c)[j]
    /\ Entries(c)'[Len(Entries(c)) + 1] = addr
    /\ recipes'[c].head = recipes[c].head
    /\ \A d \in Client \ {c} : recipes'[d] = recipes[d] /\ inRecipe'[d] = inRecipe[d]

LEMMA RecipeGrows ==
    ASSUME TypeOK, NEW c \in Client, NEW addr \in Addr, UpdateFileRecipe(c, addr)
    PROVE  Listed(c, addr)
<1> DEFINE list   == recipes[c].entryList
           buffer == Append(inRecipe[c], addr)
<1>1. /\ recipes \in [Client -> RecipeFile] /\ inRecipe \in [Client -> Seq(Addr)]
      /\ list \in Seq(Addr) /\ inRecipe[c] \in Seq(Addr)
  BY DEF TypeOK, SharedType, EnclaveType, RecipeFile
<1>2. buffer \in Seq(Addr) /\ list \o buffer \in Seq(Addr)
  BY <1>1, AppendProperties, ConcatProperties
<1>3. \/ /\ recipes' = [recipes EXCEPT ![c] = [recipes[c] EXCEPT !.entryList = list \o buffer]]
         /\ inRecipe' = [inRecipe EXCEPT ![c] = <<>>]
      \/ recipes' = recipes /\ inRecipe' = [inRecipe EXCEPT ![c] = buffer]
  BY DEF UpdateFileRecipe
<1>4. /\ Len(list \o buffer) = Len(Entries(c)) + 1
      /\ \A j \in 1..Len(Entries(c)) : (list \o buffer)[j] = Entries(c)[j]
      /\ (list \o buffer)[Len(Entries(c)) + 1] = addr
  <2>1. list \o inRecipe[c] = Entries(c)
    BY DEF Entries
  <2>2. /\ Len(list \o buffer) = Len(list \o inRecipe[c]) + 1
        /\ \A j \in 1..Len(list \o inRecipe[c]) : (list \o buffer)[j] = (list \o inRecipe[c])[j]
        /\ (list \o buffer)[Len(list \o inRecipe[c]) + 1] = addr
    <3> DEFINE b == inRecipe[c]
    <3>1. list \in Seq(Addr) /\ b \in Seq(Addr) /\ addr \in Addr
      BY <1>1
    <3> HIDE DEF list, b
    <3>2. /\ Len(list \o Append(b, addr)) = Len(list \o b) + 1
          /\ \A j \in 1..Len(list \o b) : (list \o Append(b, addr))[j] = (list \o b)[j]
          /\ (list \o Append(b, addr))[Len(list \o b) + 1] = addr
      BY <3>1, AppendParts
    <3> QED
      BY <3>2 DEF b
  <2> QED
    BY <2>1, <2>2
<1> HIDE DEF list, buffer
<1>5. Entries(c)' = list \o buffer
  <2>1. CASE /\ recipes' = [recipes EXCEPT ![c] = [recipes[c] EXCEPT !.entryList = list \o buffer]]
             /\ inRecipe' = [inRecipe EXCEPT ![c] = <<>>]
    <3>1. recipes'[c].entryList = list \o buffer /\ inRecipe'[c] = <<>>
      BY <1>1, <2>1 DEF RecipeFile
    <3>2. (list \o buffer) \o <<>> = list \o buffer
      BY <1>2, ConcatEmptySeq
    <3> QED
      BY <3>1, <3>2 DEF Entries
  <2>2. CASE recipes' = recipes /\ inRecipe' = [inRecipe EXCEPT ![c] = buffer]
    BY <1>1, <2>2 DEF Entries, list
  <2> QED
    BY <1>3, <2>1, <2>2
<1>6. recipes'[c].head = recipes[c].head
  BY <1>1, <1>3 DEF RecipeFile
<1>7. \A d \in Client \ {c} : recipes'[d] = recipes[d] /\ inRecipe'[d] = inRecipe[d]
  BY <1>1, <1>3
<1> QED
  BY <1>4, <1>5, <1>6, <1>7 DEF Listed
-----------------------------------------------------------------------------
(* Which addresses a step makes the server hold, and that the recipe keeps  *)
(* up with the file.  Every step but ProcessUnique only copies addresses.   *)

NothingNew == \A a \in Addr : \A fp \in Fp : Held(a, fp)' => Held(a, fp)

(* The step touches the batch and the recipe of client c only. *)
Alone(c) == \A d \in Client \ {c} :
    /\ pc'[d] = pc[d] /\ i'[d] = i[d] /\ inQuery'[d] = inQuery[d]
    /\ outQuery'[d] = outQuery[d] /\ recipes'[d] = recipes[d]
    /\ inRecipe'[d] = inRecipe[d] /\ file'[d] = file[d]

LEMMA HeldOfOne ==
    ASSUME NEW c \in Client, Alone(c), NEW a, NEW fp, Held(a, fp)'
    PROVE  \/ Held(a, fp)
           \/ TopKHas(topK', a, fp)
           \/ IndexHas(outIndex', a, fp)
           \/ BatchHas(inQuery'[c], a, fp)
           \/ AnswerHas(outQuery'[c], a, fp)
           \/ ListHas(Entries(c)', file'[c], a, fp)
<1>1. ASSUME NEW d \in Client \ {c}
      PROVE  /\ inQuery'[d] = inQuery[d] /\ outQuery'[d] = outQuery[d]
             /\ Entries(d)' = Entries(d) /\ file'[d] = file[d]
  BY DEF Alone, Entries
<1>2. \/ TopKHas(topK', a, fp)
      \/ IndexHas(outIndex', a, fp)
      \/ \E d \in Client : \/ BatchHas(inQuery'[d], a, fp)
                           \/ AnswerHas(outQuery'[d], a, fp)
                           \/ ListHas(Entries(d)', file'[d], a, fp)
  BY DEF Held
<1>3. ASSUME NEW d \in Client, \/ BatchHas(inQuery'[d], a, fp)
                               \/ AnswerHas(outQuery'[d], a, fp)
                               \/ ListHas(Entries(d)', file'[d], a, fp),
             d # c
      PROVE  Held(a, fp)
  <2>1. \/ BatchHas(inQuery[d], a, fp)
        \/ AnswerHas(outQuery[d], a, fp)
        \/ ListHas(Entries(d), file[d], a, fp)
    BY <1>1, <1>3
  <2> QED
    BY <2>1 DEF Held
<1> QED
  BY <1>2, <1>3

LEMMA AlignedOfOne ==
    ASSUME Aligned, NEW c \in Client, Alone(c),
           Lined(pc'[c], i'[c], inQuery'[c], Len(Entries(c)'), file'[c]),
           Sealed(pc'[c], recipes'[c], inRecipe'[c], file'[c])
    PROVE  Aligned'
<1>1. ASSUME NEW d \in Client
      PROVE  /\ Lined(pc'[d], i'[d], inQuery'[d], Len(Entries(d)'), file'[d])
             /\ Sealed(pc'[d], recipes'[d], inRecipe'[d], file'[d])
  <2>1. CASE d = c
    BY <2>1
  <2>2. CASE d # c
    <3>1. Entries(d)' = Entries(d)
      BY <2>2 DEF Alone, Entries
    <3> QED
      BY <2>2, <3>1 DEF Alone, Aligned
  <2> QED
    BY <2>1, <2>2
<1> QED
  BY <1>1 DEF Aligned

(* A step that leaves the fingerprints of the batch, the recipe and the     *)
(* file as they are.                                                        *)
LEMMA SameLine ==
    ASSUME Aligned, NEW c \in Client, Alone(c),
           UNCHANGED <<recipes, inRecipe, file>>,
           Len(inQuery'[c]) = Len(inQuery[c]),
           \A j \in 1..Len(inQuery[c]) : inQuery'[c][j].chunkHash = inQuery[c][j].chunkHash,
           pc'[c] \in Open => pc[c] \in Open,
           pc'[c] \in Open \cup {"ended"} =>
               /\ pc[c] \in Open \cup {"ended"}
               /\ Processed(pc'[c], i'[c], inQuery'[c]) = Processed(pc[c], i[c], inQuery[c])
    PROVE  Aligned'
<1>1. Entries(c)' = Entries(c)
  BY DEF Entries
<1>2. Lined(pc'[c], i'[c], inQuery'[c], Len(Entries(c)'), file'[c])
  <2>1. Lined(pc[c], i[c], inQuery[c], Len(Entries(c)), file[c])
    BY DEF Aligned
  <2> DEFINE P == Processed(pc[c], i[c], inQuery[c])
             Q == Processed(pc'[c], i'[c], inQuery'[c])
  <2> HIDE DEF P, Q
  <2>2. /\ Len(Entries(c)) <= Len(file[c])
        /\ pc[c] \in Open \cup {"ended"} =>
              /\ Len(file[c]) = (Len(Entries(c)) - P) + Len(inQuery[c])
              /\ \A j \in 1..Len(inQuery[c]) :
                    file[c][(Len(Entries(c)) - P) + j] = inQuery[c][j].chunkHash
    BY <2>1 DEF Lined, P
  <2>3. /\ Len(Entries(c)') <= Len(file'[c])
        /\ pc'[c] \in Open \cup {"ended"} =>
              /\ Len(file'[c]) = (Len(Entries(c)') - Q) + Len(inQuery'[c])
              /\ \A j \in 1..Len(inQuery'[c]) :
                    file'[c][(Len(Entries(c)') - Q) + j] = inQuery'[c][j].chunkHash
    <3>1. pc'[c] \in Open \cup {"ended"} => pc[c] \in Open \cup {"ended"} /\ Q = P
      BY DEF P, Q
    <3> QED
      BY <1>1, <2>2, <3>1
  <2> QED
    BY <2>3 DEF Lined, Q
<1>3. Sealed(pc'[c], recipes'[c], inRecipe'[c], file'[c])
  BY DEF Aligned, Sealed
<1> QED
  BY <1>2, <1>3, AlignedOfOne

(* Steps that move no address and no fingerprint. *)
LEMMA StillStep ==
    ASSUME TypeOK, Shape, Aligned, NEW c \in Client,
           \/ LockSketch(c) \/ LockTopK(c) \/ LockHeap(c) \/ HeapSkip(c)
           \/ Disconnect(c) \/ LastContainer(c) \/ WriterCheck(c) \/ WriterPop(c)
    PROVE  Aligned' /\ NothingNew
<1> USE DEF shared, enclave, outside, history
<1>1. UNCHANGED <<topK, outIndex, inQuery, outQuery, recipes, inRecipe, file>>
  BY DEF LockSketch, LockTopK, LockHeap, HeapSkip, HeapTurn, Disconnect, LastContainer,
         WriterCheck, WriterPop
<1>2. NothingNew
  BY <1>1 DEF NothingNew, Held, Entries
<1>3. pc \in [Client -> Location] /\ i \in [Client -> Nat \ {0}]
  BY DEF TypeOK, EnclaveType
<1>4. CASE WriterCheck(c) \/ WriterPop(c)
  <2>1. pc' = pc /\ i' = i
    BY <1>4 DEF WriterCheck, WriterPop
  <2> QED
    BY <1>1, <1>2, <2>1 DEF Aligned, Entries
<1>5. CASE LockSketch(c) \/ LockTopK(c) \/ LockHeap(c) \/ Disconnect(c) \/ LastContainer(c)
  <2>1. /\ \A d \in Client \ {c} : pc'[d] = pc[d]
        /\ i' = i
        /\ \/ pc[c] = "lockSketch" /\ pc'[c] = "sketch"
           \/ pc[c] = "lockTopK" /\ pc'[c] = "topK"
           \/ pc[c] = "lockHeap" /\ pc'[c] = "heap"
           \/ pc'[c] \in {"last", "join"}
    BY <1>3, <1>5 DEF LockSketch, LockTopK, LockHeap, Disconnect, LastContainer, Goto
  <2>2. Alone(c)
    BY <1>1, <2>1 DEF Alone
  <2>3. /\ pc'[c] \in Open => pc[c] \in Open
        /\ pc'[c] \in Open \cup {"ended"} =>
              /\ pc[c] \in Open \cup {"ended"}
              /\ Processed(pc'[c], i'[c], inQuery'[c]) = Processed(pc[c], i[c], inQuery[c])
    BY <1>1, <2>1 DEF Open, InBatch, Processed
  <2> QED
    BY <1>1, <1>2, <2>2, <2>3, SameLine
<1>6. CASE HeapSkip(c)
  <2>1. Loop(c, "heap", "outUpdate")
    BY <1>6 DEF HeapSkip, HeapTurn
  <2>2. /\ pc[c] = "heap" /\ pc'[c] \in {"heap", "outUpdate"}
        /\ \A d \in Client \ {c} : pc'[d] = pc[d] /\ i'[d] = i[d]
    BY <2>1, LoopTurn DEF InLoop, Location
  <2>3. Alone(c)
    BY <1>1, <2>2 DEF Alone
  <2>4. /\ pc'[c] \in Open => pc[c] \in Open
        /\ pc'[c] \in Open \cup {"ended"} =>
              /\ pc[c] \in Open \cup {"ended"}
              /\ Processed(pc'[c], i'[c], inQuery'[c]) = Processed(pc[c], i[c], inQuery[c])
    BY <1>1, <2>2 DEF Open, InBatch, Processed
  <2> QED
    BY <1>1, <1>2, <2>3, <2>4, SameLine
<1> QED
  BY <1>4, <1>5, <1>6

(* Changing entry k of the batch of client c. *)
LEMMA EntryChange ==
    ASSUME TypeOK, NEW c \in Client, NEW k \in 1..Len(inQuery[c]), NEW e \in InQueryEntry,
           inQuery' = [inQuery EXCEPT ![c] = [inQuery[c] EXCEPT ![k] = e]]
    PROVE  /\ Len(inQuery'[c]) = Len(inQuery[c]) /\ inQuery'[c][k] = e
           /\ \A j \in 1..Len(inQuery[c]) : j # k => inQuery'[c][j] = inQuery[c][j]
           /\ \A d \in Client \ {c} : inQuery'[d] = inQuery[d]
<1> DEFINE q == inQuery[c]
           r == [q EXCEPT ![k] = e]
<1>1. inQuery \in [Client -> Seq(InQueryEntry)] /\ q \in Seq(InQueryEntry)
  BY DEF TypeOK, EnclaveType
<1>2. inQuery'[c] = r /\ \A d \in Client \ {c} : inQuery'[d] = inQuery[d]
  BY <1>1
<1> HIDE DEF q
<1>3. Len(r) = Len(q) /\ \A j \in 1..Len(q) : r[j] = IF j = k THEN e ELSE q[j]
  BY <1>1, SetEntry DEF q
<1>4. k \in 1..Len(q)
  BY DEF q
<1> HIDE DEF r
<1> QED
  BY <1>2, <1>3, <1>4 DEF q

(* The loops that count and classify the batch. *)
LEMMA CountStep ==
    ASSUME TypeOK, Shape, Aligned, NEW c \in Client,
           UpdateSketch(c) \/ ClassifyUnique(c) \/ ClassifyDuplicate(c)
    PROVE  Aligned' /\ NothingNew
<1> USE DEF outside, history
<1> DEFINE q == inQuery[c]
           k == i[c]
<1>1. /\ UNCHANGED <<topK, outIndex, outQuery, recipes, inRecipe, file>>
      /\ Loop(c, "sketch", "lockTopK") \/ Loop(c, "topK", "query")
  BY DEF UpdateSketch, ClassifyUnique, ClassifyDuplicate
<1>2. /\ pc[c] \in {"sketch", "topK"} /\ pc'[c] \in {"sketch", "lockTopK", "topK", "query"}
      /\ \A d \in Client \ {c} : pc'[d] = pc[d] /\ i'[d] = i[d]
      /\ k \in 1..Len(q) /\ Len(q) \in Nat /\ q \in Seq(InQueryEntry)
  BY <1>1, LoopTurn DEF InLoop, Location
<1>3. q[k] \in InQueryEntry /\ q[k].chunkHash \in Fp
  <2>1. q[k] \in InQueryEntry
    BY <1>2, ElementOfSeq
  <2> QED
    BY <2>1 DEF InQueryEntry
<1>4. PICK e \in InQueryEntry :
         /\ inQuery' = [inQuery EXCEPT ![c] = [q EXCEPT ![k] = e]]
         /\ e.chunkHash = q[k].chunkHash
         /\ \/ e.chunkAddr = q[k].chunkAddr
            \/ TopKHas(topK, e.chunkAddr, e.chunkHash)
  <2>1. CASE UpdateSketch(c)
    <3> DEFINE e == [q[k] EXCEPT !.chunkFreq = Estimate(sketch', q[k].chunkHash)]
    <3>1. sketch' \in Sketch
      BY <1>3, <2>1, UpdateCounters DEF UpdateSketch, TypeOK, SharedType
    <3>2. Estimate(sketch', q[k].chunkHash) \in Nat
      BY <1>3, <3>1, EstimateIsMin
    <3>3. e \in InQueryEntry /\ e.chunkHash = q[k].chunkHash /\ e.chunkAddr = q[k].chunkAddr
      BY <1>3, <3>2 DEF InQueryEntry
    <3>4. inQuery' = [inQuery EXCEPT ![c] = [q EXCEPT ![k] = e]]
      BY <2>1 DEF UpdateSketch
    <3> HIDE DEF e, q, k
    <3> QED
      BY <3>3, <3>4
  <2>2. CASE ClassifyUnique(c)
    <3> DEFINE e == [q[k] EXCEPT !.dedupFlag = "UNIQUE"]
    <3>1. e \in InQueryEntry /\ e.chunkHash = q[k].chunkHash /\ e.chunkAddr = q[k].chunkAddr
      BY <1>3 DEF InQueryEntry, DedupFlag
    <3>2. inQuery' = [inQuery EXCEPT ![c] = [q EXCEPT ![k] = e]]
      BY <2>2 DEF ClassifyUnique
    <3> HIDE DEF e, q, k
    <3> QED
      BY <3>1, <3>2
  <2>3. CASE ClassifyDuplicate(c)
    <3> DEFINE fp == q[k].chunkHash
               e == [[q[k] EXCEPT !.dedupFlag = "DUPLICATE"] EXCEPT !.chunkAddr = topK[fp].address]
    <3>1. fp \in DOMAIN topK
      BY <2>3 DEF ClassifyDuplicate, InTopK
    <3>2. topK[fp].address \in Addr
      BY <3>1 DEF TypeOK, SharedType, PartialFunction, HeapItem
    <3>3. e \in InQueryEntry /\ e.chunkHash = fp /\ e.chunkAddr = topK[fp].address
      BY <1>3, <3>2 DEF InQueryEntry, DedupFlag
    <3>4. inQuery' = [inQuery EXCEPT ![c] = [q EXCEPT ![k] = e]]
      BY <2>3 DEF ClassifyDuplicate
    <3> HIDE DEF e, q, k
    <3>5. TopKHas(topK, e.chunkAddr, e.chunkHash)
      BY <3>1, <3>3 DEF TopKHas
    <3> QED
      BY <3>3, <3>4, <3>5
  <2> QED
    BY <2>1, <2>2, <2>3
<1>5. /\ Len(inQuery'[c]) = Len(q) /\ inQuery'[c][k] = e
      /\ \A j \in 1..Len(q) : j # k => inQuery'[c][j] = q[j]
      /\ \A d \in Client \ {c} : inQuery'[d] = inQuery[d]
  BY <1>2, <1>4, EntryChange
<1>6. Alone(c)
  BY <1>1, <1>2, <1>5 DEF Alone
<1>7. Aligned'
  <2>1. \A j \in 1..Len(q) : inQuery'[c][j].chunkHash = q[j].chunkHash
    BY <1>4, <1>5
  <2>2. /\ pc'[c] \in Open => pc[c] \in Open
        /\ pc'[c] \in Open \cup {"ended"} =>
              /\ pc[c] \in Open \cup {"ended"}
              /\ Processed(pc'[c], i'[c], inQuery'[c]) = Processed(pc[c], i[c], inQuery[c])
    BY <1>2 DEF Open, InBatch, Processed
  <2> QED
    BY <1>1, <1>5, <1>6, <2>1, <2>2, SameLine
<1>8. NothingNew
  <2> SUFFICES ASSUME NEW a \in Addr, NEW fp \in Fp, Held(a, fp)'
               PROVE  Held(a, fp)
    BY DEF NothingNew
  <2>1. BatchHas(inQuery'[c], a, fp) => BatchHas(q, a, fp) \/ TopKHas(topK, a, fp)
    BY <1>2, <1>4, <1>5 DEF BatchHas
  <2>2. Entries(c)' = Entries(c)
    BY <1>1 DEF Entries
  <2>3. BatchHas(q, a, fp) \/ TopKHas(topK, a, fp) => Held(a, fp)
    BY DEF Held
  <2>4. \/ IndexHas(outIndex, a, fp) \/ AnswerHas(outQuery[c], a, fp)
        \/ ListHas(Entries(c), file[c], a, fp)
        => Held(a, fp)
    BY DEF Held
  <2> QED
    BY <1>1, <1>6, <2>1, <2>2, <2>3, <2>4, HeldOfOne
<1> QED
  BY <1>7, <1>8

LEMMA ClassifyLocalStep ==
    ASSUME TypeOK, Shape, Aligned, NEW c \in Client, ClassifyLocal(c)
    PROVE  Aligned' /\ NothingNew
<1> USE DEF outside, history
<1> DEFINE q == inQuery[c]
           k == i[c]
<1>1. /\ UNCHANGED <<topK, outIndex, outQuery, recipes, inRecipe, file>>
      /\ Loop(c, "topK", "query")
  BY DEF ClassifyLocal
<1>2. /\ pc[c] = "topK" /\ pc'[c] \in {"topK", "query"}
      /\ \A d \in Client \ {c} : pc'[d] = pc[d] /\ i'[d] = i[d]
      /\ k \in 1..Len(q) /\ Len(q) \in Nat /\ q \in Seq(InQueryEntry)
  BY <1>1, LoopTurn DEF InLoop, Location
<1>3. PICK j \in LocalIndex(c) :
        inQuery' = [inQuery EXCEPT
             ![c][i[c]].dedupFlag = IF inQuery[c][j].dedupFlag = "UNIQUE"
                                    THEN "TMP_UNIQUE" ELSE "TMP_DUPLICATE",
             ![c][i[c]].ref = j,
             ![c][j].chunkFreq = inQuery[c][i[c]].chunkFreq]
  BY DEF ClassifyLocal
<1>4. j \in Nat /\ j \in 1..Len(q) /\ j # k
  BY <1>2 DEF LocalIndex
<1>5. q[k] \in InQueryEntry /\ q[j] \in InQueryEntry
  BY <1>2, <1>4, ElementOfSeq
<1> DEFINE flag == IF q[j].dedupFlag = "UNIQUE" THEN "TMP_UNIQUE" ELSE "TMP_DUPLICATE"
           e == [[q[k] EXCEPT !.dedupFlag = flag] EXCEPT !.ref = j]
           f == [q[j] EXCEPT !.chunkFreq = q[k].chunkFreq]
           r == [[q EXCEPT ![k] = e] EXCEPT ![j] = f]
<1>6. inQuery \in [Client -> Seq(InQueryEntry)] /\ DOMAIN q = 1..Len(q)
  BY <1>2 DEF TypeOK, EnclaveType
<1>7. inQuery' = [inQuery EXCEPT ![c] = r]
  BY <1>2, <1>3, <1>4, <1>6
<1> HIDE DEF q, k
<1>8. /\ e.chunkHash = q[k].chunkHash /\ e.chunkAddr = q[k].chunkAddr
      /\ f.chunkHash = q[j].chunkHash /\ f.chunkAddr = q[j].chunkAddr
      /\ e \in InQueryEntry /\ f \in InQueryEntry
  BY <1>4, <1>5 DEF InQueryEntry, DedupFlag
<1> HIDE DEF e, f, flag
<1>9. /\ Len(r) = Len(q) /\ r[k] = e /\ r[j] = f
      /\ \A n \in 1..Len(q) : n # k /\ n # j => r[n] = q[n]
  BY <1>2, <1>4, <1>8, SetEntry
<1> HIDE DEF r
<1>10. /\ Len(inQuery'[c]) = Len(q)
       /\ \A n \in 1..Len(q) : /\ inQuery'[c][n].chunkHash = q[n].chunkHash
                               /\ inQuery'[c][n].chunkAddr = q[n].chunkAddr
       /\ \A d \in Client \ {c} : inQuery'[d] = inQuery[d]
  BY <1>6, <1>7, <1>8, <1>9
<1>11. Alone(c)
  BY <1>1, <1>2, <1>10 DEF Alone
<1>12. Aligned'
  <2>1. /\ pc'[c] \in Open => pc[c] \in Open
        /\ pc'[c] \in Open \cup {"ended"} =>
              /\ pc[c] \in Open \cup {"ended"}
              /\ Processed(pc'[c], i'[c], inQuery'[c]) = Processed(pc[c], i[c], inQuery[c])
    BY <1>2 DEF Open, InBatch, Processed
  <2> QED
    BY <1>1, <1>10, <1>11, <2>1, SameLine DEF q
<1>13. NothingNew
  <2> SUFFICES ASSUME NEW a \in Addr, NEW fp \in Fp, Held(a, fp)'
               PROVE  Held(a, fp)
    BY DEF NothingNew
  <2>1. BatchHas(inQuery'[c], a, fp) => BatchHas(inQuery[c], a, fp)
    BY <1>10 DEF BatchHas, q
  <2>2. Entries(c)' = Entries(c)
    BY <1>1 DEF Entries
  <2>3. \/ BatchHas(inQuery[c], a, fp) \/ TopKHas(topK, a, fp)
        \/ IndexHas(outIndex, a, fp) \/ AnswerHas(outQuery[c], a, fp)
        \/ ListHas(Entries(c), file[c], a, fp)
        => Held(a, fp)
    BY DEF Held
  <2> QED
    BY <1>1, <1>11, <2>1, <2>2, <2>3, HeldOfOne
<1> QED
  BY <1>12, <1>13

LEMMA QueryStep ==
    ASSUME TypeOK, Shape, Aligned, NEW c \in Client, QueryOutIndex(c)
    PROVE  Aligned' /\ NothingNew
<1> USE DEF shared, enclave, history
<1> DEFINE oq == [fp \in OutQueryHashes(c) |->
                     IF fp \in DOMAIN outIndex
                     THEN [dedupFlag |-> "DUPLICATE", chunkAddr |-> outIndex[fp]]
                     ELSE [dedupFlag |-> "UNIQUE",    chunkAddr |-> NoAddr]]
<1>1. /\ pc[c] = "query" /\ pc' = [pc EXCEPT ![c] = "proc"]
      /\ i' = i /\ inQuery' = inQuery
      /\ outQuery' = [outQuery EXCEPT ![c] = oq]
      /\ UNCHANGED <<topK, outIndex, recipes, inRecipe, file>>
  BY DEF QueryOutIndex, Goto
<1>2. /\ pc'[c] = "proc" /\ outQuery'[c] = oq
      /\ \A d \in Client \ {c} : pc'[d] = pc[d] /\ outQuery'[d] = outQuery[d]
  BY <1>1 DEF TypeOK, EnclaveType, OutsideType
<1>3. Alone(c)
  BY <1>1, <1>2 DEF Alone
<1>4. i[c] = 1
  BY <1>1 DEF Shape, BatchShape, InLoop
<1>5. Aligned'
  <2>1. Processed(pc'[c], i'[c], inQuery'[c]) = Processed(pc[c], i[c], inQuery[c])
    BY <1>1, <1>2, <1>4 DEF Processed
  <2>2. pc[c] \in Open
    BY <1>1 DEF Open, InBatch
  <2> QED
    BY <1>1, <1>3, <2>1, <2>2, SameLine
<1>6. NothingNew
  <2> SUFFICES ASSUME NEW a \in Addr, NEW fp \in Fp, Held(a, fp)'
               PROVE  Held(a, fp)
    BY DEF NothingNew
  <2>1. AnswerHas(outQuery'[c], a, fp) => IndexHas(outIndex, a, fp)
    BY <1>2, NoAddrAssumption DEF AnswerHas, IndexHas
  <2>2. Entries(c)' = Entries(c)
    BY <1>1 DEF Entries
  <2>3. \/ BatchHas(inQuery[c], a, fp) \/ TopKHas(topK, a, fp)
        \/ IndexHas(outIndex, a, fp)
        \/ ListHas(Entries(c), file[c], a, fp)
        => Held(a, fp)
    BY DEF Held
  <2> QED
    BY <1>1, <1>3, <2>1, <2>2, <2>3, HeldOfOne
<1> QED
  BY <1>5, <1>6

(* Giving entry i of the batch its recipe entry: the place in the recipe is *)
(* that of the chunk in the file.                                           *)
LEMMA RecipeTurn ==
    ASSUME TypeOK, Shape, Aligned, NEW c \in Client, NEW addr \in Addr,
           Loop(c, "proc", "lockHeap"), Listed(c, addr), file' = file,
           Len(inQuery'[c]) = Len(inQuery[c]),
           \A j \in 1..Len(inQuery[c]) : inQuery'[c][j].chunkHash = inQuery[c][j].chunkHash,
           \A d \in Client \ {c} : inQuery'[d] = inQuery[d] /\ outQuery'[d] = outQuery[d]
    PROVE  /\ Aligned' /\ Alone(c)
           /\ \A a, fp : ListHas(Entries(c)', file'[c], a, fp) =>
                 \/ ListHas(Entries(c), file[c], a, fp)
                 \/ a = addr /\ fp = inQuery[c][i[c]].chunkHash
<1> DEFINE q == inQuery[c]
           k == i[c]
           L == Len(Entries(c))
           f == file[c]
<1>1. /\ pc[c] = "proc" /\ k \in 1..Len(q) /\ Len(q) \in Nat
      /\ \A d \in Client \ {c} : pc'[d] = pc[d] /\ i'[d] = i[d]
      /\ \/ k = Len(q) /\ pc'[c] = "lockHeap" /\ i'[c] = 1
         \/ k < Len(q) /\ pc'[c] = "proc" /\ i'[c] = k + 1
  BY LoopTurn DEF InLoop, Location
<1>2. Alone(c)
  BY <1>1 DEF Alone, Listed
<1>3. /\ Lined(pc[c], k, q, L, f) /\ Sealed(pc[c], recipes[c], inRecipe[c], f)
      /\ L \in Nat /\ Len(f) \in Nat
  BY EntriesTyped DEF Aligned
<1>4. /\ Len(f) = (L - (k - 1)) + Len(q)
      /\ \A j \in 1..Len(q) : f[(L - (k - 1)) + j] = q[j].chunkHash
  BY <1>1, <1>3 DEF Lined, Processed, Open, InBatch
<1>5. Len(Entries(c)') = L + 1
  BY DEF Listed
<1> HIDE DEF q, k, L, f
<1>6. k \in Nat /\ (L - (k - 1)) + k = L + 1 /\ (L + 1) - k = L - (k - 1) /\ L + 1 <= Len(f)
  BY <1>1, <1>3, <1>4
<1>7. f[L + 1] = q[k].chunkHash
  BY <1>1, <1>4, <1>6
<1>8. Processed(pc'[c], i'[c], inQuery'[c]) = k
  <2>1. CASE k = Len(q) /\ pc'[c] = "lockHeap" /\ i'[c] = 1
    BY <2>1 DEF Processed, q
  <2>2. CASE k < Len(q) /\ pc'[c] = "proc" /\ i'[c] = k + 1
    BY <1>6, <2>2 DEF Processed
  <2> QED
    BY <1>1, <2>1, <2>2
<1>9. Lined(pc'[c], i'[c], inQuery'[c], Len(Entries(c)'), file'[c])
  <2>1. Len(inQuery'[c]) = Len(q) /\ \A j \in 1..Len(q) : inQuery'[c][j].chunkHash = q[j].chunkHash
    BY DEF q
  <2>2. file'[c] = f
    BY DEF f
  <2>3. /\ Len(f) = ((L + 1) - k) + Len(q)
        /\ \A j \in 1..Len(q) : f[((L + 1) - k) + j] = q[j].chunkHash
    BY <1>4, <1>6
  <2> QED
    BY <1>5, <1>6, <1>8, <2>1, <2>2, <2>3 DEF Lined
<1>10. recipes[c].head # "final" /\ recipes'[c].head # "final"
  BY <1>1, <1>3 DEF Sealed, Open, InBatch, Listed
<1>11. Aligned'
  BY <1>2, <1>9, <1>10, AlignedOfOne DEF Sealed
<1>12. ASSUME NEW a, NEW fp, ListHas(Entries(c)', file'[c], a, fp)
       PROVE  ListHas(Entries(c), f, a, fp) \/ (a = addr /\ fp = q[k].chunkHash)
  <2>1. PICK j \in 1..(L + 1) : Entries(c)'[j] = a /\ f[j] = fp
    BY <1>5, <1>12 DEF ListHas, f
  <2>2. CASE j = L + 1
    BY <1>7, <2>1, <2>2 DEF Listed, L
  <2>3. CASE j # L + 1
    <3>1. j \in 1..L
      BY <1>3, <2>3 DEF L
    <3>2. Entries(c)'[j] = Entries(c)[j]
      BY <3>1 DEF Listed, L
    <3> QED
      BY <2>1, <3>1, <3>2 DEF ListHas, L
  <2> QED
    BY <2>2, <2>3
<1> QED
  BY <1>2, <1>11, <1>12 DEF q, k, f

(* The address of a chunk that need not be stored is held for this chunk. *)
LEMMA KnownAddrHeld ==
    ASSUME TypeOK, Shape, NEW c \in Client, pc[c] = "proc", ~NeedsStore(c)
    PROVE  Held(KnownAddr(c), inQuery[c][i[c]].chunkHash)
<1> DEFINE q == inQuery[c]
           k == i[c]
           oq == outQuery[c]
           a == KnownAddr(c)
           fp == q[k].chunkHash
<1>1. /\ k \in 1..Len(q) /\ q \in Seq(InQueryEntry) /\ Len(q) \in Nat
      /\ Classified(q, Len(q)) /\ Queried(q, oq, k - 1)
  BY DEF TypeOK, EnclaveType, Shape, BatchShape, InBatch
<1>2. q[k] \in InQueryEntry
  BY <1>1, ElementOfSeq
<1>3. /\ q[k].dedupFlag \in {"UNIQUE", "DUPLICATE", "TMP_UNIQUE", "TMP_DUPLICATE"}
      /\ q[k].dedupFlag \in {"TMP_UNIQUE", "TMP_DUPLICATE"} =>
            /\ q[k].ref \in 1..(k - 1)
            /\ q[q[k].ref].chunkHash = q[k].chunkHash
  BY <1>1, <1>2 DEF Classified, InQueryEntry, DedupFlag
<1>4. CASE q[k].dedupFlag = "DUPLICATE"
  <2>1. a = q[k].chunkAddr
    BY <1>4 DEF KnownAddr
  <2>2. BatchHas(q, a, fp)
    BY <1>1, <2>1 DEF BatchHas
  <2> QED
    BY <2>2 DEF Held
<1>5. CASE q[k].dedupFlag = "UNIQUE"
  <2>1. a = oq[q[k].chunkHash].chunkAddr
    BY <1>5 DEF KnownAddr
  <2>2. AnswerHas(oq, a, fp)
    BY <1>1, <1>5, <2>1 DEF Queried, AnswerHas
  <2> QED
    BY <2>2 DEF Held
<1>6. CASE q[k].dedupFlag \in {"TMP_UNIQUE", "TMP_DUPLICATE"}
  <2>1. a = q[q[k].ref].chunkAddr
    BY <1>6 DEF KnownAddr
  <2>2. q[k].ref \in 1..Len(q)
    BY <1>1, <1>3, <1>6
  <2>3. BatchHas(q, a, fp)
    BY <1>3, <1>6, <2>1, <2>2 DEF BatchHas
  <2> QED
    BY <2>3 DEF Held
<1> QED
  BY <1>3, <1>4, <1>5, <1>6

LEMMA ProcessDuplicateStep ==
    ASSUME TypeOK, Shape, Aligned, NEW c \in Client, ProcessDuplicate(c)
    PROVE  Aligned' /\ NothingNew
<1> USE DEF outside, history
<1> DEFINE q == inQuery[c]
           k == i[c]
           addr == KnownAddr(c)
<1>1. /\ Loop(c, "proc", "lockHeap") /\ ~NeedsStore(c) /\ UpdateFileRecipe(c, addr)
      /\ UNCHANGED <<topK, outIndex, outQuery, file>>
      /\ inQuery' = IF q[k].dedupFlag = "UNIQUE"
                    THEN [inQuery EXCEPT ![c] = [q EXCEPT ![k] = [q[k] EXCEPT !.chunkAddr = addr]]]
                    ELSE inQuery
  BY DEF ProcessDuplicate
<1>2. /\ pc[c] = "proc" /\ k \in 1..Len(q) /\ Len(q) \in Nat /\ q \in Seq(InQueryEntry)
  BY <1>1, LoopTurn DEF InLoop, Location
<1>3. addr \in Addr /\ Held(addr, q[k].chunkHash)
  BY <1>1, <1>2, KnownAddrSet, KnownAddrHeld
<1>4. Listed(c, addr)
  BY <1>1, <1>3, RecipeGrows
<1>5. /\ Len(inQuery'[c]) = Len(q)
      /\ \A j \in 1..Len(q) :
            /\ inQuery'[c][j].chunkHash = q[j].chunkHash
            /\ \/ inQuery'[c][j].chunkAddr = q[j].chunkAddr
               \/ j = k /\ inQuery'[c][j].chunkAddr = addr
      /\ \A d \in Client \ {c} : inQuery'[d] = inQuery[d]
  <2>1. CASE q[k].dedupFlag = "UNIQUE"
    <3> DEFINE e == [q[k] EXCEPT !.chunkAddr = addr]
    <3>1. q[k] \in InQueryEntry
      BY <1>2, ElementOfSeq
    <3>2. e \in InQueryEntry /\ e.chunkHash = q[k].chunkHash /\ e.chunkAddr = addr
      BY <1>3, <3>1 DEF InQueryEntry
    <3>3. inQuery' = [inQuery EXCEPT ![c] = [q EXCEPT ![k] = e]]
      BY <1>1, <2>1
    <3> HIDE DEF e
    <3>4. /\ Len(inQuery'[c]) = Len(q) /\ inQuery'[c][k] = e
          /\ \A j \in 1..Len(q) : j # k => inQuery'[c][j] = q[j]
          /\ \A d \in Client \ {c} : inQuery'[d] = inQuery[d]
      BY <1>2, <3>2, <3>3, EntryChange
    <3> QED
      BY <3>2, <3>4
  <2>2. CASE q[k].dedupFlag # "UNIQUE"
    BY <1>1, <2>2
  <2> QED
    BY <2>1, <2>2
<1>6. /\ Aligned' /\ Alone(c)
      /\ \A a, fp : ListHas(Entries(c)', file'[c], a, fp) =>
            ListHas(Entries(c), file[c], a, fp) \/ (a = addr /\ fp = q[k].chunkHash)
  BY <1>1, <1>3, <1>4, <1>5, RecipeTurn
<1>7. NothingNew
  <2> SUFFICES ASSUME NEW a \in Addr, NEW fp \in Fp, Held(a, fp)'
               PROVE  Held(a, fp)
    BY DEF NothingNew
  <2>1. BatchHas(inQuery'[c], a, fp) => BatchHas(q, a, fp) \/ (a = addr /\ fp = q[k].chunkHash)
    BY <1>5 DEF BatchHas
  <2>2. ListHas(Entries(c)', file'[c], a, fp) =>
           ListHas(Entries(c), file[c], a, fp) \/ (a = addr /\ fp = q[k].chunkHash)
    BY <1>6
  <2> HIDE DEF addr
  <2>3. a = addr /\ fp = q[k].chunkHash => Held(a, fp)
    BY <1>3
  <2>4. \/ BatchHas(q, a, fp) \/ TopKHas(topK, a, fp)
        \/ IndexHas(outIndex, a, fp) \/ AnswerHas(outQuery[c], a, fp)
        \/ ListHas(Entries(c), file[c], a, fp)
        => Held(a, fp)
    BY DEF Held
  <2> QED
    BY <1>1, <1>6, <2>1, <2>2, <2>3, <2>4, HeldOfOne
<1> QED
  BY <1>6, <1>7

(* Storing a chunk: the only new address is the one SaveChunk returned. *)
LEMMA ProcessUniqueStep ==
    ASSUME TypeOK, TypeOK', Shape, Storage, Aligned, Known, NEW c \in Client, ProcessUnique(c)
    PROVE  Storage' /\ Aligned' /\ Known'
<1> DEFINE q == inQuery[c]
           k == i[c]
           fp == q[k].chunkHash
           addr == SaveAddr(c, fp)
           e == [q[k] EXCEPT !.chunkAddr = addr]
           oq == outQuery[c]
           or == [oq EXCEPT ![fp] = [oq[fp] EXCEPT !.chunkAddr = addr]]
<1>1. /\ Loop(c, "proc", "lockHeap") /\ NeedsStore(c) /\ SaveChunk(c, fp)
      /\ UpdateFileRecipe(c, addr)
      /\ inQuery' = [inQuery EXCEPT ![c] = [q EXCEPT ![k] = e]]
      /\ outQuery' = [outQuery EXCEPT ![c] = or]
      /\ UNCHANGED <<topK, outIndex, done, writer, file, aborts>>
  BY DEF ProcessUnique, history
<1>2. /\ pc[c] = "proc" /\ pc'[c] \in {"proc", "lockHeap"}
      /\ \A d \in Client \ {c} : pc'[d] = pc[d]
      /\ k \in 1..Len(q) /\ Len(q) \in Nat /\ q \in Seq(InQueryEntry)
  BY <1>1, LoopTurn DEF InLoop, Location
<1>3. q[k] \in InQueryEntry /\ fp \in Fp
  <2>1. q[k] \in InQueryEntry
    BY <1>2, ElementOfSeq
  <2> QED
    BY <2>1 DEF InQueryEntry
<1>4. addr \in Addr
  BY <1>1, <1>3, SaveTyped
<1>5. e \in InQueryEntry /\ e.chunkHash = fp /\ e.chunkAddr = addr
  BY <1>3, <1>4 DEF InQueryEntry
<1>6. Listed(c, addr)
  BY <1>1, <1>4, RecipeGrows
<1> HIDE DEF addr, e, q, k, fp, oq
<1>7. PICK x \in Addr, g \in Fp : x = addr /\ g = fp
  BY <1>3, <1>4
<1>8. Storage' /\ Kept /\ Good(x, g)'
  <2>1. pc'[c] \in Open
    BY <1>2 DEF Open, InBatch
  <2>2. x = SaveAddr(c, g) /\ SaveChunk(c, g)
    BY <1>1, <1>7 DEF addr
  <2> QED
    BY <1>1, <1>2, <2>1, <2>2, SaveStep
<1>9. /\ Len(inQuery'[c]) = Len(q) /\ inQuery'[c][k] = e
      /\ \A j \in 1..Len(q) : j # k => inQuery'[c][j] = q[j]
      /\ \A d \in Client \ {c} : inQuery'[d] = inQuery[d]
  BY <1>1, <1>2, <1>5, EntryChange DEF q
<1>10. outQuery'[c] = or /\ \A d \in Client \ {c} : outQuery'[d] = outQuery[d]
  BY <1>1 DEF TypeOK, OutsideType
<1>11. /\ Aligned' /\ Alone(c)
       /\ \A a, h : ListHas(Entries(c)', file'[c], a, h) =>
             ListHas(Entries(c), file[c], a, h) \/ (a = addr /\ h = fp)
  <2>1. \A j \in 1..Len(q) : inQuery'[c][j].chunkHash = q[j].chunkHash
    BY <1>2, <1>5, <1>9 DEF fp
  <2> QED
    BY <1>1, <1>4, <1>6, <1>9, <1>10, <2>1, RecipeTurn DEF q, k, fp
<1>12. ASSUME NEW a \in Addr, NEW h \in Fp, Held(a, h)'
       PROVE  Held(a, h) \/ (a = x /\ h = g)
  <2>1. BatchHas(inQuery'[c], a, h) => BatchHas(q, a, h) \/ (a = x /\ h = g)
    BY <1>2, <1>5, <1>7, <1>9 DEF BatchHas
  <2>2. AnswerHas(outQuery'[c], a, h) => AnswerHas(oq, a, h) \/ (a = x /\ h = g)
    <3>1. DOMAIN or = DOMAIN oq /\ \A z \in DOMAIN oq : z # fp => or[z] = oq[z]
      OBVIOUS
    <3>2. fp \in DOMAIN oq => or[fp].chunkAddr = addr
      <4>1. PartialFunction(oq, Fp, OutQueryEntry)
        BY DEF TypeOK, OutsideType, oq
      <4>2. fp \in DOMAIN oq => oq[fp] \in OutQueryEntry
        BY <4>1 DEF PartialFunction
      <4> QED
        BY <4>2 DEF OutQueryEntry
    <3> HIDE DEF or
    <3> QED
      BY <1>7, <1>10, <3>1, <3>2 DEF AnswerHas
  <2>3. ListHas(Entries(c)', file'[c], a, h) =>
           ListHas(Entries(c), file[c], a, h) \/ (a = x /\ h = g)
    BY <1>7, <1>11
  <2>4. \/ BatchHas(q, a, h) \/ TopKHas(topK, a, h)
        \/ IndexHas(outIndex, a, h) \/ AnswerHas(oq, a, h)
        \/ ListHas(Entries(c), file[c], a, h)
        => Held(a, h)
    BY DEF Held, q, oq
  <2> QED
    BY <1>1, <1>11, <1>12, <2>1, <2>2, <2>3, <2>4, HeldOfOne
<1>13. Known'
  <2> SUFFICES ASSUME NEW a \in Addr, NEW h \in Fp, Held(a, h)'
               PROVE  Good(a, h)'
    BY DEF Known
  <2>1. CASE a = x /\ h = g
    BY <1>8, <2>1
  <2>2. CASE Held(a, h)
    BY <1>8, <2>2, GoodKept DEF Known
  <2> QED
    BY <1>12, <2>1, <2>2
<1> QED
  BY <1>8, <1>11, <1>13

(* The heap phase copies addresses of the batch into the top-k index. *)
LEMMA HeapStep ==
    ASSUME TypeOK, Shape, Aligned, NEW c \in Client, HeapUpdateFreq(c) \/ HeapAdd(c)
    PROVE  Aligned' /\ NothingNew
<1> USE DEF enclave, outside, history
<1> DEFINE e == inQuery[c][i[c]]
<1>1. /\ HeapTurn(c) /\ Loop(c, "heap", "outUpdate")
      /\ UNCHANGED <<outIndex, inQuery, outQuery, recipes, inRecipe, file>>
  BY DEF HeapUpdateFreq, HeapAdd, HeapTurn
<1>2. /\ pc[c] = "heap" /\ pc'[c] \in {"heap", "outUpdate"}
      /\ \A d \in Client \ {c} : pc'[d] = pc[d] /\ i'[d] = i[d]
      /\ i[c] \in 1..Len(inQuery[c])
  BY <1>1, LoopTurn DEF InLoop, Location
<1>3. Alone(c)
  BY <1>1, <1>2 DEF Alone
<1>4. Aligned'
  <2>1. /\ pc'[c] \in Open => pc[c] \in Open
        /\ pc'[c] \in Open \cup {"ended"} =>
              /\ pc[c] \in Open \cup {"ended"}
              /\ Processed(pc'[c], i'[c], inQuery'[c]) = Processed(pc[c], i[c], inQuery[c])
    BY <1>1, <1>2 DEF Open, InBatch, Processed
  <2> QED
    BY <1>1, <1>3, <2>1, SameLine
<1>5. ASSUME NEW a, NEW fp, TopKHas(topK', a, fp)
      PROVE  TopKHas(topK, a, fp) \/ (a = e.chunkAddr /\ fp = e.chunkHash)
  <2>1. topK \in [DOMAIN topK -> HeapItem]
    BY DEF TypeOK, SharedType, PartialFunction
  <2>2. CASE HeapUpdateFreq(c)
    <3> DEFINE g == e.chunkHash
               v == [topK[g] EXCEPT !.chunkFreq = e.chunkFreq]
    <3>1. g \in DOMAIN topK /\ topK' = [topK EXCEPT ![g] = v]
      BY <2>2 DEF HeapUpdateFreq, UpdateInsideIndexFreq
    <3>2. v.address = topK[g].address
      BY <2>1, <3>1 DEF HeapItem
    <3> HIDE DEF v, g
    <3>3. DOMAIN topK' = DOMAIN topK /\ \A n \in DOMAIN topK : topK'[n].address = topK[n].address
      BY <3>1, <3>2
    <3> QED
      BY <1>5, <3>3 DEF TopKHas
  <2>3. CASE HeapAdd(c)
    <3>1. PICK popped \in PopChoices :
             /\ DOMAIN topK' = (DOMAIN topK \ popped) \cup {e.chunkHash}
             /\ \A n \in DOMAIN topK \ popped : topK'[n] = topK[n]
      BY <2>3, HeapAddIndex
    <3>2. topK'[e.chunkHash].address = e.chunkAddr
      BY <2>3, HeapAddIndex
    <3> QED
      BY <1>5, <3>1, <3>2 DEF TopKHas
  <2> QED
    BY <2>2, <2>3
<1>6. NothingNew
  <2> SUFFICES ASSUME NEW a \in Addr, NEW fp \in Fp, Held(a, fp)'
               PROVE  Held(a, fp)
    BY DEF NothingNew
  <2>1. a = e.chunkAddr /\ fp = e.chunkHash => BatchHas(inQuery[c], a, fp)
    BY <1>2 DEF BatchHas
  <2>2. Entries(c)' = Entries(c)
    BY <1>1 DEF Entries
  <2>3. \/ BatchHas(inQuery[c], a, fp) \/ TopKHas(topK, a, fp)
        \/ IndexHas(outIndex, a, fp) \/ AnswerHas(outQuery[c], a, fp)
        \/ ListHas(Entries(c), file[c], a, fp)
        => Held(a, fp)
    BY DEF Held
  <2> QED
    BY <1>1, <1>3, <1>5, <2>1, <2>2, <2>3, HeldOfOne
<1> QED
  BY <1>4, <1>6

(* The end of the batch copies its answers into the out-enclave index. *)
LEMMA UpdateOutIndexStep ==
    ASSUME TypeOK, Shape, Aligned, NEW c \in Client, UpdateOutIndex(c)
    PROVE  Aligned' /\ NothingNew
<1> USE DEF history
<1> DEFINE idx == [fp \in NewEntries(c) \cup DOMAIN outIndex |->
                      IF fp \in NewEntries(c) THEN outQuery[c][fp].chunkAddr ELSE outIndex[fp]]
<1>1. /\ pc[c] = "outUpdate" /\ pc' = [pc EXCEPT ![c] = "recv"]
      /\ i' = i
      /\ inQuery' = [inQuery EXCEPT ![c] = <<>>]
      /\ outQuery' = [outQuery EXCEPT ![c] = <<>>]
      /\ outIndex' = idx
      /\ UNCHANGED <<topK, recipes, inRecipe, file>>
  BY DEF UpdateOutIndex, Goto
<1>2. /\ pc'[c] = "recv" /\ inQuery'[c] = <<>> /\ outQuery'[c] = <<>>
      /\ \A d \in Client \ {c} : /\ pc'[d] = pc[d] /\ inQuery'[d] = inQuery[d]
                                 /\ outQuery'[d] = outQuery[d]
  BY <1>1 DEF TypeOK, EnclaveType, OutsideType
<1>3. Alone(c)
  BY <1>1, <1>2 DEF Alone
<1>4. Entries(c)' = Entries(c)
  BY <1>1 DEF Entries
<1>5. /\ Lined(pc[c], i[c], inQuery[c], Len(Entries(c)), file[c])
      /\ Sealed(pc[c], recipes[c], inRecipe[c], file[c])
  BY DEF Aligned
<1>6. Len(inQuery[c]) \in Nat /\ Len(Entries(c)) \in Nat
  BY EntriesTyped DEF TypeOK, EnclaveType
<1>7. Len(file[c]) = Len(Entries(c))
  <2>1. Len(file[c]) = (Len(Entries(c)) - Len(inQuery[c])) + Len(inQuery[c])
    BY <1>1, <1>5 DEF Lined, Processed, Open, InBatch
  <2> QED
    BY <1>6, <2>1
<1>8. Lined(pc'[c], i'[c], inQuery'[c], Len(Entries(c)'), file'[c])
  <2>1. Processed(pc'[c], i'[c], inQuery'[c]) = 0 /\ Len(inQuery'[c]) = 0
    BY <1>2 DEF Processed
  <2> QED
    BY <1>1, <1>4, <1>6, <1>7, <2>1 DEF Lined
<1>9. Sealed(pc'[c], recipes'[c], inRecipe'[c], file'[c])
  BY <1>1, <1>5 DEF Sealed, Open, InBatch
<1>10. Aligned'
  BY <1>3, <1>8, <1>9, AlignedOfOne
<1>11. NothingNew
  <2> SUFFICES ASSUME NEW a \in Addr, NEW fp \in Fp, Held(a, fp)'
               PROVE  Held(a, fp)
    BY DEF NothingNew
  <2>1. IndexHas(outIndex', a, fp) => IndexHas(outIndex, a, fp) \/ AnswerHas(outQuery[c], a, fp)
    BY <1>1 DEF IndexHas, AnswerHas, NewEntries
  <2>2. ~BatchHas(inQuery'[c], a, fp) /\ ~AnswerHas(outQuery'[c], a, fp)
    BY <1>2 DEF BatchHas, AnswerHas
  <2>3. \/ TopKHas(topK, a, fp)
        \/ IndexHas(outIndex, a, fp) \/ AnswerHas(outQuery[c], a, fp)
        \/ ListHas(Entries(c), file[c], a, fp)
        => Held(a, fp)
    BY DEF Held
  <2> QED
    BY <1>1, <1>3, <1>4, <2>1, <2>2, <2>3, HeldOfOne
<1> QED
  BY <1>10, <1>11

LEMMA RecvBatchStep ==
    ASSUME TypeOK, Shape, Aligned, NEW c \in Client, NEW b \in Batches, RecvBatch(c, b)
    PROVE  Aligned' /\ NothingNew
<1> USE DEF shared, outside
<1> DEFINE q == [j \in 1..Len(b) |-> [chunkHash |-> b[j], chunkFreq |-> 0,
                dedupFlag |-> "NONE", chunkAddr |-> NoAddr, ref |-> j]]
           f == file[c]
           L == Len(Entries(c))
<1>1. b \in Seq(Fp) /\ Len(b) \in Nat
  BY UploadAssumption
<1>2. /\ pc[c] = "recv" /\ pc' = [pc EXCEPT ![c] = "lockSketch"]
      /\ inQuery' = [inQuery EXCEPT ![c] = q] /\ file' = [file EXCEPT ![c] = f \o b]
      /\ UNCHANGED <<i, topK, outIndex, outQuery, recipes, inRecipe>>
  BY DEF RecvBatch, Goto
<1>3. /\ pc'[c] = "lockSketch" /\ inQuery'[c] = q /\ file'[c] = f \o b
      /\ \A d \in Client \ {c} : /\ pc'[d] = pc[d] /\ inQuery'[d] = inQuery[d]
                                 /\ file'[d] = file[d]
  BY <1>2 DEF TypeOK, EnclaveType, HistoryType
<1>4. Alone(c)
  BY <1>2, <1>3 DEF Alone
<1>5. Entries(c)' = Entries(c)
  BY <1>2 DEF Entries
<1>6. /\ Len(q) = Len(b) /\ \A j \in 1..Len(b) : q[j].chunkHash = b[j] /\ q[j].chunkAddr = NoAddr
  BY <1>1, IsASeq
<1> HIDE DEF q
<1>7. L \in Nat /\ f \in Seq(Fp) /\ Len(f) = L
  <2>1. inQuery[c] = <<>>
    BY <1>2 DEF Shape, BatchShape, InBatch
  <2>2. Lined(pc[c], i[c], inQuery[c], L, f) /\ L \in Nat /\ f \in Seq(Fp)
    BY EntriesTyped DEF Aligned
  <2>3. Len(f) = (L - 0) + 0
    BY <1>2, <2>1, <2>2 DEF Lined, Processed, Open
  <2> QED
    BY <2>2, <2>3
<1> HIDE DEF f, L
<1>8. /\ Len(f \o b) = L + Len(b)
      /\ \A j \in 1..L : (f \o b)[j] = f[j]
      /\ \A j \in 1..Len(b) : (f \o b)[L + j] = b[j]
  <2>1. /\ Len(f \o b) = Len(f) + Len(b)
        /\ \A j \in 1..(Len(f) + Len(b)) : (f \o b)[j] = IF j <= Len(f) THEN f[j] ELSE b[j - Len(f)]
    BY <1>1, <1>7, ConcatProperties
  <2>2. \A j \in 1..L : (f \o b)[j] = f[j]
    BY <1>1, <1>7, <2>1
  <2>3. ASSUME NEW j \in 1..Len(b) PROVE (f \o b)[L + j] = b[j]
    <3>1. L + j \in 1..(Len(f) + Len(b)) /\ ~(L + j <= Len(f)) /\ (L + j) - Len(f) = j
      BY <1>1, <1>7
    <3> QED
      BY <2>1, <3>1
  <2> QED
    BY <1>7, <2>1, <2>2, <2>3
<1>9. Lined(pc'[c], i'[c], inQuery'[c], Len(Entries(c)'), file'[c])
  <2>1. Processed(pc'[c], i'[c], inQuery'[c]) = 0
    BY <1>3 DEF Processed
  <2>2. /\ L <= Len(f \o b) /\ Len(f \o b) = (L - 0) + Len(q)
        /\ \A j \in 1..Len(q) : (f \o b)[(L - 0) + j] = q[j].chunkHash
    BY <1>1, <1>6, <1>7, <1>8
  <2> QED
    BY <1>3, <1>5, <2>1, <2>2 DEF Lined, L, f
<1>10. Sealed(pc'[c], recipes'[c], inRecipe'[c], file'[c])
  BY <1>2 DEF Aligned, Sealed, Open
<1>11. Aligned'
  BY <1>4, <1>9, <1>10, AlignedOfOne
<1>12. NothingNew
  <2> SUFFICES ASSUME NEW a \in Addr, NEW fp \in Fp, Held(a, fp)'
               PROVE  Held(a, fp)
    BY DEF NothingNew
  <2>1. ~BatchHas(inQuery'[c], a, fp)
    BY <1>3, <1>6, NoAddrAssumption DEF BatchHas
  <2>2. ListHas(Entries(c)', file'[c], a, fp) => ListHas(Entries(c), file[c], a, fp)
    BY <1>3, <1>5, <1>8 DEF ListHas, L, f
  <2>3. \/ TopKHas(topK, a, fp)
        \/ IndexHas(outIndex, a, fp) \/ AnswerHas(outQuery[c], a, fp)
        \/ ListHas(Entries(c), file[c], a, fp)
        => Held(a, fp)
    BY DEF Held
  <2> QED
    BY <1>2, <1>4, <2>1, <2>2, <2>3, HeldOfOne
<1> QED
  BY <1>11, <1>12

(* Starting a session, its recipe end and its end drop recipe entries or    *)
(* keep them.                                                               *)
LEMMA SessionStep ==
    ASSUME TypeOK, TypeOK', Shape, Aligned, NEW c \in Client,
           StartUpload(c) \/ RecvRecipeEnd(c) \/ Join(c)
    PROVE  Aligned' /\ NothingNew
<1> USE DEF shared, outside, history
<1>2. /\ pc \in [Client -> Location] /\ recipes \in [Client -> RecipeFile]
      /\ inRecipe \in [Client -> Seq(Addr)] /\ file \in [Client -> Seq(Fp)]
  BY DEF TypeOK, SharedType, EnclaveType, HistoryType
<1>1. /\ UNCHANGED <<i, topK, outIndex, inQuery, outQuery>>
      /\ Alone(c)
  <2>1. CASE StartUpload(c)
    BY <1>2, <2>1 DEF StartUpload, Goto, Alone
  <2>2. CASE RecvRecipeEnd(c)
    BY <1>2, <2>2 DEF RecvRecipeEnd, Goto, Alone
  <2>3. CASE Join(c)
    BY <1>2, <2>3 DEF Join, Goto, Alone
  <2> QED
    BY <2>1, <2>2, <2>3
<1>3. /\ Lined(pc[c], i[c], inQuery[c], Len(Entries(c)), file[c])
      /\ Sealed(pc[c], recipes[c], inRecipe[c], file[c])
  BY DEF Aligned
<1>4. /\ Len(Entries(c)) \in Nat /\ Len(file[c]) \in Nat /\ Len(recipes[c].entryList) \in Nat
      /\ Len(recipes[c].entryList) <= Len(Entries(c))
      /\ \A j \in 1..Len(recipes[c].entryList) : Entries(c)[j] = recipes[c].entryList[j]
      /\ Entries(c) \in Seq(Addr) /\ recipes[c].entryList \in Seq(Addr)
  BY EntriesTyped
<1>5. /\ \A a, fp : ListHas(Entries(c)', file'[c], a, fp) => ListHas(Entries(c), file[c], a, fp)
      /\ Lined(pc'[c], i'[c], inQuery'[c], Len(Entries(c)'), file'[c])
      /\ Sealed(pc'[c], recipes'[c], inRecipe'[c], file'[c])
  <2>1. CASE StartUpload(c)
    <3>1. /\ pc[c] = "idle" /\ pc'[c] = "recv" /\ inRecipe'[c] = <<>> /\ file'[c] = <<>>
          /\ recipes'[c] = [head |-> "virtual", entryList |-> <<>>]
      BY <1>2, <2>1 DEF StartUpload, Goto
    <3>2. Entries(c)' = <<>>
      BY <3>1 DEF Entries
    <3>3. inQuery'[c] = <<>>
      BY <1>1, <3>1 DEF Shape, BatchShape, InBatch
    <3>4. Lined(pc'[c], i'[c], inQuery'[c], Len(Entries(c)'), file'[c])
      BY <3>1, <3>2, <3>3 DEF Lined, Processed
    <3> QED
      BY <3>1, <3>2, <3>4 DEF ListHas, Sealed
  <2>2. CASE RecvRecipeEnd(c)
    <3>1. /\ pc[c] = "recv" /\ pc'[c] = "ended" /\ inRecipe'[c] = <<>> /\ file'[c] = file[c]
          /\ recipes'[c] = [head |-> "final", entryList |-> Entries(c)]
      BY <1>2, <2>2 DEF RecvRecipeEnd, Goto, Entries
    <3>2. Entries(c)' = Entries(c)
      <4>1. Entries(c) \o <<>> = Entries(c)
        BY <1>4, ConcatEmptySeq
      <4>2. Entries(c)' = recipes'[c].entryList \o inRecipe'[c]
        BY DEF Entries
      <4> QED
        BY <3>1, <4>1, <4>2
    <3>3. inQuery'[c] = <<>> /\ inQuery[c] = <<>>
      BY <1>1, <3>1 DEF Shape, BatchShape, InBatch
    <3>4. Len(file[c]) = Len(Entries(c))
      <4>1. Len(file[c]) = (Len(Entries(c)) - 0) + 0
        BY <1>3, <3>1, <3>3 DEF Lined, Processed, Open
      <4> QED
        BY <1>4, <4>1
    <3>5. Lined(pc'[c], i'[c], inQuery'[c], Len(Entries(c)'), file'[c])
      BY <1>4, <3>1, <3>2, <3>3, <3>4 DEF Lined, Processed
    <3>6. Sealed(pc'[c], recipes'[c], inRecipe'[c], file'[c])
      BY <3>1, <3>4 DEF Sealed, Open, InBatch
    <3> QED
      BY <3>1, <3>2, <3>5, <3>6
  <2>3. CASE Join(c)
    <3>1. /\ pc[c] = "join" /\ pc'[c] = "idle" /\ inRecipe'[c] = <<>> /\ file'[c] = file[c]
          /\ recipes'[c] = recipes[c]
      BY <1>2, <2>3 DEF Join, Goto
    <3>2. Entries(c)' = recipes[c].entryList
      <4>1. recipes[c].entryList \o <<>> = recipes[c].entryList
        BY <1>4, ConcatEmptySeq
      <4> QED
        BY <3>1, <4>1 DEF Entries
    <3>3. \A a, fp : ListHas(Entries(c)', file'[c], a, fp) => ListHas(Entries(c), file[c], a, fp)
      BY <1>4, <3>1, <3>2 DEF ListHas
    <3>4. Lined(pc'[c], i'[c], inQuery'[c], Len(Entries(c)'), file'[c])
      <4>1. Len(Entries(c)) <= Len(file[c])
        BY <1>3 DEF Lined
      <4> QED
        BY <1>4, <3>1, <3>2, <4>1 DEF Lined, Open, InBatch
    <3>5. Sealed(pc'[c], recipes'[c], inRecipe'[c], file'[c])
      BY <1>3, <3>1 DEF Sealed, Open, InBatch
    <3> QED
      BY <3>3, <3>4, <3>5
  <2> QED
    BY <2>1, <2>2, <2>3
<1>6. Aligned'
  BY <1>1, <1>5, AlignedOfOne
<1>7. NothingNew
  <2> SUFFICES ASSUME NEW a \in Addr, NEW fp \in Fp, Held(a, fp)'
               PROVE  Held(a, fp)
    BY DEF NothingNew
  <2>1. \/ TopKHas(topK, a, fp) \/ BatchHas(inQuery[c], a, fp)
        \/ IndexHas(outIndex, a, fp) \/ AnswerHas(outQuery[c], a, fp)
        \/ ListHas(Entries(c), file[c], a, fp)
        => Held(a, fp)
    BY DEF Held
  <2> QED
    BY <1>1, <1>5, <2>1, HeldOfOne
<1> QED
  BY <1>6, <1>7
-----------------------------------------------------------------------------
(* Every step of the specification, and what follows from the invariant.    *)

StoreInv == TypeOK /\ Shape /\ Storage /\ Aligned /\ Known

LEMMA KnownStep ==
    ASSUME Kept, NothingNew, Known
    PROVE  Known'
<1> SUFFICES ASSUME NEW a \in Addr, NEW fp \in Fp, Held(a, fp)'
             PROVE  Good(a, fp)'
  BY DEF Known
<1>1. Good(a, fp)
  BY DEF NothingNew, Known
<1> QED
  BY <1>1, GoodKept

LEMMA InitStore == Init => StoreInv
<1> SUFFICES ASSUME Init PROVE StoreInv
  OBVIOUS
<1>1. TypeOK /\ Shape
  BY InitTyped
<1>2. ASSUME NEW c \in Client
      PROVE  /\ pc[c] = "idle" /\ i[c] = 1 /\ inQuery[c] = <<>> /\ outQuery[c] = <<>>
             /\ recipes[c] = [head |-> "none", entryList |-> <<>>] /\ inRecipe[c] = <<>>
             /\ file[c] = <<>> /\ inputMQ[c] = <<>> /\ done[c] = FALSE
             /\ writer[c] = "off" /\ uuid[c] = 0
             /\ curContainer[c] = [containerID |-> <<c, 0>>, body |-> {}, currentSize |-> 0]
             /\ inContainer[c] = [buf |-> {}, curSize |-> 0]
  BY DEF Init, NoContainer
<1>3. DOMAIN containers = {} /\ DOMAIN topK = {} /\ DOMAIN outIndex = {}
  BY DEF Init
<1>4. Storage
  <2>1. ASSUME NEW c \in Client
        PROVE  /\ QueueShape(pc[c], inputMQ[c], done[c], writer[c])
               /\ StoreShape(c, pc[c], uuid[c], inputMQ[c], curContainer[c], inContainer[c])
    <3>1. QueueShape(pc[c], inputMQ[c], done[c], writer[c])
      BY <1>2 DEF QueueShape
    <3>2. StoreShape(c, "idle", 0, <<>>, [containerID |-> <<c, 0>>, body |-> {},
                                          currentSize |-> 0], [buf |-> {}, curSize |-> 0])
      BY PackedNone DEF StoreShape
    <3>3. StoreShape(c, pc[c], uuid[c], inputMQ[c], curContainer[c], inContainer[c])
      BY <1>2, <3>2
    <3> QED
      BY <3>1, <3>3
  <2> QED
    BY <1>3, <2>1 DEF Storage
<1>5. ASSUME NEW c \in Client PROVE Entries(c) = <<>>
  <2>1. <<>> \o <<>> = <<>>
    OBVIOUS
  <2>2. recipes[c].entryList = <<>> /\ inRecipe[c] = <<>>
    BY DEF Init
  <2> QED
    BY <2>1, <2>2 DEF Entries
<1>6. Aligned
  <2> SUFFICES ASSUME NEW c \in Client
               PROVE  /\ Lined(pc[c], i[c], inQuery[c], Len(Entries(c)), file[c])
                      /\ Sealed(pc[c], recipes[c], inRecipe[c], file[c])
    BY DEF Aligned
  <2>1. Lined(pc[c], i[c], inQuery[c], Len(Entries(c)), file[c])
    <3>1. Lined("idle", 1, <<>>, Len(<<>>), <<>>)
      BY DEF Lined, Open, InBatch
    <3> QED
      BY <1>2, <1>5, <3>1
  <2>2. Sealed(pc[c], recipes[c], inRecipe[c], file[c])
    <3>1. recipes[c].head = "none"
      BY DEF Init
    <3> QED
      BY <3>1 DEF Sealed
  <2> QED
    BY <2>1, <2>2
<1>7. Known
  <2> SUFFICES ASSUME NEW a \in Addr, NEW fp \in Fp, Held(a, fp) PROVE FALSE
    BY DEF Known
  <2>1. ~TopKHas(topK, a, fp) /\ ~IndexHas(outIndex, a, fp)
    BY <1>3 DEF TopKHas, IndexHas
  <2>2. ASSUME NEW c \in Client
        PROVE  /\ ~BatchHas(inQuery[c], a, fp) /\ ~AnswerHas(outQuery[c], a, fp)
               /\ ~ListHas(Entries(c), file[c], a, fp)
    <3>1. inQuery[c] = <<>> /\ outQuery[c] = <<>> /\ Entries(c) = <<>>
      BY <1>2, <1>5
    <3> QED
      BY <3>1 DEF BatchHas, AnswerHas, ListHas
  <2> QED
    BY <2>1, <2>2 DEF Held
<1> QED
  BY <1>1, <1>4, <1>6, <1>7 DEF StoreInv

LEMMA StutterStore ==
    ASSUME StoreInv, UNCHANGED vars
    PROVE  StoreInv'
<1> USE DEF vars, shared, enclave, outside, history
<1>1. TypeOK' /\ Shape'
  BY NextTyped DEF StoreInv
<1>2. Storage'
  BY DEF StoreInv, Storage
<1>3. Aligned'
  BY DEF StoreInv, Aligned, Entries
<1>4. Kept
  BY DEF Kept, At
<1>5. NothingNew
  BY DEF NothingNew, Held, Entries
<1>6. Known'
  BY <1>4, <1>5, KnownStep DEF StoreInv
<1> QED
  BY <1>1, <1>2, <1>3, <1>6 DEF StoreInv

LEMMA NextStore ==
    ASSUME StoreInv, [Next]_vars
    PROVE  StoreInv'
<1> USE DEF StoreInv
<1>1. TypeOK' /\ Shape'
  BY NextTyped
<1>2. ASSUME NEW c \in Client, Receive(c) PROVE Storage' /\ Kept /\ Aligned' /\ NothingNew
  <2>1. CASE StartUpload(c)
    BY <1>1, <2>1, StartUploadStore, SessionStep
  <2>2. CASE \E b \in Batches : RecvBatch(c, b)
    BY <2>2, BatchStore, RecvBatchStep
  <2>3. CASE RecvRecipeEnd(c)
    BY <1>1, <2>3, RecvRecipeEndStore, SessionStep
  <2>4. CASE Disconnect(c)
    BY <2>4, DisconnectStore, StillStep
  <2> QED
    BY <1>2, <2>1, <2>2, <2>3, <2>4 DEF Receive
<1>3. ASSUME NEW c \in Client, Batch(c), ~ProcessUnique(c)
      PROVE  Storage' /\ Kept /\ Aligned' /\ NothingNew
  <2>1. Storage' /\ Kept
    BY <1>3, BatchStore DEF Batch
  <2>2. Aligned' /\ NothingNew
    BY <1>3, StillStep, CountStep, ClassifyLocalStep, QueryStep, ProcessDuplicateStep,
       HeapStep, UpdateOutIndexStep DEF Batch
  <2> QED
    BY <2>1, <2>2
<1>4. ASSUME NEW c \in Client, Shutdown(c) PROVE Storage' /\ Kept /\ Aligned' /\ NothingNew
  BY <1>1, <1>4, LastContainerStore, JoinStore, StillStep, SessionStep DEF Shutdown
<1>5. ASSUME NEW c \in Client, DataWriter(c) PROVE Storage' /\ Kept /\ Aligned' /\ NothingNew
  BY <1>1, <1>5, WriterCheckStore, WriterPopStore, StillStep DEF DataWriter
<1>6. ASSUME NEW c \in Client, ProcessUnique(c) PROVE Storage' /\ Aligned' /\ Known'
  BY <1>1, <1>6, ProcessUniqueStep
<1>7. CASE UNCHANGED vars
  BY <1>7, StutterStore
<1> QED
  BY <1>1, <1>2, <1>3, <1>4, <1>5, <1>6, <1>7, KnownStep DEF Next, WaitForClient

(* What a good address means for the copies Bodies counts. *)
LEMMA GoodRight ==
    ASSUME TypeOK, Storage, NEW a \in Addr, NEW fp \in Fp, Good(a, fp)
    PROVE  /\ Right(a, fp)
           /\ aborts = 0 => Bodies(a.containerName) # {}
<1>1. PICK d \in Client, m \in Nat, o \in Nat :
         d = a.containerName[1] /\ m = a.containerName[2] /\ o = a.offset
  BY DEF Addr, ContainerID
<1>2. a.containerName = <<d, m>>
  BY <1>1 DEF Addr, ContainerID
<1>3. At(d, m, o, fp)
  BY <1>1 DEF Good
<1>4. ASSUME NEW e \in Client
      PROVE  /\ curContainer[e].containerID = <<e, uuid[e]>>
             /\ pc[e] \notin {"idle", "ended", "last", "join"} <=> pc[e] \in Open
  <2>1. pc[e] \in Location
    BY StoreTypes
  <2> QED
    BY <2>1 DEF Storage, StoreShape, Open, InBatch, Location
<1>5. inputMQ[d] \in Seq(Container)
  BY StoreTypes
<1>6. \A k : k \in Range(inputMQ[d]) <=> \E j \in 1..Len(inputMQ[d]) : k = inputMQ[d][j]
  BY <1>5 DEF Range
<1> DEFINE n == <<d, m>>
<1>7. \A b : b \in Bodies(n) <=>
         \/ n \in DOMAIN containers /\ b = containers[n]
         \/ \E k \in Range(inputMQ[d]) : k.containerID = n /\ b = k.body
         \/ \E e \in Client : /\ curContainer[e].containerID = n
                              /\ pc[e] \notin {"idle", "ended", "last", "join"}
                              /\ b = inContainer[e].buf
         \/ \E e \in Client : /\ curContainer[e].containerID = n
                              /\ curContainer[e].currentSize # 0
                              /\ b = curContainer[e].body
  BY DEF Bodies
<1>8. ASSUME NEW b \in Bodies(n) PROVE <<o, fp>> \in b
  <2>1. CASE n \in DOMAIN containers /\ b = containers[n]
    BY <1>3, <2>1 DEF At
  <2>2. CASE \E k \in Range(inputMQ[d]) : k.containerID = n /\ b = k.body
    BY <1>3, <1>6, <2>2 DEF At
  <2>3. ASSUME NEW e \in Client, curContainer[e].containerID = n,
               pc[e] \notin {"idle", "ended", "last", "join"}, b = inContainer[e].buf
        PROVE  <<o, fp>> \in b
    <3>1. e = d /\ m = uuid[d] /\ pc[d] \in Open
      BY <1>4, <2>3
    <3> QED
      BY <1>3, <2>3, <3>1 DEF At
  <2>4. ASSUME NEW e \in Client, curContainer[e].containerID = n,
               curContainer[e].currentSize # 0, b = curContainer[e].body
        PROVE  <<o, fp>> \in b
    <3>1. e = d /\ m = uuid[d]
      BY <1>4, <2>4
    <3> QED
      BY <1>3, <2>4, <3>1 DEF At
  <2> QED
    BY <1>7, <2>1, <2>2, <2>3, <2>4
<1>9. ASSUME aborts = 0 PROVE Bodies(n) # {}
  <2>1. CASE n \in DOMAIN containers
    BY <1>7, <2>1
  <2>2. CASE \E j \in 1..Len(inputMQ[d]) : inputMQ[d][j].containerID = n
    BY <1>6, <1>7, <2>2, ZenonT(60)
  <2>3. CASE m = uuid[d] /\ (pc[d] \in Open \/ curContainer[d].currentSize # 0)
    BY <1>4, <1>7, <2>3
  <2> QED
    BY <1>3, <1>9, <2>1, <2>2, <2>3 DEF At
<1>10. Right(a, fp)
  BY <1>1, <1>2, <1>8 DEF Right
<1> QED
  BY <1>2, <1>9, <1>10

(* A recipe entry stands where the client sent the chunk it leads to. *)
LEMMA EntryHeld ==
    ASSUME StoreInv, NEW c \in Client, NEW j \in DOMAIN Entries(c)
    PROVE  /\ Entries(c)[j] \in Addr /\ file[c][j] \in Fp
           /\ Held(Entries(c)[j], file[c][j])
<1>1. Entries(c) \in Seq(Addr) /\ file[c] \in Seq(Fp)
  BY EntriesTyped DEF StoreInv, TypeOK, HistoryType
<1>2. Len(Entries(c)) <= Len(file[c])
  BY DEF StoreInv, Aligned, Lined
<1>3. j \in 1..Len(Entries(c)) /\ j \in 1..Len(file[c])
  BY <1>1, <1>2
<1>4. ListHas(Entries(c), file[c], Entries(c)[j], file[c][j])
  BY <1>3 DEF ListHas
<1> QED
  BY <1>1, <1>3, <1>4 DEF Held

LEMMA StoreInvariant == Spec => []StoreInv
<1>1. Init => StoreInv
  BY InitStore
<1>2. StoreInv /\ [Next]_vars => StoreInv'
  BY NextStore
<1> QED
  BY <1>1, <1>2, PTL DEF Spec

(* The chunks of a container file lie inside the container and do not       *)
(* overlap, IV included: the test SaveChunk makes before it copies a chunk, *)
(* and the size it restarts from after a flush, are enough for any sizes    *)
(* with which one chunk fits.                                               *)
THEOREM ContainersPacked == Spec => []SlotsDisjoint
<1>1. StoreInv => SlotsDisjoint
  <2> SUFFICES ASSUME StoreInv, NEW n \in DOMAIN containers PROVE Packed(containers[n])
    BY DEF SlotsDisjoint, Packed
  <2>1. n \in Client \X Nat
    BY StoreTypes DEF StoreInv, ContainerID
  <2>2. PICK d \in Client, m \in Nat : n = <<d, m>>
    BY <2>1
  <2> QED
    BY <2>2 DEF StoreInv, Storage
<1> QED
  BY <1>1, StoreInvariant, PTL

LEMMA HeldRight ==
    ASSUME StoreInv, NEW a \in Addr, NEW fp \in Fp, Held(a, fp)
    PROVE  /\ Right(a, fp)
           /\ aborts = 0 => Bodies(a.containerName) # {}
BY GoodRight DEF StoreInv, Known

(* Every address the top-k index, the out-enclave index, a batch in         *)
(* progress or a recipe holds leads to its own chunk in every copy of the   *)
(* container, however the sessions of the clients interleave between the    *)
(* locked phases of ProcessOneBatch and whenever a connection breaks.       *)
THEOREM AddressesRight == Spec => []AddrCorrect
<1>1. StoreInv => AddrCorrect
  <2> SUFFICES ASSUME StoreInv PROVE AddrCorrect
    OBVIOUS
  <2>1. ASSUME NEW fp \in DOMAIN topK PROVE Right(topK[fp].address, fp)
    <3>1. topK[fp].address \in Addr /\ fp \in Fp
      BY DEF StoreInv, TypeOK, SharedType, PartialFunction, HeapItem
    <3>2. Held(topK[fp].address, fp)
      BY DEF Held, TopKHas
    <3> QED
      BY <3>1, <3>2, HeldRight
  <2>2. ASSUME NEW fp \in DOMAIN outIndex PROVE Right(outIndex[fp], fp)
    <3>1. outIndex[fp] \in Addr /\ fp \in Fp
      BY DEF StoreInv, TypeOK, SharedType, PartialFunction
    <3>2. Held(outIndex[fp], fp)
      BY DEF Held, IndexHas
    <3> QED
      BY <3>1, <3>2, HeldRight
  <2>3. ASSUME NEW c \in Client, NEW j \in DOMAIN inQuery[c], inQuery[c][j].chunkAddr # NoAddr
        PROVE  Right(inQuery[c][j].chunkAddr, inQuery[c][j].chunkHash)
    <3>1. inQuery[c] \in Seq(InQueryEntry)
      BY DEF StoreInv, TypeOK, EnclaveType
    <3>2. j \in 1..Len(inQuery[c]) /\ inQuery[c][j] \in InQueryEntry
      BY <3>1
    <3>3. inQuery[c][j].chunkAddr \in Addr /\ inQuery[c][j].chunkHash \in Fp
      BY <2>3, <3>2 DEF InQueryEntry
    <3>4. Held(inQuery[c][j].chunkAddr, inQuery[c][j].chunkHash)
      BY <3>2 DEF Held, BatchHas
    <3> QED
      BY <3>3, <3>4, HeldRight
  <2>4. ASSUME NEW c \in Client, NEW fp \in DOMAIN outQuery[c], outQuery[c][fp].chunkAddr # NoAddr
        PROVE  Right(outQuery[c][fp].chunkAddr, fp)
    <3>1. fp \in Fp /\ outQuery[c][fp] \in OutQueryEntry
      BY DEF StoreInv, TypeOK, OutsideType, PartialFunction
    <3>2. outQuery[c][fp].chunkAddr \in Addr
      BY <2>4, <3>1 DEF OutQueryEntry
    <3>3. Held(outQuery[c][fp].chunkAddr, fp)
      BY DEF Held, AnswerHas
    <3> QED
      BY <3>1, <3>2, <3>3, HeldRight
  <2>5. ASSUME NEW c \in Client, NEW j \in DOMAIN Entries(c)
        PROVE  Right(Entries(c)[j], file[c][j])
    BY EntryHeld, HeldRight
  <2> QED
    BY <2>1, <2>2, <2>3, <2>4, <2>5 DEF AddrCorrect
<1> QED
  BY <1>1, StoreInvariant, PTL

(* As long as no upload was cut short, no index entry and no recipe entry   *)
(* points nowhere: from SaveChunk to the file on disk the container is      *)
(* somewhere at every moment, whichever thread is ahead (SaveChunk,         *)
(* ProcessTailBatch, Ocall_WriteContainer, DataWriter::Run).                *)
THEOREM ContainersReachable == Spec => []NothingLost
<1>1. StoreInv => NothingLost
  <2> SUFFICES ASSUME StoreInv, aborts = 0
               PROVE  /\ \A fp \in DOMAIN topK : Bodies(topK[fp].address.containerName) # {}
                      /\ \A fp \in DOMAIN outIndex : Bodies(outIndex[fp].containerName) # {}
                      /\ \A c \in Client : \A j \in DOMAIN Entries(c) :
                            Bodies(Entries(c)[j].containerName) # {}
    BY DEF NothingLost
  <2>1. ASSUME NEW fp \in DOMAIN topK PROVE Bodies(topK[fp].address.containerName) # {}
    <3>1. topK[fp].address \in Addr /\ fp \in Fp
      BY DEF StoreInv, TypeOK, SharedType, PartialFunction, HeapItem
    <3>2. Held(topK[fp].address, fp)
      BY DEF Held, TopKHas
    <3> QED
      BY <3>1, <3>2, HeldRight
  <2>2. ASSUME NEW fp \in DOMAIN outIndex PROVE Bodies(outIndex[fp].containerName) # {}
    <3>1. outIndex[fp] \in Addr /\ fp \in Fp
      BY DEF StoreInv, TypeOK, SharedType, PartialFunction
    <3>2. Held(outIndex[fp], fp)
      BY DEF Held, IndexHas
    <3> QED
      BY <3>1, <3>2, HeldRight
  <2>3. ASSUME NEW c \in Client, NEW j \in DOMAIN Entries(c)
        PROVE  Bodies(Entries(c)[j].containerName) # {}
    BY EntryHeld, HeldRight
  <2> QED
    BY <2>1, <2>2, <2>3
<1> QED
  BY <1>1, StoreInvariant, PTL

(* With no session open and no upload cut short, every file with its final  *)
(* head can be restored from the container files, chunk for chunk: the      *)
(* promise of the README, for any number of clients and sessions.           *)
THEOREM FinishedFilesRestorable == Spec => []RestorableAtRest
<1>1. StoreInv => RestorableAtRest
  <2> SUFFICES ASSUME StoreInv, aborts = 0, \A c \in Client : pc[c] = "idle",
                      NEW c \in Client, recipes[c].head = "final"
               PROVE  Restorable(c)
    BY DEF RestorableAtRest
  <2>1. inRecipe[c] = <<>> /\ Len(recipes[c].entryList) = Len(file[c])
    BY DEF StoreInv, Aligned, Sealed
  <2>2. recipes[c].entryList \in Seq(Addr)
    BY EntriesTyped DEF StoreInv
  <2>3. Entries(c) = recipes[c].entryList
    BY <2>1, <2>2, ConcatEmptySeq DEF Entries
  <2>4. ASSUME NEW j \in DOMAIN recipes[c].entryList
        PROVE  OnDisk(recipes[c].entryList[j], file[c][j])
    <3>1. PICK a \in Addr, fp \in Fp : a = recipes[c].entryList[j] /\ fp = file[c][j]
      BY <2>3, EntryHeld
    <3>2. Good(a, fp)
      BY <2>3, <3>1, EntryHeld DEF StoreInv, Known
    <3>3. PICK d \in Client, m \in Nat : a.containerName = <<d, m>>
      BY DEF Addr, ContainerID
    <3>4. At(d, m, a.offset, fp)
      BY <3>2, <3>3 DEF Good
    <3>5. pc[d] \notin Open /\ inputMQ[d] = <<>> /\ curContainer[d].currentSize = 0
      BY DEF StoreInv, Storage, QueueShape, StoreShape, Open, InBatch
    <3>6. <<d, m>> \in DOMAIN containers
      BY <3>4, <3>5 DEF At
    <3>7. <<a.offset, fp>> \in containers[<<d, m>>]
      BY <3>4, <3>6 DEF At
    <3> QED
      BY <3>1, <3>3, <3>6, <3>7 DEF OnDisk
  <2> QED
    BY <2>1, <2>4 DEF Restorable
<1> QED
  BY <1>1, StoreInvariant, PTL
-----------------------------------------------------------------------------
(* Exact deduplication with one client: a stored chunk has one record, in   *)
(* the out-enclave index or in the answers of the batch that stored it.     *)

(* The batch has the answers of the out-enclave index. *)
Asked == {"proc", "lockHeap", "heap", "outUpdate"}

(* Entries not yet classified carry no flag, and no two entries ask for the *)
(* same chunk.                                                              *)
Marked(p, k, q) ==
    /\ p \in {"lockSketch", "sketch", "lockTopK"} =>
          \A j \in 1..Len(q) : q[j].dedupFlag = "NONE"
    /\ p = "topK" => \A j \in k..Len(q) : q[j].dedupFlag = "NONE"
    /\ \A j, n \in 1..Len(q) :
          j < n /\ q[j].dedupFlag = "UNIQUE" /\ q[n].dedupFlag = "UNIQUE" =>
              q[j].chunkHash # q[n].chunkHash

(* What was new when the batch asked is still not in the index, and has no  *)
(* address before its turn.                                                 *)
Answered(p, k, q, oq, index) ==
    /\ p \in Asked => \A fp \in DOMAIN oq : oq[fp].dedupFlag = "UNIQUE" => fp \notin DOMAIN index
    /\ p = "proc" => \A j \in k..Len(q) :
          q[j].dedupFlag = "UNIQUE" /\ oq[q[j].chunkHash].dedupFlag = "UNIQUE" =>
              oq[q[j].chunkHash].chunkAddr = NoAddr

(* Chunk fp is at offset o of some copy of container n. *)
Stored(n, o, fp) ==
    \/ n \in DOMAIN containers /\ <<o, fp>> \in containers[n]
    \/ \E c \in Client :
         \/ \E j \in 1..Len(inputMQ[c]) :
               inputMQ[c][j].containerID = n /\ <<o, fp>> \in inputMQ[c][j].body
         \/ curContainer[c].containerID = n /\ <<o, fp>> \in curContainer[c].body
         \/ /\ curContainer[c].containerID = n /\ pc[c] \in Open \cup {"ended"}
            /\ <<o, fp>> \in inContainer[c].buf

Recorded(n, o, fp) ==
    \/ fp \in DOMAIN outIndex /\ outIndex[fp] = [containerName |-> n, offset |-> o]
    \/ \E c \in Client : /\ pc[c] \in Asked /\ fp \in NewEntries(c)
                         /\ outQuery[c][fp].chunkAddr = [containerName |-> n, offset |-> o]

AllRecorded == \A n \in ContainerID : \A o \in Nat : \A fp \in Fp :
                   Stored(n, o, fp) => Recorded(n, o, fp)

Exact == /\ \A c \in Client : /\ Marked(pc[c], i[c], inQuery[c])
                              /\ Answered(pc[c], i[c], inQuery[c], outQuery[c], outIndex)
         /\ AllRecorded

(* The flags of a batch after a step of its client. *)
LEMMA SameMarks ==
    ASSUME NEW p, NEW k, NEW q, NEW pp, NEW kk, NEW r, Marked(p, k, q),
           Len(r) = Len(q),
           \A j \in 1..Len(q) : SameMark(r[j], q[j]),
           pp \in {"lockSketch", "sketch", "lockTopK"} => p \in {"lockSketch", "sketch", "lockTopK"},
           pp = "topK" => p \in {"lockTopK"} /\ kk = 1
    PROVE  Marked(pp, kk, r)
BY DEF Marked, SameMark

LEMMA ClassifyMarks ==
    ASSUME NEW q, NEW r, NEW k \in 1..Len(q), Len(q) \in Nat, Marked("topK", k, q),
           Len(r) = Len(q), r[k].dedupFlag # "NONE",
           \A j \in 1..Len(q) : r[j].chunkHash = q[j].chunkHash,
           \A j \in 1..Len(q) : j # k => r[j].dedupFlag = q[j].dedupFlag,
           r[k].dedupFlag = "UNIQUE" =>
               \A j \in 1..(k - 1) : q[j].chunkHash = q[k].chunkHash => q[j].dedupFlag # "UNIQUE"
    PROVE  Marked("topK", k + 1, r) /\ Marked("query", 1, r)
<1>1. \A j \in k..Len(q) : q[j].dedupFlag = "NONE"
  BY DEF Marked
<1>2. \A j \in (k + 1)..Len(r) : r[j].dedupFlag = "NONE"
  BY <1>1
<1>3. ASSUME NEW j \in 1..Len(r), NEW n \in 1..Len(r), j < n,
             r[j].dedupFlag = "UNIQUE", r[n].dedupFlag = "UNIQUE"
      PROVE  r[j].chunkHash # r[n].chunkHash
  <2>1. n <= k
    BY <1>2, <1>3
  <2>2. CASE n = k
    BY <1>3, <2>2
  <2>3. CASE n < k
    BY <1>3, <2>3 DEF Marked
  <2> QED
    BY <2>1, <2>2, <2>3
<1> QED
  BY <1>2, <1>3 DEF Marked

(* Where a step of client c leaves its thread. *)
LEMMA MarksStep ==
    ASSUME TypeOK, Shape, NEW c \in Client, Marked(pc[c], i[c], inQuery[c]),
           Receive(c) \/ Batch(c) \/ Shutdown(c) \/ DataWriter(c)
    PROVE  Marked(pc'[c], i'[c], inQuery'[c])
<1> DEFINE q == inQuery[c]
           k == i[c]
           early == {"lockSketch", "sketch", "lockTopK"}
<1> USE DEF shared, enclave, Goto
<1>1. pc \in [Client -> Location] /\ q \in Seq(InQueryEntry) /\ Len(q) \in Nat
  BY DEF TypeOK, EnclaveType
<1>2. CASE ClassifyUnique(c) \/ ClassifyDuplicate(c) \/ ClassifyLocal(c)
  <2>1. Loop(c, "topK", "query")
    BY <1>2 DEF ClassifyUnique, ClassifyDuplicate, ClassifyLocal
  <2>2. /\ pc[c] = "topK" /\ k \in 1..Len(q)
        /\ \/ pc'[c] = "query" /\ i'[c] = 1
           \/ pc'[c] = "topK" /\ i'[c] = k + 1
    BY <2>1, LoopTurn DEF InLoop, Location
  <2>3. /\ Len(inQuery'[c]) = Len(q) /\ inQuery'[c][k].dedupFlag # "NONE"
        /\ \A j \in 1..Len(q) : inQuery'[c][j].chunkHash = q[j].chunkHash
        /\ \A j \in 1..Len(q) : j # k => inQuery'[c][j].dedupFlag = q[j].dedupFlag
        /\ inQuery'[c][k].dedupFlag = "UNIQUE" =>
              \A j \in 1..(k - 1) : q[j].chunkHash = q[k].chunkHash => q[j].dedupFlag # "UNIQUE"
    <3>1. CASE ClassifyUnique(c)
      <4>1. OnlyEntry(c, k) /\ inQuery'[c][k].dedupFlag = "UNIQUE"
        BY <3>1, ClassifyUniqueEntry
      <4>2. LocalIndex(c) = {}
        BY <3>1 DEF ClassifyUnique
      <4>3. \A j \in 1..(k - 1) : q[j].chunkHash = q[k].chunkHash => q[j].dedupFlag # "UNIQUE"
        BY <4>2 DEF LocalIndex
      <4> QED
        BY <4>1, <4>3 DEF OnlyEntry
    <3>2. CASE ClassifyDuplicate(c)
      <4>1. OnlyEntry(c, k) /\ inQuery'[c][k].dedupFlag = "DUPLICATE"
        BY <3>2, ClassifyDuplicateEntry
      <4> QED
        BY <4>1 DEF OnlyEntry
    <3>3. CASE ClassifyLocal(c)
      BY <3>3, ClassifyLocalEntry DEF SameMark
    <3> QED
      BY <1>2, <3>1, <3>2, <3>3
  <2> HIDE DEF q, k
  <2> QED
    BY <1>1, <2>2, <2>3, ClassifyMarks DEF q, k
<1>3. ASSUME NEW b \in Batches, RecvBatch(c, b) PROVE Marked(pc'[c], i'[c], inQuery'[c])
  <2> DEFINE r == [j \in 1..Len(b) |-> [chunkHash |-> b[j], chunkFreq |-> 0,
                      dedupFlag |-> "NONE", chunkAddr |-> NoAddr, ref |-> j]]
  <2>1. inQuery'[c] = r /\ pc'[c] = "lockSketch"
    BY <1>3 DEF RecvBatch, TypeOK, EnclaveType
  <2>2. Len(b) \in Nat
    BY UploadAssumption
  <2>3. Len(r) = Len(b) /\ \A j \in 1..Len(b) : r[j].dedupFlag = "NONE"
    BY <2>2
  <2> HIDE DEF r
  <2> QED
    BY <2>1, <2>3 DEF Marked
<1>4. CASE UpdateOutIndex(c)
  <2>1. inQuery'[c] = <<>> /\ pc'[c] = "recv"
    BY <1>4 DEF UpdateOutIndex, TypeOK, EnclaveType
  <2> QED
    BY <2>1 DEF Marked
<1>5. ASSUME UpdateSketch(c) \/ ProcessDuplicate(c) \/ ProcessUnique(c)
      PROVE  /\ Len(inQuery'[c]) = Len(q) /\ \A j \in 1..Len(q) : SameMark(inQuery'[c][j], q[j])
             /\ pc'[c] \in early => pc[c] \in early
             /\ pc'[c] # "topK"
  <2>1. OnlyEntry(c, k) /\ inQuery'[c][k].dedupFlag = q[k].dedupFlag
    BY <1>5, UpdateSketchEntry, ProcessEntry
  <2>2. /\ pc'[c] \in early => pc[c] \in early
        /\ pc'[c] # "topK"
    BY <1>1, <1>5 DEF UpdateSketch, ProcessDuplicate, ProcessUnique, Loop
  <2> QED
    BY <2>1, <2>2 DEF OnlyEntry, SameMark
<1>6. CASE UpdateSketch(c) \/ ProcessDuplicate(c) \/ ProcessUnique(c)
  BY <1>5, <1>6, SameMarks
<1>7. ASSUME \/ StartUpload(c) \/ RecvRecipeEnd(c) \/ Disconnect(c) \/ LockSketch(c)
             \/ QueryOutIndex(c) \/ LockHeap(c) \/ HeapSkip(c)
             \/ HeapUpdateFreq(c) \/ HeapAdd(c)
             \/ LastContainer(c) \/ Join(c)
      PROVE  inQuery' = inQuery /\ (pc'[c] \in early => pc[c] \in early) /\ pc'[c] # "topK"
  <2>1. inQuery' = inQuery
    BY <1>7, OtherEntries
  <2>2. CASE StartUpload(c) \/ RecvRecipeEnd(c) \/ Disconnect(c) \/ LockSketch(c)
    BY <1>1, <2>1, <2>2 DEF StartUpload, RecvRecipeEnd, Disconnect, LockSketch
  <2>3. CASE QueryOutIndex(c) \/ LockHeap(c) \/ HeapSkip(c) \/ HeapUpdateFreq(c) \/ HeapAdd(c)
    BY <1>1, <2>1, <2>3 DEF QueryOutIndex, LockHeap, HeapSkip, HeapUpdateFreq, HeapAdd,
                            HeapTurn, Loop
  <2>4. CASE LastContainer(c) \/ Join(c)
    BY <1>1, <2>1, <2>4 DEF LastContainer, Join
  <2> QED
    BY <1>7, <2>2, <2>3, <2>4
<1>8. CASE \/ StartUpload(c) \/ RecvRecipeEnd(c) \/ Disconnect(c) \/ LockSketch(c)
           \/ QueryOutIndex(c) \/ LockHeap(c) \/ HeapSkip(c)
           \/ HeapUpdateFreq(c) \/ HeapAdd(c)
           \/ LastContainer(c) \/ Join(c)
  BY <1>7, <1>8, SameMarks DEF SameMark
<1>9. CASE LockTopK(c)
  <2>1. pc[c] = "lockTopK" /\ pc'[c] = "topK" /\ i' = i /\ inQuery' = inQuery /\ i[c] = 1
    BY <1>1, <1>9 DEF LockTopK, Shape, BatchShape, InLoop
  <2> QED
    BY <2>1, SameMarks DEF SameMark
<1>10. CASE WriterCheck(c) \/ WriterPop(c)
  BY <1>10 DEF WriterCheck, WriterPop
<1> QED
  BY <1>2, <1>3, <1>4, <1>6, <1>8, <1>9, <1>10 DEF Receive, Batch, Shutdown, DataWriter

(* The answers after a step of the only client. *)
LEMMA AnswersStep ==
    ASSUME TypeOK, Shape, NEW c \in Client, Marked(pc[c], i[c], inQuery[c]),
           Answered(pc[c], i[c], inQuery[c], outQuery[c], outIndex),
           Receive(c) \/ Batch(c) \/ Shutdown(c) \/ DataWriter(c)
    PROVE  Answered(pc'[c], i'[c], inQuery'[c], outQuery'[c], outIndex')
<1> DEFINE q == inQuery[c]
           k == i[c]
           oq == outQuery[c]
<1> USE DEF shared, enclave, outside, Goto
<1>1. /\ pc \in [Client -> Location] /\ outQuery \in [Client -> Range(outQuery)]
      /\ PartialFunction(oq, Fp, OutQueryEntry)
      /\ q \in Seq(InQueryEntry) /\ Len(q) \in Nat
  BY DEF TypeOK, EnclaveType, OutsideType
<1>2. ASSUME pc'[c] \notin Asked
      PROVE  Answered(pc'[c], i'[c], inQuery'[c], outQuery'[c], outIndex')
  BY <1>2 DEF Answered, Asked
<1>3. CASE QueryOutIndex(c)
  <2> DEFINE r == [fp \in OutQueryHashes(c) |->
                     IF fp \in DOMAIN outIndex
                     THEN [dedupFlag |-> "DUPLICATE", chunkAddr |-> outIndex[fp]]
                     ELSE [dedupFlag |-> "UNIQUE",    chunkAddr |-> NoAddr]]
  <2>1. inQuery' = inQuery /\ outIndex' = outIndex /\ outQuery' = [outQuery EXCEPT ![c] = r]
    BY <1>3 DEF QueryOutIndex
  <2>2. \A j \in 1..Len(q) : q[j].dedupFlag = "UNIQUE" => q[j].chunkHash \in OutQueryHashes(c)
    BY <1>1 DEF OutQueryHashes
  <2>3. /\ \A fp \in DOMAIN r : r[fp].dedupFlag = "UNIQUE" =>
              fp \notin DOMAIN outIndex /\ r[fp].chunkAddr = NoAddr
        /\ DOMAIN r = OutQueryHashes(c)
    OBVIOUS
  <2> HIDE DEF r
  <2>4. outQuery'[c] = r /\ i' = i /\ k = 1
    BY <1>1, <1>3, <2>1 DEF QueryOutIndex, Shape, BatchShape, InLoop
  <2> QED
    BY <1>1, <2>1, <2>2, <2>3, <2>4 DEF Answered
<1>4. CASE ProcessUnique(c)
  <2> DEFINE h == q[k].chunkHash
             a == SaveAddr(c, h)
             r == [oq EXCEPT ![h].chunkAddr = a]
  <2>1. /\ Loop(c, "proc", "lockHeap") /\ NeedsStore(c) /\ outIndex' = outIndex
        /\ outQuery' = [outQuery EXCEPT ![c] = r]
    BY <1>4 DEF ProcessUnique
  <2>2. /\ pc[c] = "proc" /\ k \in 1..Len(q)
        /\ \/ pc'[c] = "lockHeap"
           \/ pc'[c] = "proc" /\ i'[c] = k + 1
    BY <2>1, LoopTurn DEF InLoop, Location
  <2>3. OnlyEntry(c, k) /\ inQuery'[c][k].dedupFlag = q[k].dedupFlag
    BY <1>4, ProcessEntry
  <2>4. q[k].dedupFlag = "UNIQUE"
    BY <2>1 DEF NeedsStore
  <2>5. \A j \in (k + 1)..Len(q) : q[j].dedupFlag = "UNIQUE" => q[j].chunkHash # h
    BY <1>1, <2>2, <2>4, SMTT(40) DEF Marked
  <2>6. outQuery'[c] = r
    BY <1>1, <2>1
  <2> HIDE DEF h, a, q, k, oq
  <2>7. /\ DOMAIN r = DOMAIN oq
        /\ \A fp \in DOMAIN oq : r[fp].dedupFlag = oq[fp].dedupFlag
        /\ \A fp \in DOMAIN oq : fp # h => r[fp] = oq[fp]
    BY <1>1 DEF PartialFunction, OutQueryEntry
  <2>8. /\ \A fp \in DOMAIN oq : oq[fp].dedupFlag = "UNIQUE" => fp \notin DOMAIN outIndex
        /\ \A j \in k..Len(q) :
              q[j].dedupFlag = "UNIQUE" /\ oq[q[j].chunkHash].dedupFlag = "UNIQUE" =>
                  oq[q[j].chunkHash].chunkAddr = NoAddr
    BY <2>2 DEF Answered, Asked, q, k, oq
  <2>9. \A j \in 1..Len(q) : q[j].dedupFlag = "UNIQUE" => q[j].chunkHash \in DOMAIN oq
    BY <2>2 DEF Shape, BatchShape, Queried, q, oq
  <2> HIDE DEF r
  <2>10. ASSUME NEW j \in (k + 1)..Len(q), inQuery'[c][j].dedupFlag = "UNIQUE",
                r[inQuery'[c][j].chunkHash].dedupFlag = "UNIQUE"
         PROVE  r[inQuery'[c][j].chunkHash].chunkAddr = NoAddr
    <3>1. j \in 1..Len(q) /\ j \in k..Len(q) /\ j # k
      BY <1>1, <2>2 DEF q, k
    <3>2. inQuery'[c][j] = q[j]
      BY <2>3, <3>1 DEF OnlyEntry, q, k
    <3>3. q[j].chunkHash \in DOMAIN oq /\ q[j].chunkHash # h
      BY <2>5, <2>9, <2>10, <3>1, <3>2
    <3> QED
      BY <2>7, <2>8, <2>10, <3>1, <3>2, <3>3
  <2>11. \A fp \in DOMAIN r : r[fp].dedupFlag = "UNIQUE" => fp \notin DOMAIN outIndex
    BY <2>7, <2>8
  <2>12. Len(inQuery'[c]) = Len(q)
    BY <2>3 DEF OnlyEntry, q
  <2>13. CASE pc'[c] = "lockHeap"
    BY <2>1, <2>6, <2>11, <2>13 DEF Answered
  <2>14. CASE pc'[c] = "proc" /\ i'[c] = k + 1
    BY <2>1, <2>6, <2>10, <2>11, <2>12, <2>14 DEF Answered
  <2> QED
    BY <2>2, <2>13, <2>14 DEF k
<1>5. CASE ProcessDuplicate(c)
  <2>1. Loop(c, "proc", "lockHeap") /\ outIndex' = outIndex /\ outQuery' = outQuery
    BY <1>5 DEF ProcessDuplicate
  <2>2. /\ pc[c] = "proc" /\ k \in 1..Len(q)
        /\ \/ pc'[c] = "lockHeap"
           \/ pc'[c] = "proc" /\ i'[c] = k + 1
    BY <2>1, LoopTurn DEF InLoop, Location
  <2>3. OnlyEntry(c, k)
    BY <1>5, ProcessEntry
  <2>4. Len(inQuery'[c]) = Len(q) /\ \A j \in (k + 1)..Len(q) : inQuery'[c][j] = q[j]
    BY <1>1, <2>2, <2>3 DEF OnlyEntry
  <2>5. CASE pc'[c] = "lockHeap"
    BY <2>1, <2>2, <2>5 DEF Answered, Asked
  <2>6. CASE pc'[c] = "proc" /\ i'[c] = k + 1
    <3>1. \A j \in (k + 1)..Len(q) : j \in k..Len(q)
      BY <1>1, <2>2
    <3> QED
      BY <2>1, <2>2, <2>4, <2>6, <3>1 DEF Answered, Asked
  <2> QED
    BY <2>2, <2>5, <2>6
<1>6. CASE LockHeap(c) \/ HeapSkip(c) \/ HeapUpdateFreq(c) \/ HeapAdd(c)
  <2>1. /\ outIndex' = outIndex /\ outQuery' = outQuery
        /\ pc[c] \in Asked /\ pc'[c] \in {"heap", "outUpdate"}
    BY <1>1, <1>6 DEF LockHeap, HeapSkip, HeapUpdateFreq, HeapAdd, HeapTurn, Loop, Asked
  <2> QED
    BY <2>1 DEF Answered
<1>7. CASE UpdateOutIndex(c)
  <2>1. pc'[c] \notin Asked
    BY <1>1, <1>7 DEF UpdateOutIndex, Asked
  <2> QED
    BY <1>2, <2>1
<1>8. CASE Receive(c) \/ Shutdown(c)
  <2>1. pc'[c] \notin Asked
    BY <1>1, <1>8 DEF Receive, StartUpload, RecvRecipeEnd, Disconnect, RecvBatch,
                      Shutdown, LastContainer, Join, Asked
  <2> QED
    BY <1>2, <2>1
<1>9. CASE DataWriter(c)
  BY <1>9 DEF DataWriter, WriterCheck, WriterPop
<1>10. CASE \/ LockSketch(c) \/ UpdateSketch(c) \/ LockTopK(c)
            \/ ClassifyLocal(c) \/ ClassifyDuplicate(c) \/ ClassifyUnique(c)
  <2>1. pc'[c] \notin Asked
    BY <1>1, <1>10 DEF LockSketch, UpdateSketch, LockTopK, ClassifyLocal,
                       ClassifyDuplicate, ClassifyUnique, Loop, Asked
  <2> QED
    BY <1>2, <2>1
<1> QED
  BY <1>3, <1>4, <1>5, <1>6, <1>7, <1>8, <1>9, <1>10 DEF Batch

(* No step but ProcessUnique puts a chunk anywhere: containers are copied   *)
(* out, queued, written and forgotten.                                      *)
NoNewSlot == \A n \in ContainerID : \A o \in Nat : \A fp \in Fp :
                 Stored(n, o, fp)' => Stored(n, o, fp)

LEMMA SlotsKept ==
    ASSUME TypeOK, TypeOK', Shape, NEW c \in Client,
           Receive(c) \/ Batch(c) \/ Shutdown(c) \/ DataWriter(c), ~ProcessUnique(c)
    PROVE  NoNewSlot
<1> USE DEF shared, enclave, outside, Goto
<1>1. /\ pc \in [Client -> Location] /\ curContainer \in [Client -> Container]
      /\ inContainer \in [Client -> [buf : SUBSET Slot, curSize : Nat]]
      /\ inputMQ \in [Client -> Seq(Container)]
      /\ containers \in [DOMAIN containers -> SUBSET Slot]
  BY StoreTypes
<1> SUFFICES ASSUME NEW n \in ContainerID, NEW o \in Nat, NEW fp \in Fp, Stored(n, o, fp)'
             PROVE  Stored(n, o, fp)
  BY DEF NoNewSlot
<1> DEFINE InMQ(mq) == \E j \in 1..Len(mq) : mq[j].containerID = n /\ <<o, fp>> \in mq[j].body
           InCur(k) == k.containerID = n /\ <<o, fp>> \in k.body
           InBuf(k, p, b) == /\ k.containerID = n /\ p \in Open \cup {"ended"}
                             /\ <<o, fp>> \in b.buf
<1>2. \/ n \in DOMAIN containers' /\ <<o, fp>> \in containers'[n]
      \/ \E d \in Client : \/ InMQ(inputMQ'[d]) \/ InCur(curContainer'[d])
                           \/ InBuf(curContainer'[d], pc'[d], inContainer'[d])
  BY DEF Stored
<1>3. /\ n \in DOMAIN containers /\ <<o, fp>> \in containers[n] => Stored(n, o, fp)
      /\ \A d \in Client : \/ InMQ(inputMQ[d]) \/ InCur(curContainer[d])
                           \/ InBuf(curContainer[d], pc[d], inContainer[d])
                           => Stored(n, o, fp)
  BY DEF Stored
<1> HIDE DEF InMQ, InCur, InBuf
<1>4. ASSUME UNCHANGED <<containers, inputMQ, curContainer, inContainer>>,
             \A d \in Client : pc'[d] \in Open \cup {"ended"} => pc[d] \in Open \cup {"ended"}
      PROVE  Stored(n, o, fp)
  BY <1>2, <1>3, <1>4 DEF InBuf
<1>5. CASE Batch(c) \/ (\E b \in Batches : RecvBatch(c, b)) \/ Disconnect(c) \/ WriterCheck(c)
  <2>1. CASE LockSketch(c) \/ UpdateSketch(c) \/ LockTopK(c) \/ QueryOutIndex(c)
    BY <1>1, <1>4, <2>1 DEF LockSketch, UpdateSketch, LockTopK, QueryOutIndex, Loop,
                            Open, InBatch
  <2>2. CASE ClassifyLocal(c) \/ ClassifyDuplicate(c) \/ ClassifyUnique(c) \/ ProcessDuplicate(c)
    BY <1>1, <1>4, <2>2 DEF ClassifyLocal, ClassifyDuplicate, ClassifyUnique,
                            ProcessDuplicate, Loop, Open, InBatch
  <2>3. CASE LockHeap(c) \/ HeapSkip(c) \/ HeapUpdateFreq(c) \/ HeapAdd(c) \/ UpdateOutIndex(c)
    BY <1>1, <1>4, <2>3 DEF LockHeap, HeapSkip, HeapUpdateFreq, HeapAdd, HeapTurn,
                            UpdateOutIndex, Loop, Open, InBatch
  <2>4. CASE (\E b \in Batches : RecvBatch(c, b)) \/ Disconnect(c) \/ WriterCheck(c)
    BY <1>1, <1>4, <2>4 DEF RecvBatch, Disconnect, WriterCheck, Open, InBatch
  <2> QED
    BY <1>5, <2>1, <2>2, <2>3, <2>4 DEF Batch
<1>6. ASSUME NEW d \in Client \ {c}, Receive(c) \/ Shutdown(c) \/ DataWriter(c)
      PROVE  /\ inputMQ'[d] = inputMQ[d] /\ curContainer'[d] = curContainer[d]
             /\ pc'[d] = pc[d] /\ inContainer'[d] = inContainer[d]
  BY <1>1, <1>6 DEF Receive, StartUpload, RecvRecipeEnd, Disconnect, RecvBatch,
                    Shutdown, LastContainer, WriteContainer, Join, DataWriter,
                    WriterCheck, WriterPop
<1>7. ASSUME Receive(c) \/ Shutdown(c) \/ DataWriter(c),
             ~(n \in DOMAIN containers' /\ <<o, fp>> \in containers'[n]),
             ~InMQ(inputMQ'[c]), ~InCur(curContainer'[c]),
             ~InBuf(curContainer'[c], pc'[c], inContainer'[c])
      PROVE  Stored(n, o, fp)
  BY <1>2, <1>3, <1>6, <1>7
<1>8. CASE StartUpload(c)
  <2>1. /\ containers' = containers /\ inputMQ'[c] = <<>>
        /\ curContainer'[c].body = {} /\ inContainer'[c].buf = {}
    BY <1>1, <1>8 DEF StartUpload, NoContainer
  <2> QED
    BY <1>3, <1>7, <1>8, <2>1 DEF InMQ, InCur, InBuf, Receive
<1>9. CASE RecvRecipeEnd(c)
  <2>1. /\ containers' = containers /\ inputMQ' = inputMQ /\ inContainer' = inContainer
        /\ pc[c] = "recv" /\ curContainer'[c] = TailContainer(c)
    BY <1>1, <1>9 DEF RecvRecipeEnd
  <2>2. /\ curContainer'[c].containerID = curContainer[c].containerID
        /\ curContainer'[c].body \in {curContainer[c].body, inContainer[c].buf}
    BY <1>1, <2>1 DEF TailContainer, FilledContainer, Container
  <2> QED
    BY <1>3, <1>7, <1>9, <2>1, <2>2 DEF InMQ, InCur, InBuf, Receive, Open, InBatch
<1>10. CASE LastContainer(c)
  <2>1. pc'[c] = "join" /\ pc[c] = "last"
    BY <1>1, <1>10 DEF LastContainer
  <2>2. CASE UNCHANGED <<containers, inputMQ, uuid, curContainer>>
    BY <1>3, <1>7, <1>10, <2>1, <2>2 DEF InBuf, Shutdown, Open, InBatch
  <2>3. CASE WriteContainer(c, curContainer[c])
    <3>1. curContainer'[c].body = {}
      BY <1>1, <2>3 DEF WriteContainer
    <3>2. n \in DOMAIN containers' /\ <<o, fp>> \in containers'[n] =>
             Stored(n, o, fp)
      <4>1. CASE containers' = containers
        BY <1>3, <4>1
      <4>2. CASE containers' = Put(containers, curContainer[c].containerID, curContainer[c].body)
        BY <1>1, <1>3, <4>2 DEF Put, InCur
      <4> QED
        BY <2>3, <4>1, <4>2 DEF WriteContainer
    <3>3. InMQ(inputMQ'[c]) => Stored(n, o, fp)
      <4>1. CASE inputMQ' = inputMQ
        BY <1>3, <4>1
      <4>2. CASE inputMQ' = [inputMQ EXCEPT ![c] = Append(@, curContainer[c])]
        <5>1. inputMQ'[c] = Append(inputMQ[c], curContainer[c])
          BY <1>1, <4>2
        <5>2. InMQ(inputMQ'[c]) => InMQ(inputMQ[c]) \/ InCur(curContainer[c])
          BY <1>1, <5>1, AppendProperties DEF InMQ, InCur
        <5> QED
          BY <1>3, <5>2
      <4> QED
        BY <2>3, <4>1, <4>2 DEF WriteContainer
    <3> QED
      BY <1>7, <1>10, <2>1, <3>1, <3>2, <3>3 DEF InCur, InBuf, Shutdown, Open, InBatch
  <2> QED
    BY <1>10, <2>2, <2>3 DEF LastContainer
<1>11. CASE Join(c)
  <2>1. /\ containers' = containers /\ inputMQ' = inputMQ /\ curContainer' = curContainer
        /\ inContainer'[c].buf = {}
    BY <1>1, <1>11 DEF Join, NoContainer
  <2> QED
    BY <1>3, <1>7, <1>11, <2>1 DEF InBuf, Shutdown
<1>12. CASE WriterPop(c)
  <2>1. curContainer' = curContainer /\ inContainer' = inContainer /\ pc' = pc
    BY <1>12 DEF WriterPop
  <2>2. CASE UNCHANGED <<containers, inputMQ>>
    BY <1>4, <2>1, <2>2
  <2>3. CASE /\ inputMQ[c] # <<>>
             /\ containers' = Put(containers, Head(inputMQ[c]).containerID, Head(inputMQ[c]).body)
             /\ inputMQ' = [inputMQ EXCEPT ![c] = Tail(@)]
    <3>1. /\ Len(inputMQ[c]) \in Nat \ {0} /\ Head(inputMQ[c]) = inputMQ[c][1]
          /\ Len(Tail(inputMQ[c])) = Len(inputMQ[c]) - 1
          /\ \A j \in 1..Len(Tail(inputMQ[c])) : Tail(inputMQ[c])[j] = inputMQ[c][j + 1]
      BY <1>1, <2>3
    <3>2. inputMQ'[c] = Tail(inputMQ[c])
      BY <1>1, <2>3
    <3>3. InMQ(inputMQ'[c]) => InMQ(inputMQ[c])
      BY <3>1, <3>2 DEF InMQ
    <3>4. n \in DOMAIN containers' /\ <<o, fp>> \in containers'[n] =>
             \/ n \in DOMAIN containers /\ <<o, fp>> \in containers[n]
             \/ InMQ(inputMQ[c])
      <4>1. CASE n = inputMQ[c][1].containerID
        <5>1. containers'[n] = inputMQ[c][1].body
          BY <2>3, <3>1, <4>1 DEF Put
        <5>2. 1 \in 1..Len(inputMQ[c])
          BY <3>1
        <5> QED
          BY <4>1, <5>1, <5>2 DEF InMQ
      <4>2. CASE n # inputMQ[c][1].containerID
        BY <1>1, <2>3, <3>1, <4>2 DEF Put
      <4> QED
        BY <4>1, <4>2
    <3> QED
      BY <1>3, <1>7, <1>12, <2>1, <3>3, <3>4 DEF DataWriter
  <2> QED
    BY <1>12, <2>2, <2>3 DEF WriterPop
<1> QED
  BY <1>5, <1>8, <1>9, <1>10, <1>11, <1>12 DEF Receive, Shutdown, DataWriter

(* A record is kept: in the answers of the batch until it moves to the      *)
(* index, where no batch of the only client overwrites it.                  *)
RecordsStay == \A n \in ContainerID : \A o \in Nat : \A fp \in Fp :
                   Recorded(n, o, fp) => Recorded(n, o, fp)'

LEMMA RecordsKept ==
    ASSUME ~MULTI_CLIENT, TypeOK, Shape, Exact, NEW c \in Client,
           Receive(c) \/ Batch(c) \/ Shutdown(c) \/ DataWriter(c)
    PROVE  RecordsStay
<1> USE DEF shared, enclave, outside, Goto
<1>1. /\ pc \in [Client -> Location] /\ outQuery \in [Client -> Range(outQuery)]
      /\ PartialFunction(outQuery[c], Fp, OutQueryEntry)
      /\ \A d \in Client : d = c
  BY UploadAssumption DEF TypeOK, EnclaveType, OutsideType
<1>2. Answered(pc[c], i[c], inQuery[c], outQuery[c], outIndex)
  BY DEF Exact
<1> SUFFICES ASSUME NEW n \in ContainerID, NEW o \in Nat, NEW fp \in Fp, Recorded(n, o, fp)
             PROVE  Recorded(n, o, fp)'
  BY DEF RecordsStay
<1>3. PICK a \in Addr : a = [containerName |-> n, offset |-> o]
  BY DEF Addr
<1>4. \/ fp \in DOMAIN outIndex /\ outIndex[fp] = a
      \/ pc[c] \in Asked /\ fp \in NewEntries(c) /\ outQuery[c][fp].chunkAddr = a
  BY <1>1, <1>3 DEF Recorded
<1>5. ASSUME \/ fp \in DOMAIN outIndex' /\ outIndex'[fp] = a
             \/ pc'[c] \in Asked /\ fp \in NewEntries(c)' /\ outQuery'[c][fp].chunkAddr = a
      PROVE  Recorded(n, o, fp)'
  BY <1>3, <1>5 DEF Recorded
<1>6. CASE UpdateOutIndex(c)
  <2>1. /\ DOMAIN outIndex' = NewEntries(c) \cup DOMAIN outIndex
        /\ \A g \in NewEntries(c) \cup DOMAIN outIndex : outIndex'[g] =
              IF g \in NewEntries(c) THEN outQuery[c][g].chunkAddr ELSE outIndex[g]
        /\ pc[c] = "outUpdate"
    BY <1>6 DEF UpdateOutIndex
  <2>2. fp \in DOMAIN outIndex => fp \notin NewEntries(c)
    BY <1>2, <2>1 DEF Answered, NewEntries, Asked
  <2> QED
    BY <1>4, <1>5, <2>1, <2>2
<1>7. CASE QueryOutIndex(c)
  <2>1. outIndex' = outIndex /\ pc[c] \notin Asked
    BY <1>7 DEF QueryOutIndex, Asked
  <2> QED
    BY <1>4, <1>5, <2>1
<1>8. CASE ProcessUnique(c)
  <2> DEFINE h == inQuery[c][i[c]].chunkHash
             b == SaveAddr(c, h)
             oq == outQuery[c]
             r == [oq EXCEPT ![h].chunkAddr = b]
  <2>1. /\ outIndex' = outIndex /\ outQuery' = [outQuery EXCEPT ![c] = r]
        /\ Loop(c, "proc", "lockHeap") /\ NeedsStore(c)
    BY <1>8 DEF ProcessUnique
  <2>2. outQuery'[c] = r /\ pc[c] = "proc" /\ pc'[c] \in Asked /\ i[c] \in i[c]..Len(inQuery[c])
    <3>1. "proc" \in InLoop /\ "lockHeap" \in Location /\ "proc" \in Asked /\ "lockHeap" \in Asked
      BY DEF InLoop, Location, Asked
    <3>2. /\ pc[c] = "proc" /\ i[c] \in 1..Len(inQuery[c]) /\ Len(inQuery[c]) \in Nat
          /\ pc'[c] = "lockHeap" \/ pc'[c] = "proc"
      BY <2>1, <3>1, LoopTurn
    <3>3. i[c] \in i[c]..Len(inQuery[c])
      BY <3>2
    <3>4. outQuery'[c] = r
      BY <1>1, <2>1
    <3> QED
      BY <3>1, <3>2, <3>3, <3>4
  <2>3. oq[h].chunkAddr = NoAddr
    BY <1>2, <2>1, <2>2 DEF Answered, NeedsStore
  <2> HIDE DEF h, b, oq
  <2>4. /\ DOMAIN r = DOMAIN oq
        /\ \A g \in DOMAIN oq : g # h => r[g] = oq[g]
    BY <1>1 DEF PartialFunction, oq
  <2> HIDE DEF r
  <2>5. ASSUME fp \in NewEntries(c), oq[fp].chunkAddr = a
        PROVE  fp \in NewEntries(c)' /\ outQuery'[c][fp].chunkAddr = a
    <3>1. fp # h
      BY <2>3, <2>5, NoAddrAssumption
    <3>2. fp \in DOMAIN oq /\ r[fp] = oq[fp]
      BY <2>4, <2>5, <3>1 DEF NewEntries, oq
    <3> QED
      BY <2>2, <2>4, <2>5, <3>2 DEF NewEntries, oq
  <2> QED
    BY <1>4, <1>5, <2>1, <2>2, <2>5 DEF oq
<1>9. ASSUME outQuery' = outQuery, outIndex' = outIndex, pc[c] \in Asked => pc'[c] \in Asked
      PROVE  Recorded(n, o, fp)'
  BY <1>4, <1>5, <1>9 DEF NewEntries
<1>10. ASSUME ~UpdateOutIndex(c), ~QueryOutIndex(c), ~ProcessUnique(c)
       PROVE  outQuery' = outQuery /\ outIndex' = outIndex
  <2>1. outIndex' = outIndex
    BY <1>10, OnTheWay
  <2>2. CASE HeapAdd(c)
    BY <2>1, <2>2 DEF HeapAdd, HeapTurn
  <2> QED
    BY <1>10, <2>1, <2>2, SameAnswers DEF Batch
<1>11. ASSUME ~UpdateOutIndex(c), ~QueryOutIndex(c), ~ProcessUnique(c), pc[c] \in Asked
       PROVE  pc'[c] \in Asked
  <2> USE DEF Asked
  <2>1. CASE Receive(c) \/ Shutdown(c) \/ DataWriter(c)
    BY <1>1, <1>11, <2>1 DEF Receive, StartUpload, RecvRecipeEnd, Disconnect, RecvBatch,
          Shutdown, LastContainer, Join, DataWriter, WriterCheck, WriterPop
  <2>2. CASE LockSketch(c) \/ UpdateSketch(c) \/ LockTopK(c)
    BY <1>1, <1>11, <2>2 DEF LockSketch, UpdateSketch, LockTopK, Loop
  <2>3. CASE ClassifyLocal(c) \/ ClassifyDuplicate(c) \/ ClassifyUnique(c) \/ ProcessDuplicate(c)
    BY <1>1, <1>11, <2>3 DEF ClassifyLocal, ClassifyDuplicate, ClassifyUnique,
                             ProcessDuplicate, Loop
  <2>4. CASE LockHeap(c) \/ HeapSkip(c) \/ HeapUpdateFreq(c) \/ HeapAdd(c)
    BY <1>1, <1>11, <2>4 DEF LockHeap, HeapSkip, HeapUpdateFreq, HeapAdd, HeapTurn, Loop
  <2> QED
    BY <1>11, <2>1, <2>2, <2>3, <2>4 DEF Batch
<1> QED
  BY <1>6, <1>7, <1>8, <1>9, <1>10, <1>11

(* SaveChunk puts one chunk into the open container, or into the next one   *)
(* after it has handed the open one over; the answer records where.         *)
LEMMA ProcessUniqueSlots ==
    ASSUME ~MULTI_CLIENT, TypeOK, Shape, NEW c \in Client, ProcessUnique(c),
           NEW n \in ContainerID, NEW o \in Nat, NEW fp \in Fp, Stored(n, o, fp)'
    PROVE  Stored(n, o, fp) \/ Recorded(n, o, fp)'
<1> DEFINE h == inQuery[c][i[c]].chunkHash
           a == SaveAddr(c, h)
           oq == outQuery[c]
           r == [oq EXCEPT ![h].chunkAddr = a]
<1>1. /\ pc \in [Client -> Location] /\ curContainer \in [Client -> Container]
      /\ inContainer \in [Client -> [buf : SUBSET Slot, curSize : Nat]]
      /\ inputMQ \in [Client -> Seq(Container)]
      /\ \A d \in Client : d = c
  BY StoreTypes, UploadAssumption
<1>2. /\ Loop(c, "proc", "lockHeap") /\ NeedsStore(c) /\ SaveChunk(c, h)
      /\ outQuery' = [outQuery EXCEPT ![c] = r]
  BY DEF ProcessUnique
<1>3. pc[c] = "proc" /\ pc'[c] \in Asked /\ i[c] \in 1..Len(inQuery[c])
  BY <1>2, LoopTurn DEF InLoop, Location, Asked
<1>4. ASSUME n = a.containerName, o = a.offset, fp = h PROVE Recorded(n, o, fp)'
  <2>1. /\ PartialFunction(oq, Fp, OutQueryEntry) /\ outQuery \in [Client -> Range(outQuery)]
    BY DEF TypeOK, OutsideType
  <2>2. h \in DOMAIN oq /\ oq[h].dedupFlag = "UNIQUE"
    BY <1>2, <1>3 DEF NeedsStore, Shape, BatchShape, Queried
  <2>3. outQuery'[c] = r
    BY <1>2, <2>1
  <2>4. a = [containerName |-> n, offset |-> o]
    BY <1>4 DEF SaveAddr
  <2> HIDE DEF h, a, oq
  <2>5. DOMAIN r = DOMAIN oq /\ r[h].dedupFlag = "UNIQUE" /\ r[h].chunkAddr = a
    BY <2>1, <2>2 DEF PartialFunction, OutQueryEntry
  <2> HIDE DEF r
  <2> QED
    BY <1>3, <1>4, <2>2, <2>3, <2>4, <2>5 DEF Recorded, NewEntries
<1>5. CASE Fits(c, h)
  <2>1. /\ UNCHANGED <<containers, inputMQ, curContainer>>
        /\ inContainer'[c].buf = inContainer[c].buf \cup {<<inContainer[c].curSize, h>>}
        /\ a.containerName = curContainer[c].containerID /\ a.offset = inContainer[c].curSize
    BY <1>1, <1>2, <1>5, SMTT(40) DEF SaveChunk, SaveAddr
  <2>2. pc[c] \in Open
    BY <1>3 DEF Open, InBatch
  <2> HIDE DEF h, a
  <2>3. \/ n \in DOMAIN containers /\ <<o, fp>> \in containers[n]
        \/ \E j \in 1..Len(inputMQ[c]) :
              inputMQ[c][j].containerID = n /\ <<o, fp>> \in inputMQ[c][j].body
        \/ curContainer[c].containerID = n /\ <<o, fp>> \in curContainer[c].body
        \/ curContainer[c].containerID = n /\ <<o, fp>> \in inContainer'[c].buf
    BY <1>1, <2>1 DEF Stored
  <2>4. CASE curContainer[c].containerID = n /\ <<o, fp>> \in inContainer'[c].buf
    <3>1. <<o, fp>> \in inContainer[c].buf \/ (o = inContainer[c].curSize /\ fp = h)
      BY <2>1, <2>4
    <3> QED
      BY <1>4, <2>1, <2>2, <2>4, <3>1 DEF Stored
  <2> QED
    BY <2>3, <2>4 DEF Stored
<1>6. CASE ~Fits(c, h)
  <2>1. /\ UNCHANGED containers
        /\ inputMQ'[c] = Append(inputMQ[c], FilledContainer(c))
        /\ curContainer'[c].containerID = a.containerName /\ curContainer'[c].body = {}
        /\ inContainer'[c].buf = {<<0, h>>} /\ a.offset = 0
    BY <1>1, <1>2, <1>6 DEF SaveChunk, WriteContainer, SaveAddr
  <2>2. /\ FilledContainer(c).containerID = curContainer[c].containerID
        /\ FilledContainer(c).body = inContainer[c].buf
    BY <1>1 DEF FilledContainer, Container
  <2>3. pc[c] \in Open
    BY <1>3 DEF Open, InBatch
  <2>4. PICK k : k = FilledContainer(c)
    OBVIOUS
  <2>5. /\ Len(inputMQ'[c]) = Len(inputMQ[c]) + 1 /\ Len(inputMQ[c]) \in Nat
        /\ \A j \in 1..Len(inputMQ[c]) : inputMQ'[c][j] = inputMQ[c][j]
        /\ inputMQ'[c][Len(inputMQ[c]) + 1] = k
    BY <1>1, <2>1, <2>4, AppendProperties
  <2> HIDE DEF h, a
  <2>6. CASE n \in DOMAIN containers' /\ <<o, fp>> \in containers'[n]
    BY <2>1, <2>6 DEF Stored
  <2>7. ASSUME NEW j \in 1..Len(inputMQ'[c]),
               inputMQ'[c][j].containerID = n, <<o, fp>> \in inputMQ'[c][j].body
        PROVE  Stored(n, o, fp)
    <3>1. CASE j \in 1..Len(inputMQ[c])
      BY <2>5, <2>7, <3>1 DEF Stored
    <3>2. CASE j = Len(inputMQ[c]) + 1
      BY <2>2, <2>3, <2>4, <2>5, <2>7, <3>2 DEF Stored
    <3> QED
      BY <2>5, <3>1, <3>2
  <2>8. CASE curContainer'[c].containerID = n /\ <<o, fp>> \in inContainer'[c].buf
    BY <1>4, <2>1, <2>8
  <2>9. \/ n \in DOMAIN containers' /\ <<o, fp>> \in containers'[n]
        \/ \E j \in 1..Len(inputMQ'[c]) :
              inputMQ'[c][j].containerID = n /\ <<o, fp>> \in inputMQ'[c][j].body
        \/ curContainer'[c].containerID = n /\ <<o, fp>> \in curContainer'[c].body
        \/ curContainer'[c].containerID = n /\ <<o, fp>> \in inContainer'[c].buf
    BY <1>1 DEF Stored
  <2> QED
    BY <2>1, <2>6, <2>7, <2>8, <2>9
<1> QED
  BY <1>5, <1>6

LEMMA NextExact ==
    ASSUME ~MULTI_CLIENT, TypeOK, TypeOK', Shape, Exact, [Next]_vars
    PROVE  Exact'
<1>1. CASE UNCHANGED vars
  BY <1>1 DEF vars, shared, enclave, outside, Exact, AllRecorded, Stored, Recorded, NewEntries
<1>2. ASSUME NEW c \in Client, Receive(c) \/ Batch(c) \/ Shutdown(c) \/ DataWriter(c)
      PROVE  Exact'
  <2>1. /\ Marked(pc'[c], i'[c], inQuery'[c])
        /\ Answered(pc'[c], i'[c], inQuery'[c], outQuery'[c], outIndex')
    BY <1>2, MarksStep, AnswersStep DEF Exact
  <2>2. \A d \in Client : d = c
    BY UploadAssumption
  <2>3. RecordsStay
    BY <1>2, RecordsKept
  <2>4. ASSUME NEW n \in ContainerID, NEW o \in Nat, NEW fp \in Fp, Stored(n, o, fp)'
        PROVE  Recorded(n, o, fp)'
    <3>1. Stored(n, o, fp) \/ Recorded(n, o, fp)'
      <4>1. CASE ProcessUnique(c)
        BY <2>4, <4>1, ProcessUniqueSlots
      <4>2. CASE ~ProcessUnique(c)
        BY <1>2, <2>4, <4>2, SlotsKept DEF NoNewSlot
      <4> QED
        BY <4>1, <4>2
    <3> QED
      BY <2>3, <3>1 DEF Exact, AllRecorded, RecordsStay
  <2>5. AllRecorded'
    BY <2>4 DEF AllRecorded
  <2> QED
    BY <2>1, <2>2, <2>5 DEF Exact
<1> QED
  BY <1>1, <1>2 DEF Next, WaitForClient

(* Deduplication is exact with one client: whatever the top-k index holds   *)
(* or evicts, whatever the sketch estimates and whenever a connection       *)
(* breaks, no chunk is ever stored in two places (ProcessOneBatch,          *)
(* SaveChunk, Ocall_UpdateOutIndex).  With several clients it is not: two   *)
(* batches that ask at the same time both store the chunk.                  *)
THEOREM DeduplicationExact ==
    ASSUME ~MULTI_CLIENT
    PROVE  Spec => []StoredOnce
<1> DEFINE Inv == TypeOK /\ Shape /\ Exact
<1>1. Init => Inv
  <2> SUFFICES ASSUME Init PROVE Exact
    BY InitTyped
  <2>1. \A c \in Client : /\ pc[c] = "idle" /\ inQuery[c] = <<>>
                          /\ inputMQ[c] = <<>> /\ curContainer[c].body = {}
                          /\ inContainer[c].buf = {}
    BY DEF Init, NoContainer
  <2>2. \A c \in Client : Marked(pc[c], i[c], inQuery[c])
    BY <2>1 DEF Marked
  <2>3. \A c \in Client : Answered(pc[c], i[c], inQuery[c], outQuery[c], outIndex)
    BY <2>1 DEF Answered, Asked
  <2>4. AllRecorded
    <3>1. DOMAIN containers = {}
      BY DEF Init
    <3> QED
      BY <2>1, <3>1 DEF AllRecorded, Stored
  <2> QED
    BY <2>2, <2>3, <2>4 DEF Exact
<1>2. Inv /\ [Next]_vars => Inv'
  BY NextTyped, NextExact
<1>3. Inv => StoredOnce
  <2> SUFFICES ASSUME Inv, NEW k \in AllContainers, NEW l \in AllContainers,
                      NEW s \in k[2], NEW t \in l[2], s[2] = t[2]
               PROVE  k[1] = l[1] /\ s[1] = t[1]
    BY DEF StoredOnce
  <2>1. ASSUME NEW x \in AllContainers, NEW u \in x[2]
        PROVE  /\ x[1] \in ContainerID /\ u[1] \in Nat /\ u[2] \in Fp
               /\ Stored(x[1], u[1], u[2])
    <3>1. /\ pc \in [Client -> Location] /\ curContainer \in [Client -> Container]
          /\ inContainer \in [Client -> [buf : SUBSET Slot, curSize : Nat]]
          /\ inputMQ \in [Client -> Seq(Container)]
          /\ containers \in [DOMAIN containers -> SUBSET Slot]
          /\ DOMAIN containers \subseteq ContainerID
      BY StoreTypes
    <3>2. ASSUME NEW n \in DOMAIN containers, x = <<n, containers[n]>>
          PROVE  x[1] \in ContainerID /\ u \in Slot /\ Stored(x[1], u[1], u[2])
      <4>1. u \in Slot /\ u \in containers[n]
        BY <3>1, <3>2
      <4>2. u = <<u[1], u[2]>>
        BY <4>1 DEF Slot
      <4> QED
        BY <3>1, <3>2, <4>1, <4>2 DEF Stored
    <3>3. ASSUME NEW c \in Client, NEW m \in Range(inputMQ[c]), x = <<m.containerID, m.body>>
          PROVE  x[1] \in ContainerID /\ u \in Slot /\ Stored(x[1], u[1], u[2])
      <4>1. PICK j \in 1..Len(inputMQ[c]) : m = inputMQ[c][j]
        <5>1. inputMQ[c] \in Seq(Container)
          BY <3>1
        <5> QED
          BY <5>1 DEF Range
      <4>2. m \in Container
        BY <3>1, <4>1
      <4>3. m.containerID \in ContainerID /\ u \in Slot /\ u \in m.body
        BY <3>3, <4>2 DEF Container
      <4>4. u = <<u[1], u[2]>>
        BY <4>3 DEF Slot
      <4> QED
        BY <3>3, <4>1, <4>3, <4>4 DEF Stored
    <3>4. ASSUME NEW c \in Client, pc[c] \notin {"idle", "last", "join"},
                 x = <<curContainer[c].containerID, inContainer[c].buf>>
          PROVE  x[1] \in ContainerID /\ u \in Slot /\ Stored(x[1], u[1], u[2])
      <4>1. pc[c] \in Open \cup {"ended"}
        BY <3>1, <3>4 DEF Open, InBatch, Location
      <4>2. curContainer[c].containerID \in ContainerID /\ u \in Slot /\ u \in inContainer[c].buf
        BY <3>1, <3>4 DEF Container
      <4>3. u = <<u[1], u[2]>>
        BY <4>2 DEF Slot
      <4> QED
        BY <3>4, <4>1, <4>2, <4>3 DEF Stored
    <3>5. \/ \E n \in DOMAIN containers : x = <<n, containers[n]>>
          \/ \E c \in Client : \E m \in Range(inputMQ[c]) : x = <<m.containerID, m.body>>
          \/ \E c \in Client : /\ pc[c] \notin {"idle", "last", "join"}
                               /\ x = <<curContainer[c].containerID, inContainer[c].buf>>
      <4>1. \/ x \in {<<n, containers[n]>> : n \in DOMAIN containers}
            \/ x \in UNION {{<<m.containerID, m.body>> : m \in Range(inputMQ[c])} : c \in Client}
            \/ x \in {<<curContainer[c].containerID, inContainer[c].buf>> :
                        c \in {d \in Client : pc[d] \notin {"idle", "last", "join"}}}
        BY DEF AllContainers
      <4>2. ASSUME x \in UNION {{<<m.containerID, m.body>> : m \in Range(inputMQ[c])} : c \in Client}
            PROVE  \E c \in Client : \E m \in Range(inputMQ[c]) : x = <<m.containerID, m.body>>
        <5>1. PICK S \in {{<<m.containerID, m.body>> : m \in Range(inputMQ[c])} : c \in Client} :
                 x \in S
          BY <4>2
        <5>2. PICK c \in Client : S = {<<m.containerID, m.body>> : m \in Range(inputMQ[c])}
          BY <5>1
        <5> QED
          BY <5>1, <5>2
      <4> QED
        BY <4>1, <4>2, Zenon
    <3>6. x[1] \in ContainerID /\ u \in Slot /\ Stored(x[1], u[1], u[2])
      BY <3>2, <3>3, <3>4, <3>5
    <3> QED
      BY <3>6 DEF Slot
  <2>2. PICK n \in ContainerID, o \in Nat, m \in ContainerID, p \in Nat, fp \in Fp :
           /\ n = k[1] /\ o = s[1] /\ m = l[1] /\ p = t[1] /\ fp = s[2]
           /\ Stored(n, o, fp) /\ Stored(m, p, fp)
    BY <2>1
  <2>3. Recorded(n, o, fp) /\ Recorded(m, p, fp)
    BY <2>2 DEF Exact, AllRecorded
  <2>4. \A c, d \in Client : c = d
    BY UploadAssumption
  <2>5. \A c \in Client : pc[c] \in Asked /\ fp \in NewEntries(c) => fp \notin DOMAIN outIndex
    BY DEF Exact, Answered, NewEntries
  <2>6. [containerName |-> n, offset |-> o] = [containerName |-> m, offset |-> p]
    BY <2>3, <2>4, <2>5 DEF Recorded
  <2>7. n = m /\ o = p
    BY <2>6
  <2> QED
    BY <2>2, <2>7
<1> HIDE DEF Inv
<1> QED
  BY <1>1, <1>2, <1>3, PTL DEF Spec
=============================================================================
