------------------------------ MODULE EntryHeap ------------------------------
(***************************************************************************)
(* The top-k index as the code builds it (ecallUtil/ecallEntryHeap.cc): a   *)
(* hash map _index from fingerprints to items and a binary min-heap _heap   *)
(* of references into it, each item knowing its position.  One turn of the  *)
(* loops of SwapUp and SwapDown is one step; all of it runs under           *)
(* topKIndexLck_.  Positions count from 1 here and from 0 in the code.      *)
(***************************************************************************)
EXTENDS Integers, Sequences, Functions

CONSTANTS
    Fp,            \* the fingerprints
    Address,       \* the chunk addresses
    TopThreshold,  \* topThreshold_
    None,          \* a local variable out of scope
    MaxFreq        \* bound: the largest frequency offered (below 2^32)

(* Pop reads _heap[0] after it removed an entry, so a heap of one entry is  *)
(* outside what the class supports.                                         *)
ASSUME HeapAssumption == TopThreshold \in Nat \ {0, 1} /\ MaxFreq \in Nat \ {0}

VARIABLES
    heap,    \* _heap: the fingerprint of the item at each position
    index,   \* _index: fingerprint -> [address, chunkFreq, idx]
    pc,      \* the loop that runs: "ready", "popDown", "addUp", "updateUp", "updateDown"
    cur,     \* idx, the position the loop has reached
    key,     \* the chunk being added or updated
    value,   \* the item being added
    top      \* t of Pop: the item being removed

vars == <<heap, index, pc, cur, key, value, top>>

Freq == 1..MaxFreq
Item == [address : Address, chunkFreq : Freq]

(* HeapItem_t::idx of an item not yet placed: no position. *)
Uninit == 0

ParentIdx(p) == p \div 2
ChildIdx(p)  == 2 * p

FreqAt(p) == index[heap[p]].chunkFreq

Init ==
    /\ heap = <<>> /\ index = <<>>
    /\ pc = "ready" /\ cur = Uninit
    /\ key = None /\ value = None /\ top = None

(* EcallFreqIndex::CheckIfAddToHeap. *)
CheckIfAddToHeap(chunkFreq) ==
    IF Len(heap) < TopThreshold THEN TRUE ELSE chunkFreq >= FreqAt(1)
-----------------------------------------------------------------------------
(* Seeded fault: one of the two references is overwritten by the other. *)
SwapHalf(p, q) == heap' = [heap EXCEPT ![p] = heap[q]]

(* std::swap of two references, and the position of the one that moved away *)
(* from the item being placed.                                              *)
Swap(p, q) == heap' = [heap EXCEPT ![p] = heap[q], ![q] = heap[p]]
SetIdx(fp, p) == index' = [index EXCEPT ![fp].idx = p]

(* Seeded fault: the item that is swapped away keeps its old position. *)
SwapWithNoIdx(q) ==
    /\ Swap(cur, q)
    /\ cur' = q
    /\ UNCHANGED <<index, pc, key, value, top>>

SwapWith(q) ==
    /\ Swap(cur, q)
    /\ SetIdx(heap[q], cur)
    /\ cur' = q
    /\ UNCHANGED <<pc, key, value, top>>

(* The child SwapDown compares with: the right one if it is smaller. *)
SmallerChild ==
    LET child == ChildIdx(cur) IN
    IF child + 1 <= Len(heap) /\ FreqAt(child + 1) < FreqAt(child)
    THEN child + 1 ELSE child

CanGoUp   == cur > 1 /\ FreqAt(cur) < FreqAt(ParentIdx(cur))
CanGoDown == ChildIdx(cur) <= Len(heap) /\ FreqAt(SmallerChild) < FreqAt(cur)

SwapUp   == pc \in {"addUp", "updateUp"} /\ CanGoUp /\ SwapWith(ParentIdx(cur))
SwapDown == pc \in {"popDown", "updateDown"} /\ CanGoDown /\ SwapWith(SmallerChild)
-----------------------------------------------------------------------------
(* EcallEntryHeap::Update: the item is reached through its stored position. *)
Update(fp, chunkFreq) ==
    /\ pc = "ready" /\ CheckIfAddToHeap(chunkFreq) /\ fp \in DOMAIN index
    /\ cur' = index[fp].idx
    /\ index' = [index EXCEPT ![heap[index[fp].idx]].chunkFreq = chunkFreq]
    /\ key' = fp
    /\ pc' = "updateUp"
    /\ UNCHANGED <<heap, value, top>>

(* The end of Add or Update: the item that was placed gets its position. *)
Return ==
    /\ SetIdx(key, cur)
    /\ pc' = "ready" /\ cur' = Uninit /\ key' = None
    /\ UNCHANGED <<heap, value, top>>

(* SwapUp of Update is done: SwapDown follows. *)
UpdateUpDone ==
    /\ pc = "updateUp" /\ ~CanGoUp
    /\ pc' = "updateDown"
    /\ UNCHANGED <<heap, index, cur, key, value, top>>

UpdateDone == pc = "updateDown" /\ ~CanGoDown /\ Return

(* EcallEntryHeap::Add puts the item behind the last one. *)
Insert(h, ix, fp, item) ==
    /\ heap' = Append(h, fp)
    /\ index' = [n \in DOMAIN ix \cup {fp} |->
           IF n = fp THEN [address |-> item.address, chunkFreq |-> item.chunkFreq,
                           idx |-> Uninit]
                     ELSE ix[n]]
    /\ cur' = Len(h) + 1
    /\ key' = fp /\ value' = None /\ top' = None
    /\ pc' = "addUp"

(* EcallFreqIndex::AddChunkToHeap: into a full heap only after Pop, which    *)
(* moves the last item to the top and lets it sink.                         *)
Add(fp, item) ==
    /\ pc = "ready" /\ CheckIfAddToHeap(item.chunkFreq) /\ fp \notin DOMAIN index
    /\ Len(heap) # TopThreshold
    /\ Insert(heap, index, fp, item)

Pop(fp, item) ==
    /\ pc = "ready" /\ CheckIfAddToHeap(item.chunkFreq) /\ fp \notin DOMAIN index
    /\ Len(heap) = TopThreshold
    /\ top' = [first |-> heap[1], second |-> [address   |-> index[heap[1]].address,
                                              chunkFreq |-> index[heap[1]].chunkFreq]]
    /\ heap' = [p \in 1..(Len(heap) - 1) |-> IF p = 1 THEN heap[Len(heap)] ELSE heap[p]]
    /\ index' = Restrict(index, DOMAIN index \ {heap[1]})
    /\ key' = fp /\ value' = item
    /\ cur' = 1
    /\ pc' = "popDown"

(* Pop has placed the moved item; Add follows. *)
PopDone ==
    /\ pc = "popDown" /\ ~CanGoDown
    /\ Insert(heap, [index EXCEPT ![heap[cur]].idx = cur], key, value)

AddDone == pc = "addUp" /\ ~CanGoUp /\ Return

(* The server stops and starts again: PersistDedupIndex seals the items in   *)
(* the order of the array, each with its position; LoadDedupIndex pushes     *)
(* them back in that order.                                                 *)
Sealed == [p \in 1..Len(heap) |-> [first |-> heap[p], second |-> index[heap[p]]]]

Restart ==
    /\ pc = "ready"
    /\ LET items == Sealed IN
       /\ heap' = [p \in 1..Len(items) |-> items[p].first]
       /\ index' = [fp \in {items[p].first : p \in 1..Len(items)} |->
             items[CHOOSE p \in 1..Len(items) : items[p].first = fp].second]
    /\ UNCHANGED <<pc, cur, key, value, top>>

Next ==
    \/ \E fp \in Fp, chunkFreq \in Freq : Update(fp, chunkFreq)
    \/ \E fp \in Fp, item \in Item : Add(fp, item) \/ Pop(fp, item)
    \/ SwapUp \/ SwapDown
    \/ UpdateUpDone \/ UpdateDone \/ PopDone \/ AddDone
    \/ Restart

Spec == Init /\ [][Next]_vars
-----------------------------------------------------------------------------
IndexItem == [address : Address, chunkFreq : Freq, idx : Nat]

(* The type of every variable; _heap and _index have the same entries,      *)
(* every one once (Add, Pop).                                               *)
TypeOK ==
    /\ heap \in Seq(Fp)
    /\ index \in [DOMAIN index -> IndexItem]
    /\ pc \in {"ready", "popDown", "addUp", "updateUp", "updateDown"}
    /\ cur \in Nat /\ (pc # "ready" => cur \in 1..Len(heap))
    /\ pc # "ready" => key \in Fp
    /\ pc = "popDown" => value \in Item /\ top \in [first : Fp, second : Item]
    /\ DOMAIN index = {heap[p] : p \in 1..Len(heap)}
    /\ \A p, q \in 1..Len(heap) : heap[p] = heap[q] => p = q

(* At rest the array is ordered: no item is more frequent than its children *)
(* (SwapUp, SwapDown), so the first one is the minimum that Pop evicts.      *)
HeapOrder ==
    pc = "ready" => \A p \in 2..Len(heap) : FreqAt(ParentIdx(p)) <= FreqAt(p)

(* At rest every item knows its position, which Update relies on to reach   *)
(* the item it was asked to change.                                         *)
BackPointers == pc = "ready" => \A p \in 1..Len(heap) : index[heap[p]].idx = p

(* What the index holds for its user.  While Pop runs the removed item      *)
(* still counts: AddChunkToHeap is one operation under the lock.            *)
Contents ==
    LET item(fp) == [address |-> index[fp].address, chunkFreq |-> index[fp].chunkFreq]
    IN  IF pc = "popDown"
        THEN [fp \in DOMAIN index \cup {top.first} |->
                 IF fp = top.first THEN top.second ELSE item(fp)]
        ELSE [fp \in DOMAIN index |-> item(fp)]

TopK == INSTANCE TopKIndex WITH topK <- Contents

(* The array heap is the abstract index of TopKIndex: CheckIfAddToHeap and  *)
(* AddChunkToHeap decide by the real minimum and evict an item that has it, *)
(* Update changes the item of the chunk it was called for (key) and no      *)
(* other, and neither the loops nor a restart change what the index holds.  *)
ImplementsTopK ==
    /\ Contents = <<>>
    /\ [][\E chunkAddr \in Address, chunkFreq \in Freq :
              TopK!Offer(key', chunkAddr, chunkFreq)]_Contents
=============================================================================
