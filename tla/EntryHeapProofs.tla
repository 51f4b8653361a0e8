---------------------------- MODULE EntryHeapProofs ----------------------------
(***************************************************************************)
(* The array heap of the enclave is a heap, for every capacity and every    *)
(* sequence of operations: at rest it is ordered and its back pointers are  *)
(* right, and it implements the abstract top-k index.  While a loop runs    *)
(* the order may be broken at the position the loop has reached, and only   *)
(* there: upwards in SwapUp, downwards in SwapDown.                         *)
(***************************************************************************)
EXTENDS EntryHeap, FiniteSetTheorems, FunctionTheorems, SequenceTheorems, WellFoundedInduction, TLAPS

(* The orders, for an array F of n frequencies and a position k.            *)
Ordered(F, n) == \A p \in 2..n : F[ParentIdx(p)] <= F[p]

(* The children of position k are not below its parent. *)
Bridged(F, n, k) ==
    k > 1 => \A p \in 2..n : ParentIdx(p) = k => F[ParentIdx(k)] <= F[p]

UpOrder(F, n, k) ==
    /\ \A p \in 2..n : p # k /\ ParentIdx(p) # k => F[ParentIdx(p)] <= F[p]
    /\ Bridged(F, n, k)

DownOrder(F, n, k) ==
    /\ \A p \in 2..n : ParentIdx(p) # k => F[ParentIdx(p)] <= F[p]
    /\ Bridged(F, n, k)

AboveChildren(F, n, k) == \A p \in 2..n : ParentIdx(p) = k => F[k] <= F[p]

(* The array of frequencies. *)
Freqs == [p \in 1..Len(heap) |-> FreqAt(p)]

Pointers ==
    \A p \in 1..Len(heap) : pc = "ready" \/ p # cur => index[heap[p]].idx = p

Order ==
    /\ pc = "ready" => Ordered(Freqs, Len(heap))
    /\ pc \in {"addUp", "updateUp"} => UpOrder(Freqs, Len(heap), cur)
    /\ pc = "addUp" => AboveChildren(Freqs, Len(heap), cur)
    /\ pc \in {"popDown", "updateDown"} => DownOrder(Freqs, Len(heap), cur)

(* The item the operation is about, and the one that Pop took out. *)
Subject ==
    /\ Len(heap) <= TopThreshold
    /\ pc \in {"addUp", "updateUp", "updateDown"} => heap[cur] = key
    /\ pc = "popDown" =>
          /\ Len(heap) = TopThreshold - 1
          /\ key \notin DOMAIN index /\ top.first \notin DOMAIN index /\ key # top.first
          /\ top.second.chunkFreq <= value.chunkFreq
          /\ \A p \in 1..Len(heap) : top.second.chunkFreq <= Freqs[p]

Inv == TypeOK /\ Pointers /\ Order /\ Subject
-----------------------------------------------------------------------------
(* Positions in a binary tree.                                              *)
LEMMA ParentFacts ==
    /\ \A p \in Nat : p >= 2 => ParentIdx(p) \in Nat /\ 1 <= ParentIdx(p) /\ ParentIdx(p) < p
    /\ \A p, k \in Nat : k >= 1 =>
          (ParentIdx(p) = k <=> p = ChildIdx(k) \/ p = ChildIdx(k) + 1)
BY DEF ParentIdx, ChildIdx

(* The parent of a position of an array lies in the array, before it. *)
LEMMA ParentRange ==
    ASSUME NEW n \in Nat
    PROVE  \A p \in 2..n : ParentIdx(p) \in 1..n /\ ParentIdx(p) < p /\ p \in 1..n
<1> TAKE p \in 2..n
<1>1. p \in Nat /\ p >= 2 /\ p <= n
  OBVIOUS
<1>2. ParentIdx(p) \in Nat /\ 1 <= ParentIdx(p) /\ ParentIdx(p) < p
  BY <1>1, ParentFacts
<1> HIDE DEF ParentIdx
<1> QED
  BY <1>1, <1>2

Swapped(F, G, n, a, b) ==
    G[a] = F[b] /\ G[b] = F[a] /\ \A p \in 1..n : p # a /\ p # b => G[p] = F[p]

(* One turn of SwapUp. *)
LEMMA UpSwap ==
    ASSUME NEW n \in Nat, NEW F \in [1..n -> Nat], NEW G \in [1..n -> Nat], NEW k \in 2..n,
           UpOrder(F, n, k), F[k] < F[ParentIdx(k)], Swapped(F, G, n, k, ParentIdx(k))
    PROVE  UpOrder(G, n, ParentIdx(k)) /\ AboveChildren(G, n, ParentIdx(k))
<1> DEFINE q == ParentIdx(k)
<1>1. q \in 1..n /\ q < k /\ k \in 1..n
  BY ParentFacts
<1>2. \A p \in 2..n : ParentIdx(p) \in 1..n /\ ParentIdx(p) < p /\ p \in 1..n
  BY ParentRange
<1>3. G[k] = F[q] /\ G[q] = F[k] /\ \A p \in 1..n : p # k /\ p # q => G[p] = F[p]
  BY DEF Swapped
<1>4. q > 1 => ParentIdx(q) \in 1..n /\ ParentIdx(q) < q /\ q \in 2..n
  <2> HIDE DEF q
  <2>1. q > 1 => q \in 2..n
    BY <1>1
  <2> QED
    BY <1>2, <2>1
<1>5. ASSUME NEW p \in 2..n, ParentIdx(p) = q, p # k
      PROVE  F[q] <= F[p]
  <2>1. ParentIdx(p) # k
    BY <1>1, <1>5
  <2>2. F[ParentIdx(p)] <= F[p]
    BY <1>5, <2>1 DEF UpOrder
  <2> QED
    BY <1>5, <2>2
<1>6. ASSUME NEW p \in 2..n, p # q, ParentIdx(p) # q
      PROVE  G[ParentIdx(p)] <= G[p]
  <2>1. CASE ParentIdx(p) = k
    <3>1. p # k /\ p # q /\ G[p] = F[p] /\ G[k] = F[q]
      BY <1>1, <1>2, <1>3, <2>1
    <3>2. F[q] <= F[p]
      BY <2>1 DEF UpOrder, Bridged
    <3> QED
      BY <2>1, <3>1, <3>2
  <2>2. CASE ParentIdx(p) # k
    <3>1. p # k
      BY <1>6
    <3>2. G[p] = F[p] /\ G[ParentIdx(p)] = F[ParentIdx(p)]
      BY <1>2, <1>3, <1>6, <2>2, <3>1
    <3> QED
      BY <2>2, <3>1, <3>2 DEF UpOrder
  <2> QED
    BY <2>1, <2>2
<1>7. ASSUME NEW p \in 2..n, ParentIdx(p) = q
      PROVE  G[q] <= G[p] /\ (q > 1 => G[ParentIdx(q)] <= G[p])
  <2> DEFINE a == F[k]
             b == F[q]
  <2>1. a \in Nat /\ b \in Nat /\ G[p] \in Nat /\ a < b /\ G[q] = a
    BY <1>1, <1>2, <1>3
  <2>2. b <= G[p]
    <3>1. CASE p = k
      BY <1>1, <1>3, <3>1
    <3>2. CASE p # k
      <4>1. p # q /\ p \in 1..n
        BY <1>2, <1>7
      <4>2. G[p] = F[p]
        BY <1>3, <3>2, <4>1
      <4>3. F[q] <= F[p]
        BY <1>5, <1>7, <3>2
      <4> QED
        BY <4>2, <4>3
    <3> QED
      BY <3>1, <3>2
  <2>3. q > 1 => G[ParentIdx(q)] = F[ParentIdx(q)] /\ F[ParentIdx(q)] \in Nat /\ F[ParentIdx(q)] <= b
    <3> SUFFICES ASSUME q > 1
                 PROVE  G[ParentIdx(q)] = F[ParentIdx(q)] /\ F[ParentIdx(q)] \in Nat /\ F[ParentIdx(q)] <= b
      OBVIOUS
    <3>1. ParentIdx(q) \in 1..n /\ ParentIdx(q) < q /\ q \in 2..n /\ ParentIdx(q) # k /\ q # k
      <4> HIDE DEF q
      <4>1. ParentIdx(q) \in 1..n /\ ParentIdx(q) < q /\ q \in 2..n
        BY <1>4
      <4>2. q \in 1..n /\ q < k /\ k \in 1..n
        BY <1>1
      <4> QED
        BY <4>1, <4>2
    <3>2. G[ParentIdx(q)] = F[ParentIdx(q)] /\ F[ParentIdx(q)] \in Nat
      BY <1>3, <3>1, SMTT(40)
    <3>3. F[ParentIdx(q)] <= F[q]
      BY <3>1 DEF UpOrder
    <3> QED
      BY <3>2, <3>3
  <2> HIDE DEF a, b, q
  <2> QED
    BY <2>1, <2>2, <2>3
<1> QED
  BY <1>6, <1>7 DEF UpOrder, AboveChildren, Bridged

(* SwapUp has ended: after Add the array is ordered, after Update it is      *)
(* broken downwards at most.                                                *)
LEMMA UpEnd ==
    ASSUME NEW n \in Nat, NEW F \in [1..n -> Nat], NEW k \in 1..n,
           UpOrder(F, n, k), ~(k > 1 /\ F[k] < F[ParentIdx(k)])
    PROVE  /\ DownOrder(F, n, k)
           /\ AboveChildren(F, n, k) => Ordered(F, n)
<1>1. ASSUME NEW p \in 2..n, ParentIdx(p) # k PROVE F[ParentIdx(p)] <= F[p]
  <2>1. CASE p = k
    <3>1. ParentIdx(k) \in 1..n /\ k > 1
      BY <2>1, ParentFacts
    <3>2. F[k] \in Nat /\ F[ParentIdx(k)] \in Nat
      BY <3>1
    <3> QED
      BY <2>1, <3>1, <3>2
  <2>2. CASE p # k
    BY <1>1, <2>2 DEF UpOrder
  <2> QED
    BY <2>1, <2>2
<1>2. DownOrder(F, n, k)
  BY <1>1 DEF DownOrder, UpOrder
<1>3. ASSUME AboveChildren(F, n, k) PROVE Ordered(F, n)
  BY <1>1, <1>3 DEF AboveChildren, Ordered
<1> QED
  BY <1>2, <1>3

(* One turn of SwapDown, to the smaller child c. *)
LEMMA DownSwap ==
    ASSUME NEW n \in Nat, NEW F \in [1..n -> Nat], NEW G \in [1..n -> Nat],
           NEW k \in 1..n, NEW c \in 2..n, ParentIdx(c) = k,
           \A p \in 2..n : ParentIdx(p) = k => F[c] <= F[p],
           DownOrder(F, n, k), F[c] < F[k], Swapped(F, G, n, k, c)
    PROVE  DownOrder(G, n, c)
<1>1. \A p \in 2..n : ParentIdx(p) \in 1..n /\ ParentIdx(p) < p /\ p \in 1..n
  BY ParentRange
<1>2. G[k] = F[c] /\ G[c] = F[k] /\ \A p \in 1..n : p # k /\ p # c => G[p] = F[p]
  BY DEF Swapped
<1>3. k < c /\ c \in 1..n
  BY <1>1
<1>4. ASSUME NEW p \in 2..n, ParentIdx(p) # c PROVE G[ParentIdx(p)] <= G[p]
  <2>1. CASE p = c
    BY <1>2, <1>3, <2>1
  <2>2. CASE p # c /\ ParentIdx(p) = k
    <3>1. p # k
      BY <1>1, <2>2
    <3>2. G[p] = F[p] /\ G[ParentIdx(p)] = F[c]
      BY <1>1, <1>2, <2>2, <3>1
    <3> QED
      BY <2>2, <3>2
  <2>3. CASE p # c /\ ParentIdx(p) # k /\ p = k
    <3>1. G[ParentIdx(k)] = F[ParentIdx(k)] /\ k > 1
      BY <1>1, <1>2, <1>4, <2>3
    <3>2. F[ParentIdx(k)] <= F[c]
      BY <3>1 DEF DownOrder, Bridged
    <3> QED
      BY <1>2, <2>3, <3>1, <3>2
  <2>4. CASE p # c /\ ParentIdx(p) # k /\ p # k
    <3>1. G[p] = F[p] /\ G[ParentIdx(p)] = F[ParentIdx(p)]
      BY <1>1, <1>2, <1>4, <2>4
    <3> QED
      BY <2>4, <3>1 DEF DownOrder
  <2> QED
    BY <2>1, <2>2, <2>3, <2>4
<1>5. ASSUME NEW p \in 2..n, ParentIdx(p) = c PROVE G[ParentIdx(c)] <= G[p]
  <2>1. p # c /\ p # k /\ ParentIdx(p) # k
    BY <1>1, <1>3, <1>5
  <2>2. G[p] = F[p] /\ G[ParentIdx(c)] = F[c]
    BY <1>1, <1>2, <2>1
  <2> QED
    BY <1>5, <2>1, <2>2 DEF DownOrder
<1> QED
  BY <1>4, <1>5 DEF DownOrder, Bridged

(* SwapDown has ended. *)
LEMMA DownEnd ==
    ASSUME NEW n \in Nat, NEW F \in [1..n -> Nat], NEW k \in 1..n,
           DownOrder(F, n, k), AboveChildren(F, n, k)
    PROVE  Ordered(F, n)
BY DEF DownOrder, AboveChildren, Ordered

(* The first item of an ordered array is a minimum: the first position with  *)
(* a smaller frequency would have a parent with one, too.                   *)
LEMMA RootIsMin ==
    ASSUME NEW n \in Nat, NEW F \in [1..n -> Nat], Ordered(F, n)
    PROVE  \A p \in 1..n : F[1] <= F[p]
<1> DEFINE S == {p \in 1..n : F[p] < F[1]}
           R == {r \in Nat \X Nat : r[1] < r[2]}
<1> SUFFICES ASSUME S # {} PROVE FALSE
  <2>1. ASSUME NEW p \in 1..n, S = {} PROVE F[1] <= F[p]
    <3>1. 1 \in 1..n
      OBVIOUS
    <3>2. F[1] \in Nat /\ F[p] \in Nat /\ ~(F[p] < F[1])
      BY <2>1, <3>1
    <3> QED
      BY <3>2
  <2> QED
    BY <2>1
<1>1. IsWellFoundedOn(R, Nat)
  BY NatLessThanWellFounded DEF OpToRel
<1>2. S \subseteq Nat
  OBVIOUS
<1>3. PICK m \in S : \A y \in S : ~(<<y, m>> \in R)
  <2> HIDE DEF R, S
  <2> QED
    BY <1>1, <1>2, WFMin
<1>4. m \in 2..n /\ F[m] < F[1]
  BY <1>3
<1>5. ParentIdx(m) \in 1..n /\ ParentIdx(m) < m /\ ParentIdx(m) \in Nat /\ m \in Nat
  BY <1>4, ParentFacts
<1>6. F[ParentIdx(m)] <= F[m]
  BY <1>4 DEF Ordered
<1>7. F[ParentIdx(m)] \in Nat /\ F[m] \in Nat /\ F[1] \in Nat
  BY <1>4, <1>5
<1>8. ParentIdx(m) \in S
  BY <1>4, <1>5, <1>6, <1>7
<1> QED
  BY <1>3, <1>5, <1>8

(* Update changes the frequency at position k. *)
LEMMA UpdateOrder ==
    ASSUME NEW n \in Nat, NEW F \in [1..n -> Nat], NEW G \in [1..n -> Nat], NEW k \in 1..n,
           Ordered(F, n), \A p \in 1..n : p # k => G[p] = F[p]
    PROVE  UpOrder(G, n, k)
<1>1. \A p \in 2..n : ParentIdx(p) \in 1..n /\ ParentIdx(p) < p /\ p \in 1..n
  BY ParentRange
<1>2. ASSUME NEW p \in 2..n, p # k, ParentIdx(p) # k PROVE G[ParentIdx(p)] <= G[p]
  BY <1>1, <1>2 DEF Ordered
<1>3. ASSUME k > 1, NEW p \in 2..n, ParentIdx(p) = k PROVE G[ParentIdx(k)] <= G[p]
  <2>1. k \in 2..n /\ ParentIdx(k) \in 1..n /\ ParentIdx(k) # k /\ p # k /\ p \in 1..n
    BY <1>1, <1>3
  <2>2. G[ParentIdx(k)] = F[ParentIdx(k)] /\ G[p] = F[p]
    BY <2>1
  <2>3. F[ParentIdx(k)] <= F[k]
    BY <2>1 DEF Ordered
  <2>4. F[ParentIdx(p)] <= F[p]
    BY DEF Ordered
  <2>5. F[ParentIdx(k)] \in Nat /\ F[k] \in Nat /\ F[p] \in Nat
    BY <2>1
  <2> QED
    BY <1>3, <2>2, <2>3, <2>4, <2>5
<1> QED
  BY <1>2, <1>3 DEF UpOrder, Bridged

(* Add puts an item behind the last one. *)
LEMMA AppendOrder ==
    ASSUME NEW n \in Nat, NEW F \in [1..n -> Nat], NEW G \in [1..(n + 1) -> Nat],
           Ordered(F, n), \A p \in 1..n : G[p] = F[p]
    PROVE  UpOrder(G, n + 1, n + 1) /\ AboveChildren(G, n + 1, n + 1)
<1>1. \A p \in 2..(n + 1) : ParentIdx(p) \in 1..n /\ ParentIdx(p) < n + 1
  BY ParentFacts
<1>2. ASSUME NEW p \in 2..(n + 1), p # n + 1 PROVE G[ParentIdx(p)] <= G[p]
  <2>1. p \in 2..n /\ p \in 1..n
    BY <1>2
  <2> QED
    BY <1>1, <2>1 DEF Ordered
<1> QED
  BY <1>1, <1>2 DEF UpOrder, Bridged, AboveChildren

(* Pop moves the last item to the first position. *)
LEMMA PopOrder ==
    ASSUME NEW n \in Nat, NEW F \in [1..n -> Nat], NEW G \in [1..(n - 1) -> Nat],
           Ordered(F, n), \A p \in 2..(n - 1) : G[p] = F[p]
    PROVE  DownOrder(G, n - 1, 1)
<1>1. ASSUME NEW p \in 2..(n - 1), ParentIdx(p) # 1 PROVE G[ParentIdx(p)] <= G[p]
  <2>1. ParentIdx(p) \in 2..(n - 1) /\ p \in 2..n
    <3>1. p \in 2..n /\ p <= n - 1
      OBVIOUS
    <3>2. ParentIdx(p) \in 1..n /\ ParentIdx(p) < p
      BY <3>1, ParentRange
    <3> QED
      BY <1>1, <3>1, <3>2
  <2> QED
    BY <2>1 DEF Ordered
<1> QED
  BY <1>1 DEF DownOrder, Bridged
-----------------------------------------------------------------------------
(* What one assignment to an item changes. *)
LEMMA IdxSet ==
    ASSUME NEW D, NEW ix \in [D -> IndexItem], NEW fp \in D, NEW p \in Nat
    PROVE  LET jx == [ix EXCEPT ![fp].idx = p] IN
           /\ jx \in [D -> IndexItem]
           /\ jx[fp].idx = p
           /\ \A f \in D : /\ jx[f].chunkFreq = ix[f].chunkFreq
                           /\ jx[f].address = ix[f].address
                           /\ f # fp => jx[f] = ix[f]
BY DEF IndexItem

LEMMA FreqSet ==
    ASSUME NEW D, NEW ix \in [D -> IndexItem], NEW fp \in D, NEW x \in Freq
    PROVE  LET jx == [ix EXCEPT ![fp].chunkFreq = x] IN
           /\ jx \in [D -> IndexItem]
           /\ jx[fp].chunkFreq = x
           /\ \A f \in D : /\ jx[f].idx = ix[f].idx
                           /\ jx[f].address = ix[f].address
                           /\ f # fp => jx[f] = ix[f]
BY DEF IndexItem

(* The entries of an array, each one once. *)
Once(h) == \A p, q \in 1..Len(h) : h[p] = h[q] => p = q
Entries(h) == {h[p] : p \in 1..Len(h)}

Exchange(h, a, b) == [h EXCEPT ![a] = h[b], ![b] = h[a]]

LEMMA HeapSwap ==
    ASSUME NEW h \in Seq(Fp), NEW a \in 1..Len(h), NEW b \in 1..Len(h), Once(h),
           NEW g, g = Exchange(h, a, b)
    PROVE  /\ g \in Seq(Fp) /\ Len(g) = Len(h)
           /\ g[a] = h[b] /\ g[b] = h[a]
           /\ \A p \in 1..Len(h) : p # a /\ p # b => g[p] = h[p]
           /\ Once(g) /\ Entries(g) = Entries(h)
<1>1. g \in Seq(Fp) /\ Len(g) = Len(h)
  BY DEF Exchange
<1>2. g[a] = h[b] /\ g[b] = h[a] /\ \A p \in 1..Len(h) : p # a /\ p # b => g[p] = h[p]
  BY DEF Exchange
<1>3. Once(g)
  BY <1>1, <1>2 DEF Once
<1>4. Entries(g) \subseteq Entries(h)
  BY <1>1, <1>2 DEF Entries
<1>5. ASSUME NEW p \in 1..Len(h) PROVE h[p] \in Entries(g)
  <2>1. CASE p = a
    BY <1>1, <1>2, <2>1 DEF Entries
  <2>2. CASE p = b
    BY <1>1, <1>2, <2>2 DEF Entries
  <2>3. CASE p # a /\ p # b
    BY <1>1, <1>2, <2>3 DEF Entries
  <2> QED
    BY <2>1, <2>2, <2>3
<1>6. Entries(g) = Entries(h)
  BY <1>4, <1>5 DEF Entries
<1> QED
  BY <1>1, <1>2, <1>3, <1>6
-----------------------------------------------------------------------------
(* The frequencies of the items in the array. *)
LEMMA FreqsType ==
    ASSUME TypeOK
    PROVE  /\ Len(heap) \in Nat /\ Freqs \in [1..Len(heap) -> Nat]
           /\ \A p \in 1..Len(heap) :
                 heap[p] \in Fp /\ heap[p] \in DOMAIN index /\ Freqs[p] = index[heap[p]].chunkFreq
           /\ Once(heap) /\ DOMAIN index = Entries(heap)
<1>1. Len(heap) \in Nat /\ \A p \in 1..Len(heap) : heap[p] \in DOMAIN index /\ heap[p] \in Fp
  BY DEF TypeOK
<1>2. \A p \in 1..Len(heap) : index[heap[p]].chunkFreq \in Nat
  BY <1>1, HeapAssumption DEF TypeOK, IndexItem, Freq
<1> QED
  BY <1>1, <1>2 DEF TypeOK, Freqs, FreqAt, Once, Entries

LEMMA FreqsNext ==
    ASSUME TypeOK'
    PROVE  /\ Len(heap') \in Nat /\ Freqs' \in [1..Len(heap') -> Nat]
           /\ \A p \in 1..Len(heap') : Freqs'[p] = index'[heap'[p]].chunkFreq
<1>1. Len(heap') \in Nat /\ \A p \in 1..Len(heap') : heap'[p] \in DOMAIN index'
  BY DEF TypeOK
<1>2. \A p \in 1..Len(heap') : index'[heap'[p]].chunkFreq \in Nat
  BY <1>1, HeapAssumption DEF TypeOK, IndexItem, Freq
<1> QED
  BY <1>1, <1>2 DEF Freqs, FreqAt

(* What a type-correct next state is made of. *)
LEMMA TypedNext ==
    ASSUME heap' \in Seq(Fp), index' \in [DOMAIN index' -> IndexItem],
           pc' \in {"ready", "popDown", "addUp", "updateUp", "updateDown"},
           cur' \in Nat, pc' # "ready" => cur' \in 1..Len(heap'),
           pc' # "ready" => key' \in Fp,
           pc' = "popDown" => value' \in Item /\ top' \in [first : Fp, second : Item],
           DOMAIN index' = Entries(heap'), Once(heap')
    PROVE  TypeOK'
BY DEF TypeOK, Entries, Once

(* One turn of a loop: two items change places, nothing else does. *)
LEMMA SwapStep ==
    ASSUME TypeOK, Pointers, Subject, pc # "ready", NEW q \in 1..Len(heap), q # cur, SwapWith(q)
    PROVE  /\ TypeOK' /\ Pointers' /\ Subject' /\ Len(heap') = Len(heap)
           /\ Swapped(Freqs, Freqs', Len(heap), cur, q)
           /\ DOMAIN index' = DOMAIN index
           /\ \A fp \in DOMAIN index : /\ index'[fp].chunkFreq = index[fp].chunkFreq
                                       /\ index'[fp].address = index[fp].address
<1> DEFINE n == Len(heap)
           D == DOMAIN index
<1>1. /\ heap' = [heap EXCEPT ![cur] = heap[q], ![q] = heap[cur]]
      /\ index' = [index EXCEPT ![heap[q]].idx = cur]
      /\ cur' = q /\ UNCHANGED <<pc, key, value, top>>
  BY DEF SwapWith, Swap, SetIdx
<1>2. /\ heap \in Seq(Fp) /\ cur \in 1..n /\ Once(heap) /\ index \in [D -> IndexItem]
      /\ D = Entries(heap) /\ cur \in Nat
  BY DEF TypeOK, Once, Entries
<1>3. /\ heap' \in Seq(Fp) /\ Len(heap') = n
      /\ heap'[cur] = heap[q] /\ heap'[q] = heap[cur]
      /\ \A p \in 1..n : p # cur /\ p # q => heap'[p] = heap[p]
      /\ Once(heap') /\ Entries(heap') = D
  <2>1. heap' = Exchange(heap, cur, q)
    BY <1>1 DEF Exchange
  <2>2. heap \in Seq(Fp)
    BY <1>2
  <2>3. cur \in 1..Len(heap)
    BY <1>2
  <2>4. Once(heap)
    BY <1>2
  <2>5. /\ heap' \in Seq(Fp) /\ Len(heap') = Len(heap)
        /\ Once(heap') /\ Entries(heap') = Entries(heap)
    BY <2>1, <2>2, <2>3, <2>4, HeapSwap
  <2>6. /\ heap'[cur] = heap[q] /\ heap'[q] = heap[cur]
        /\ \A p \in 1..Len(heap) : p # cur /\ p # q => heap'[p] = heap[p]
    BY <1>1, <2>2, <2>3
  <2> QED
    BY <1>2, <2>5, <2>6
<1>4. heap[q] \in D
  BY <1>2 DEF Entries
<1>5. /\ index' \in [D -> IndexItem] /\ index'[heap[q]].idx = cur
      /\ \A f \in D : /\ index'[f].chunkFreq = index[f].chunkFreq
                      /\ index'[f].address = index[f].address
                      /\ f # heap[q] => index'[f] = index[f]
  BY <1>1, <1>2, <1>4, IdxSet
<1>6. TypeOK'
  <2>1. DOMAIN index' = D
    BY <1>5
  <2> QED
    <3>1. heap' \in Seq(Fp) /\ index' \in [DOMAIN index' -> IndexItem]
      BY <1>3, <1>5, <2>1
    <3>2. DOMAIN index' = Entries(heap') /\ Once(heap')
      BY <1>3, <2>1
    <3>3. /\ pc' \in {"ready", "popDown", "addUp", "updateUp", "updateDown"}
          /\ cur' \in Nat /\ (pc' # "ready" => cur' \in 1..Len(heap'))
          /\ pc' # "ready" => key' \in Fp
          /\ pc' = "popDown" => value' \in Item /\ top' \in [first : Fp, second : Item]
      BY <1>1, <1>2, <1>3 DEF TypeOK
    <3> QED
      BY <3>1, <3>2, <3>3, TypedNext
<1>7. \A p \in 1..n : heap[p] \in D /\ heap'[p] \in D /\ (p # q => heap[p] # heap[q])
  BY <1>2, <1>3 DEF Entries, Once
<1>8. Pointers'
  <2> SUFFICES ASSUME NEW p \in 1..n, p # q PROVE index'[heap'[p]].idx = p
    BY <1>1, <1>3 DEF Pointers
  <2>1. CASE p = cur
    BY <1>3, <1>5, <2>1
  <2>2. CASE p # cur
    BY <1>3, <1>5, <1>7, <2>2 DEF Pointers
  <2> QED
    BY <2>1, <2>2
<1>9. Freqs \in [1..n -> Nat] /\ \A p \in 1..n : Freqs[p] = index[heap[p]].chunkFreq
  BY FreqsType
<1>10. \A p \in 1..n : Freqs'[p] = index'[heap'[p]].chunkFreq
  BY <1>3 DEF Freqs, FreqAt
<1>11. Swapped(Freqs, Freqs', n, cur, q)
  <2>1. Freqs'[cur] = Freqs[q] /\ Freqs'[q] = Freqs[cur]
    BY <1>2, <1>3, <1>5, <1>7, <1>9, <1>10
  <2>2. ASSUME NEW p \in 1..n, p # cur, p # q PROVE Freqs'[p] = Freqs[p]
    BY <1>3, <1>5, <1>7, <1>9, <1>10, <2>2
  <2> QED
    BY <2>1, <2>2 DEF Swapped
<1>12. Subject'
  <2>1. n <= TopThreshold /\ (pc \in {"addUp", "updateUp", "updateDown"} => heap[cur] = key)
    BY DEF Subject
  <2>2. ASSUME pc = "popDown" PROVE \A p \in 1..n : top.second.chunkFreq <= Freqs'[p]
    <3>1. \A p \in 1..n : top.second.chunkFreq <= Freqs[p]
      BY <2>2 DEF Subject
    <3> QED
      BY <1>2, <1>11, <3>1 DEF Swapped
  <2>3. DOMAIN index' = D
    BY <1>5
  <2>4. ASSUME pc = "popDown"
        PROVE  /\ n = TopThreshold - 1
               /\ key \notin D /\ top.first \notin D /\ key # top.first
               /\ top.second.chunkFreq <= value.chunkFreq
    BY <2>4 DEF Subject
  <2> QED
    BY <1>1, <1>3, <2>1, <2>2, <2>3, <2>4 DEF Subject
<1> QED
  BY <1>3, <1>5, <1>6, <1>8, <1>11, <1>12

(* The child that SwapDown chooses. *)
LEMMA Child ==
    ASSUME TypeOK, cur \in 1..Len(heap)
    PROVE  /\ ~CanGoDown => AboveChildren(Freqs, Len(heap), cur)
           /\ CanGoDown => /\ SmallerChild \in 2..Len(heap) /\ ParentIdx(SmallerChild) = cur
                           /\ \A p \in 2..Len(heap) : ParentIdx(p) = cur => Freqs[SmallerChild] <= Freqs[p]
                           /\ Freqs[SmallerChild] < Freqs[cur]
<1> DEFINE n == Len(heap)
           c == SmallerChild
           l == ChildIdx(cur)
<1>1. n \in Nat /\ Freqs \in [1..n -> Nat] /\ \A p \in 1..n : FreqAt(p) = Freqs[p]
  BY FreqsType DEF FreqAt
<1>2. l \in Nat /\ l >= 2 /\ ParentIdx(l) = cur /\ ParentIdx(l + 1) = cur
  BY <1>1 DEF ChildIdx, ParentIdx
<1>3. \A p \in 2..n : ParentIdx(p) = cur => p = l \/ p = l + 1
  BY <1>1, ParentFacts
<1>4. c = IF l + 1 <= n /\ FreqAt(l + 1) < FreqAt(l) THEN l + 1 ELSE l
  BY DEF SmallerChild
<1>5. CanGoDown <=> l <= n /\ FreqAt(c) < FreqAt(cur)
  BY DEF CanGoDown
<1> HIDE DEF l, c
<1>6. ASSUME l <= n
      PROVE  /\ c \in 2..n /\ ParentIdx(c) = cur
             /\ \A p \in 2..n : ParentIdx(p) = cur => Freqs[c] <= Freqs[p]
  <2>1. c \in 2..n /\ ParentIdx(c) = cur
    BY <1>1, <1>2, <1>4, <1>6
  <2>2. Freqs[c] <= Freqs[l] /\ (l + 1 <= n => Freqs[c] <= Freqs[l + 1])
    <3>1. l \in 1..n /\ Freqs[l] \in Nat /\ FreqAt(l) = Freqs[l]
      BY <1>1, <1>2, <1>6
    <3>2. CASE l + 1 <= n
      <4>1. l + 1 \in 1..n /\ Freqs[l + 1] \in Nat /\ FreqAt(l + 1) = Freqs[l + 1]
        BY <1>1, <1>2, <3>2
      <4> QED
        BY <1>4, <3>1, <4>1
    <3>3. CASE ~(l + 1 <= n)
      BY <1>4, <3>1, <3>3
    <3> QED
      BY <3>2, <3>3
  <2> QED
    BY <1>3, <2>1, <2>2
<1>7. ASSUME ~CanGoDown PROVE AboveChildren(Freqs, n, cur)
  <2>1. CASE ~(l <= n)
    BY <1>1, <1>2, <1>3, <2>1 DEF AboveChildren
  <2>2. CASE l <= n
    <3>1. c \in 1..n /\ Freqs[cur] <= Freqs[c] /\ Freqs[c] \in Nat /\ Freqs[cur] \in Nat
      BY <1>1, <1>5, <1>6, <1>7, <2>2
    <3>2. ASSUME NEW p \in 2..n, ParentIdx(p) = cur PROVE Freqs[cur] <= Freqs[p]
      <4>1. Freqs[c] <= Freqs[p] /\ Freqs[p] \in Nat
        BY <1>1, <1>6, <2>2, <3>2
      <4> QED
        BY <3>1, <4>1
    <3> QED
      BY <3>2 DEF AboveChildren
  <2> QED
    BY <2>1, <2>2
<1>8. ASSUME CanGoDown
      PROVE  /\ c \in 2..n /\ ParentIdx(c) = cur
             /\ \A p \in 2..n : ParentIdx(p) = cur => Freqs[c] <= Freqs[p]
             /\ Freqs[c] < Freqs[cur]
  BY <1>1, <1>5, <1>6, <1>8
<1> QED
  BY <1>7, <1>8 DEF c
-----------------------------------------------------------------------------
(* What the index holds for its user, entry by entry. *)
SameItems ==
    /\ DOMAIN index' = DOMAIN index
    /\ \A fp \in DOMAIN index : /\ index'[fp].chunkFreq = index[fp].chunkFreq
                                /\ index'[fp].address = index[fp].address

LEMMA SwapUpInv ==
    ASSUME Inv, SwapUp
    PROVE  Inv' /\ SameItems /\ UNCHANGED <<pc, key, value, top>>
<1> DEFINE n == Len(heap)
           q == ParentIdx(cur)
<1>1. /\ pc \in {"addUp", "updateUp"} /\ SwapWith(q) /\ UNCHANGED <<pc, key, value, top>>
      /\ cur > 1 /\ FreqAt(cur) < FreqAt(q) /\ cur' = q
  BY DEF SwapUp, CanGoUp, SwapWith
<1>2. TypeOK /\ Pointers /\ Subject /\ UpOrder(Freqs, n, cur)
  BY <1>1 DEF Inv, Order
<1>3. n \in Nat /\ Freqs \in [1..n -> Nat] /\ \A p \in 1..n : FreqAt(p) = Freqs[p]
  BY <1>2, FreqsType DEF FreqAt
<1>4. cur \in 2..n /\ cur \in 1..n /\ q \in 1..n /\ q # cur
  BY <1>1, <1>2, ParentFacts DEF TypeOK
<1>5. /\ TypeOK' /\ Pointers' /\ Subject' /\ Len(heap') = n /\ SameItems
      /\ Swapped(Freqs, Freqs', n, cur, q)
  BY <1>1, <1>2, <1>4, SwapStep DEF SameItems
<1>6. Freqs' \in [1..n -> Nat]
  BY <1>5, FreqsNext
<1>7. UpOrder(Freqs', n, q) /\ AboveChildren(Freqs', n, q)
  <2>1. Freqs[cur] < Freqs[q]
    BY <1>1, <1>3, <1>4
  <2>2. Swapped(Freqs, Freqs', n, cur, q)
    BY <1>5
  <2>3. UpOrder(Freqs, n, cur)
    BY <1>2
  <2> QED
    BY <1>3, <1>4, <1>6, <2>1, <2>2, <2>3, UpSwap
<1>8. Order'
  BY <1>1, <1>5, <1>7 DEF Order
<1> QED
  BY <1>1, <1>5, <1>8 DEF Inv

LEMMA SwapDownInv ==
    ASSUME Inv, SwapDown
    PROVE  Inv' /\ SameItems /\ UNCHANGED <<pc, key, value, top>>
<1> DEFINE n == Len(heap)
           c == SmallerChild
<1>1. /\ pc \in {"popDown", "updateDown"} /\ SwapWith(c) /\ UNCHANGED <<pc, key, value, top>>
      /\ CanGoDown /\ cur' = c
  BY DEF SwapDown, SwapWith
<1>2. TypeOK /\ Pointers /\ Subject /\ DownOrder(Freqs, n, cur) /\ cur \in 1..n
  BY <1>1 DEF Inv, Order, TypeOK
<1>3. n \in Nat /\ Freqs \in [1..n -> Nat]
  BY <1>2, FreqsType
<1>4. /\ c \in 2..n /\ ParentIdx(c) = cur
      /\ \A p \in 2..n : ParentIdx(p) = cur => Freqs[c] <= Freqs[p]
      /\ Freqs[c] < Freqs[cur]
  BY <1>1, <1>2, Child
<1> HIDE DEF c
<1>5. c \in 1..n /\ c # cur
  BY <1>2, <1>3, <1>4, ParentFacts
<1>6. /\ TypeOK' /\ Pointers' /\ Subject' /\ Len(heap') = n /\ SameItems
      /\ Swapped(Freqs, Freqs', n, cur, c)
  BY <1>1, <1>2, <1>5, SwapStep DEF SameItems
<1>7. Freqs' \in [1..n -> Nat]
  BY <1>6, FreqsNext
<1>8. DownOrder(Freqs', n, c)
  <2>1. Swapped(Freqs, Freqs', n, cur, c)
    BY <1>6
  <2>2. DownOrder(Freqs, n, cur) /\ cur \in 1..n
    BY <1>2
  <2> QED
    BY <1>3, <1>4, <1>7, <2>1, <2>2, DownSwap
<1>9. Order'
  BY <1>1, <1>6, <1>8 DEF Order
<1> QED
  BY <1>1, <1>6, <1>9 DEF Inv

(* The end of Add and of Update: the placed item gets its position.          *)
LEMMA ReturnInv ==
    ASSUME Inv, Return, pc # "ready", heap[cur] = key, Ordered(Freqs, Len(heap))
    PROVE  Inv' /\ SameItems
<1> DEFINE n == Len(heap)
           D == DOMAIN index
<1>1. /\ index' = [index EXCEPT ![key].idx = cur] /\ heap' = heap
      /\ pc' = "ready" /\ cur' = 0
  BY DEF Return, SetIdx, Uninit
<1>2. TypeOK /\ Pointers /\ Subject
  BY DEF Inv
<1>3. heap \in Seq(Fp) /\ cur \in 1..n /\ cur \in Nat /\ index \in [D -> IndexItem]
  BY <1>2 DEF TypeOK
<1>4. /\ \A p \in 1..n : heap[p] \in D /\ Freqs[p] = index[heap[p]].chunkFreq
      /\ Once(heap) /\ D = Entries(heap) /\ n \in Nat /\ Freqs \in [1..n -> Nat]
  BY <1>2, FreqsType
<1>5. /\ index' \in [D -> IndexItem] /\ index'[key].idx = cur
      /\ \A f \in D : /\ index'[f].chunkFreq = index[f].chunkFreq
                      /\ index'[f].address = index[f].address
                      /\ f # key => index'[f] = index[f]
  <2>1. key \in D
    BY <1>3, <1>4
  <2>2. index' = [index EXCEPT ![key].idx = cur] /\ index \in [D -> IndexItem] /\ cur \in Nat
    BY <1>1, <1>3
  <2> HIDE DEF D
  <2> QED
    BY <2>1, <2>2 DEF IndexItem
<1>6. DOMAIN index' = D
  BY <1>5
<1>7. TypeOK'
  BY <1>1, <1>3, <1>4, <1>5, <1>6, TypedNext
<1>8. \A p \in 1..n : index'[heap[p]].idx = p
  BY <1>3, <1>4, <1>5, <1>2 DEF Pointers, Once
<1>9. Pointers'
  BY <1>1, <1>8 DEF Pointers
<1>10. Freqs' = Freqs
  BY <1>1, <1>4, <1>5 DEF Freqs, FreqAt
<1>11. Order'
  BY <1>1, <1>10 DEF Order
<1>12. Subject'
  BY <1>1, <1>2 DEF Subject
<1> QED
  BY <1>5, <1>6, <1>7, <1>9, <1>11, <1>12 DEF Inv, SameItems

LEMMA UpdateUpDoneInv ==
    ASSUME Inv, UpdateUpDone
    PROVE  Inv' /\ SameItems
<1> DEFINE n == Len(heap)
<1>1. pc = "updateUp" /\ ~CanGoUp /\ pc' = "updateDown" /\ UNCHANGED <<heap, index, cur, key, value, top>>
  BY DEF UpdateUpDone
<1>2. TypeOK /\ Pointers /\ Subject /\ UpOrder(Freqs, n, cur) /\ cur \in 1..n
  BY <1>1 DEF Inv, Order, TypeOK
<1>3. n \in Nat /\ Freqs \in [1..n -> Nat] /\ \A p \in 1..n : FreqAt(p) = Freqs[p]
  BY <1>2, FreqsType DEF FreqAt
<1>4. ~(cur > 1 /\ Freqs[cur] < Freqs[ParentIdx(cur)])
  BY <1>1, <1>2, <1>3, ParentFacts DEF CanGoUp
<1>5. DownOrder(Freqs, n, cur)
  BY <1>2, <1>3, <1>4, UpEnd
<1>6. TypeOK'
  BY <1>1, <1>2 DEF TypeOK
<1>7. Freqs' = Freqs
  BY <1>1 DEF Freqs, FreqAt
<1>8. Order'
  BY <1>1, <1>5, <1>7 DEF Order
<1>9. Pointers' /\ Subject' /\ SameItems
  BY <1>1, <1>2 DEF Pointers, Subject, SameItems
<1> QED
  BY <1>6, <1>8, <1>9 DEF Inv

LEMMA UpdateDoneInv ==
    ASSUME Inv, UpdateDone
    PROVE  Inv' /\ SameItems
<1>1. pc = "updateDown" /\ ~CanGoDown /\ Return
  BY DEF UpdateDone
<1>2. /\ TypeOK /\ DownOrder(Freqs, Len(heap), cur) /\ cur \in 1..Len(heap)
      /\ heap[cur] = key
  BY <1>1 DEF Inv, Order, TypeOK, Subject
<1>3. Len(heap) \in Nat /\ Freqs \in [1..Len(heap) -> Nat]
  BY <1>2, FreqsType
<1>4. AboveChildren(Freqs, Len(heap), cur)
  BY <1>1, <1>2, Child
<1>5. Ordered(Freqs, Len(heap))
  BY <1>2, <1>3, <1>4, DownEnd
<1> QED
  BY <1>1, <1>2, <1>5, ReturnInv

LEMMA AddDoneInv ==
    ASSUME Inv, AddDone
    PROVE  Inv' /\ SameItems
<1> DEFINE n == Len(heap)
<1>1. pc = "addUp" /\ ~CanGoUp /\ Return
  BY DEF AddDone
<1>2. /\ TypeOK /\ UpOrder(Freqs, n, cur) /\ AboveChildren(Freqs, n, cur)
      /\ cur \in 1..n /\ heap[cur] = key
  BY <1>1 DEF Inv, Order, TypeOK, Subject
<1>3. n \in Nat /\ Freqs \in [1..n -> Nat] /\ \A p \in 1..n : FreqAt(p) = Freqs[p]
  BY <1>2, FreqsType DEF FreqAt
<1>4. ~(cur > 1 /\ Freqs[cur] < Freqs[ParentIdx(cur)])
  BY <1>1, <1>2, <1>3, ParentFacts DEF CanGoUp
<1>5. Ordered(Freqs, n)
  BY <1>2, <1>3, <1>4, UpEnd
<1> QED
  BY <1>1, <1>2, <1>5, ReturnInv

(* Update reaches the item it was asked for, through its stored position.    *)
LEMMA UpdateInv ==
    ASSUME Inv, NEW fp \in Fp, NEW x \in Freq, Update(fp, x)
    PROVE  /\ Inv' /\ fp \in DOMAIN index /\ DOMAIN index' = DOMAIN index
           /\ index'[fp].chunkFreq = x /\ index'[fp].address = index[fp].address
           /\ \A f \in DOMAIN index : f # fp => index'[f] = index[f]
<1> DEFINE n == Len(heap)
           D == DOMAIN index
<1>1. /\ pc = "ready" /\ fp \in D /\ cur' = index[fp].idx
      /\ index' = [index EXCEPT ![heap[index[fp].idx]].chunkFreq = x]
      /\ key' = fp /\ pc' = "updateUp" /\ UNCHANGED <<heap, value, top>>
  BY DEF Update
<1>2. TypeOK /\ Pointers /\ Subject /\ Ordered(Freqs, n)
  BY <1>1 DEF Inv, Order
<1>3. heap \in Seq(Fp) /\ index \in [D -> IndexItem]
  BY <1>2 DEF TypeOK
<1>4. /\ \A p \in 1..n : heap[p] \in D /\ Freqs[p] = index[heap[p]].chunkFreq
      /\ Once(heap) /\ D = Entries(heap) /\ n \in Nat /\ Freqs \in [1..n -> Nat]
  BY <1>2, FreqsType
<1>5. PICK k \in 1..n : heap[k] = fp
  BY <1>1, <1>4 DEF Entries
<1>6. index[fp].idx = k /\ heap[index[fp].idx] = fp
  BY <1>1, <1>2, <1>5 DEF Pointers
<1>7. cur' = k /\ index' = [index EXCEPT ![fp].chunkFreq = x]
  BY <1>1, <1>6
<1>8. /\ index' \in [D -> IndexItem] /\ index'[fp].chunkFreq = x
      /\ index'[fp].address = index[fp].address
      /\ \A f \in D : index'[f].idx = index[f].idx /\ (f # fp => index'[f] = index[f])
  <2>1. fp \in D /\ index \in [D -> IndexItem] /\ index' = [index EXCEPT ![fp].chunkFreq = x]
    BY <1>1, <1>3, <1>7
  <2> HIDE DEF D
  <2> QED
    BY <2>1 DEF IndexItem
<1>9. DOMAIN index' = D
  BY <1>8
<1>10. TypeOK'
  BY <1>1, <1>3, <1>4, <1>5, <1>7, <1>8, <1>9, TypedNext
<1>11. Pointers'
  BY <1>1, <1>2, <1>4, <1>8 DEF Pointers
<1>12. /\ Freqs' \in [1..n -> Nat]
       /\ \A p \in 1..n : Freqs'[p] = index'[heap[p]].chunkFreq
  BY <1>1, <1>10, FreqsNext
<1>13. \A p \in 1..n : p # k => Freqs'[p] = Freqs[p]
  BY <1>4, <1>5, <1>8, <1>12 DEF Once
<1>14. UpOrder(Freqs', n, k)
  BY <1>2, <1>4, <1>12, <1>13, UpdateOrder
<1>15. Order'
  BY <1>1, <1>7, <1>14 DEF Order
<1>16. Subject'
  BY <1>1, <1>2, <1>5, <1>7 DEF Subject
<1> QED
  BY <1>1, <1>8, <1>9, <1>10, <1>11, <1>15, <1>16 DEF Inv

(* Add puts a new item into an ordered array of at most TopThreshold - 1.    *)
LEMMA InsertInv ==
    ASSUME NEW STATE h, NEW STATE ix, NEW STATE F, NEW fp \in Fp, NEW item \in Item,
           h \in Seq(Fp), ix \in [Entries(h) -> IndexItem], Once(h),
           \A p \in 1..Len(h) : ix[h[p]].idx = p,
           F \in [1..Len(h) -> Nat], \A p \in 1..Len(h) : F[p] = ix[h[p]].chunkFreq,
           Ordered(F, Len(h)), Len(h) < TopThreshold, fp \notin Entries(h),
           heap' = Append(h, fp),
           index' = [f \in Entries(h) \cup {fp} |->
                        IF f = fp THEN [address |-> item.address, chunkFreq |-> item.chunkFreq,
                                        idx |-> Uninit]
                                  ELSE ix[f]],
           cur' = Len(h) + 1, key' = fp, pc' = "addUp"
    PROVE  Inv'
<1> DEFINE n == Len(h)
           D == Entries(h)
           x == [address |-> item.address, chunkFreq |-> item.chunkFreq, idx |-> Uninit]
<1>1. n \in Nat /\ \A p \in 1..n : h[p] \in D /\ h[p] \in Fp /\ h[p] # fp
  BY DEF Entries
<1>2. x \in IndexItem
  BY DEF IndexItem, Item, Uninit
<1>3. /\ heap' \in Seq(Fp) /\ Len(heap') = n + 1 /\ heap'[n + 1] = fp
      /\ \A p \in 1..n : heap'[p] = h[p]
  OBVIOUS
<1>4. index' = [f \in D \cup {fp} |-> IF f = fp THEN x ELSE ix[f]]
  OBVIOUS
<1>5. \A p \in 1..(n + 1) : p \in 1..n \/ p = n + 1
  BY <1>1
<1>6. n + 1 \in 1..(n + 1) /\ \A p \in 1..n : p \in 1..(n + 1)
  BY <1>1
<1> HIDE DEF x, n
<1>7. Once(heap')
  BY <1>1, <1>3, <1>5 DEF Once, n
<1>8. Entries(heap') = D \cup {fp}
  BY <1>1, <1>3, <1>5, <1>6 DEF Entries, n
<1> HIDE DEF D
<1>9. /\ index' \in [D \cup {fp} -> IndexItem] /\ DOMAIN index' = D \cup {fp}
      /\ index'[fp] = x /\ \A f \in D : f # fp => index'[f] = ix[f]
  BY <1>2, <1>4 DEF D
<1>10. TypeOK'
  <2>1. cur' \in Nat /\ cur' \in 1..Len(heap')
    BY <1>1, <1>3, <1>6 DEF n
  <2>2. index' \in [DOMAIN index' -> IndexItem] /\ DOMAIN index' = Entries(heap')
    BY <1>8, <1>9
  <2> QED
    BY <1>3, <1>7, <2>1, <2>2, TypedNext
<1>11. Pointers'
  <2> SUFFICES ASSUME NEW p \in 1..(n + 1), p # n + 1 PROVE index'[heap'[p]].idx = p
    BY <1>3 DEF Pointers, n
  <2>1. p \in 1..n
    BY <1>5
  <2>2. index'[heap'[p]] = ix[h[p]]
    BY <1>1, <1>3, <1>9, <2>1
  <2> QED
    BY <2>1, <2>2 DEF n
<1>12. /\ Freqs' \in [1..(n + 1) -> Nat]
       /\ \A p \in 1..(n + 1) : Freqs'[p] = index'[heap'[p]].chunkFreq
  BY <1>3, <1>10, FreqsNext
<1>13. ASSUME NEW p \in 1..n PROVE Freqs'[p] = F[p]
  <2>1. index'[heap'[p]] = ix[h[p]]
    BY <1>1, <1>3, <1>9
  <2>2. F[p] = ix[h[p]].chunkFreq
    BY DEF n
  <2>3. p \in 1..(n + 1)
    BY <1>6
  <2>4. Freqs'[p] = index'[heap'[p]].chunkFreq
    BY <1>12, <2>3
  <2> QED
    BY <2>1, <2>2, <2>4
<1>14. UpOrder(Freqs', n + 1, n + 1) /\ AboveChildren(Freqs', n + 1, n + 1)
  <2>1. F \in [1..n -> Nat] /\ Ordered(F, n)
    BY DEF n
  <2> QED
    BY <1>1, <1>12, <1>13, <2>1, AppendOrder
<1>15. Order'
  BY <1>3, <1>14 DEF Order, n
<1>16. Subject'
  BY <1>1, <1>3, HeapAssumption DEF Subject, n
<1> QED
  BY <1>10, <1>11, <1>15, <1>16 DEF Inv

(* Add into an index that is not full. *)
LEMMA AddInv ==
    ASSUME Inv, NEW fp \in Fp, NEW item \in Item, Add(fp, item)
    PROVE  Inv'
<1>1. /\ pc = "ready" /\ fp \notin DOMAIN index /\ Len(heap) # TopThreshold
      /\ heap' = Append(heap, fp) /\ cur' = Len(heap) + 1 /\ key' = fp /\ pc' = "addUp"
      /\ index' = [f \in DOMAIN index \cup {fp} |->
                      IF f = fp THEN [address |-> item.address, chunkFreq |-> item.chunkFreq,
                                      idx |-> Uninit]
                                ELSE index[f]]
  BY DEF Add, Insert
<1>2. TypeOK /\ Pointers /\ Subject /\ Ordered(Freqs, Len(heap))
  BY <1>1 DEF Inv, Order
<1>3. heap \in Seq(Fp) /\ index \in [DOMAIN index -> IndexItem]
  BY <1>2 DEF TypeOK
<1>4. /\ \A p \in 1..Len(heap) : Freqs[p] = index[heap[p]].chunkFreq
      /\ Freqs \in [1..Len(heap) -> Nat] /\ Once(heap) /\ DOMAIN index = Entries(heap)
      /\ Len(heap) \in Nat
  BY <1>2, FreqsType
<1>5. \A p \in 1..Len(heap) : index[heap[p]].idx = p
  BY <1>1, <1>2 DEF Pointers
<1>6. Len(heap) < TopThreshold
  BY <1>1, <1>2, <1>4, HeapAssumption DEF Subject
<1> QED
  BY <1>1, <1>2, <1>3, <1>4, <1>5, <1>6, InsertInv

(* Pop is done: the moved item gets its position, then the new one is added. *)
LEMMA PopDoneInv ==
    ASSUME Inv, PopDone
    PROVE  /\ Inv'
           /\ pc = "popDown" /\ key' = key
           /\ DOMAIN index' = DOMAIN index \cup {key}
           /\ index'[key].address = value.address /\ index'[key].chunkFreq = value.chunkFreq
           /\ \A f \in DOMAIN index : /\ index'[f].address = index[f].address
                                      /\ index'[f].chunkFreq = index[f].chunkFreq
<1> DEFINE n == Len(heap)
           D == DOMAIN index
           ix == [index EXCEPT ![heap[cur]].idx = cur]
<1>1. /\ pc = "popDown" /\ ~CanGoDown
      /\ heap' = Append(heap, key) /\ cur' = n + 1 /\ key' = key /\ pc' = "addUp"
      /\ index' = [f \in DOMAIN ix \cup {key} |->
                      IF f = key THEN [address |-> value.address, chunkFreq |-> value.chunkFreq,
                                       idx |-> Uninit]
                                 ELSE ix[f]]
  BY DEF PopDone, Insert
<1>2. /\ TypeOK /\ Pointers /\ Subject /\ DownOrder(Freqs, n, cur) /\ cur \in 1..n /\ cur \in Nat
      /\ heap \in Seq(Fp) /\ index \in [D -> IndexItem] /\ key \in Fp /\ value \in Item
  BY <1>1 DEF Inv, Order, TypeOK
<1>3. /\ \A p \in 1..n : heap[p] \in D /\ Freqs[p] = index[heap[p]].chunkFreq
      /\ Freqs \in [1..n -> Nat] /\ Once(heap) /\ D = Entries(heap) /\ n \in Nat
  BY <1>2, FreqsType
<1>4. AboveChildren(Freqs, n, cur)
  BY <1>1, <1>2, Child
<1>5. Ordered(Freqs, n)
  BY <1>2, <1>3, <1>4, DownEnd
<1>6. /\ ix \in [D -> IndexItem] /\ ix[heap[cur]].idx = cur /\ DOMAIN ix = D
      /\ \A f \in D : /\ ix[f].chunkFreq = index[f].chunkFreq
                      /\ ix[f].address = index[f].address
                      /\ f # heap[cur] => ix[f] = index[f]
  <2>1. heap[cur] \in D /\ index \in [D -> IndexItem] /\ cur \in Nat
    BY <1>2, <1>3
  <2> HIDE DEF D
  <2> QED
    BY <2>1 DEF IndexItem
<1> HIDE DEF ix
<1>7. \A p \in 1..n : ix[heap[p]].idx = p
  BY <1>1, <1>2, <1>3, <1>6 DEF Pointers, Once
<1>8. \A p \in 1..n : Freqs[p] = ix[heap[p]].chunkFreq
  BY <1>3, <1>6
<1>9. n < TopThreshold /\ key \notin D
  BY <1>1, <1>2, <1>3, HeapAssumption DEF Subject
<1>10. index' = [f \in D \cup {key} |->
                    IF f = key THEN [address |-> value.address, chunkFreq |-> value.chunkFreq,
                                     idx |-> Uninit]
                               ELSE ix[f]]
  BY <1>1, <1>6
<1> HIDE DEF n, D
<1>11. Inv'
  <2>1. ix \in [Entries(heap) -> IndexItem] /\ key \notin Entries(heap)
    BY <1>3, <1>6, <1>9
  <2>2. index' = [f \in Entries(heap) \cup {key} |->
                     IF f = key THEN [address |-> value.address, chunkFreq |-> value.chunkFreq,
                                      idx |-> Uninit]
                                ELSE ix[f]]
    BY <1>3, <1>10
  <2> QED
    BY <1>1, <1>2, <1>3, <1>5, <1>7, <1>8, <1>9, <2>1, <2>2, InsertInv DEF n
<1>12. DOMAIN index' = D \cup {key}
  BY <1>10
<1>13. index'[key].address = value.address /\ index'[key].chunkFreq = value.chunkFreq
  BY <1>10
<1>14. ASSUME NEW f \in D
       PROVE  index'[f].address = index[f].address /\ index'[f].chunkFreq = index[f].chunkFreq
  <2>1. index'[f] = ix[f]
    BY <1>9, <1>10
  <2> QED
    BY <1>6, <2>1
<1> QED
  BY <1>1, <1>11, <1>12, <1>13, <1>14 DEF D

(* Pop takes the first item out of a full array and lets the last one sink. *)
LEMMA PopInv ==
    ASSUME Inv, NEW fp \in Fp, NEW item \in Item, Pop(fp, item)
    PROVE  /\ Inv' /\ pc = "ready" /\ pc' = "popDown"
           /\ top'.first \in DOMAIN index /\ DOMAIN index' = DOMAIN index \ {top'.first}
           /\ top'.second = [address   |-> index[top'.first].address,
                             chunkFreq |-> index[top'.first].chunkFreq]
           /\ \A f \in DOMAIN index' : index'[f] = index[f]
<1> DEFINE n == Len(heap)
           D == DOMAIN index
           r == heap[1]
<1>1. /\ pc = "ready" /\ CheckIfAddToHeap(item.chunkFreq) /\ fp \notin D /\ n = TopThreshold
      /\ top' = [first |-> r, second |-> [address   |-> index[r].address,
                                          chunkFreq |-> index[r].chunkFreq]]
      /\ heap' = [p \in 1..(n - 1) |-> IF p = 1 THEN heap[n] ELSE heap[p]]
      /\ index' = Restrict(index, D \ {r})
      /\ key' = fp /\ value' = item /\ cur' = 1 /\ pc' = "popDown"
  BY DEF Pop
<1>2. /\ TypeOK /\ Pointers /\ Ordered(Freqs, n)
      /\ heap \in Seq(Fp) /\ index \in [D -> IndexItem]
  BY <1>1 DEF Inv, Order, TypeOK
<1>3. /\ \A p \in 1..n : heap[p] \in Fp /\ heap[p] \in D /\ Freqs[p] = index[heap[p]].chunkFreq
      /\ Freqs \in [1..n -> Nat] /\ Once(heap) /\ D = Entries(heap) /\ n \in Nat
  BY <1>2, FreqsType
<1>4. n >= 2 /\ 1 \in 1..n /\ n \in 1..n /\ 1 \in 1..(n - 1) /\ r \in D /\ r \in Fp
  BY <1>1, <1>3, HeapAssumption
<1>5. ASSUME NEW p \in 2..n PROVE p \in 1..n /\ heap[p] \in D \ {r}
  <2>1. p \in 1..n /\ p # 1
    BY <1>3
  <2>2. heap[p] # heap[1]
    BY <1>4, <2>1, <1>3 DEF Once
  <2> QED
    BY <1>3, <2>1, <2>2
<1>6. n \in 2..n /\ \A p \in 2..(n - 1) : p \in 2..n /\ p \in 1..(n - 1)
  BY <1>3, <1>4
<1>7. index' = [f \in D \ {r} |-> index[f]]
  BY <1>1 DEF Restrict
<1>8. index' \in [D \ {r} -> IndexItem] /\ DOMAIN index' = D \ {r} /\ \A f \in D \ {r} : index'[f] = index[f]
  <2> HIDE DEF D, r
  <2> QED
    BY <1>2, <1>7
<1>9. /\ top'.first = r /\ top'.second.chunkFreq = index[r].chunkFreq
      /\ top'.second = [address |-> index[r].address, chunkFreq |-> index[r].chunkFreq]
      /\ top' \in [first : Fp, second : Item]
  <2>1. index[r] \in IndexItem
    BY <1>2, <1>4
  <2> HIDE DEF r
  <2> QED
    BY <1>1, <1>4, <2>1 DEF IndexItem, Item
<1>10. /\ heap' \in Seq(Fp) /\ Len(heap') = n - 1 /\ heap'[1] = heap[n]
      /\ \A p \in 2..(n - 1) : heap'[p] = heap[p]
  <2>1. heap' \in [1..(n - 1) -> Fp]
    BY <1>1, <1>3, <1>4
  <2>2. n - 1 \in Nat
    BY <1>3, <1>4
  <2>3. heap'[1] = heap[n] /\ \A p \in 2..(n - 1) : heap'[p] = heap[p]
    BY <1>1, <1>3, <1>4
  <2> HIDE DEF n
  <2> QED
    BY <2>1, <2>2, <2>3
<1>11. Once(heap')
  BY <1>3, <1>4, <1>10 DEF Once
<1>12. Entries(heap') = D \ {r}
  <2>1. ASSUME NEW p \in 1..(n - 1) PROVE heap'[p] \in D \ {r}
    <3>1. p = 1 \/ p \in 2..(n - 1)
      BY <1>3
    <3> QED
      BY <1>10, <1>5, <1>6, <3>1
  <2>2. ASSUME NEW f \in D \ {r} PROVE f \in Entries(heap')
    <3>1. PICK p \in 1..n : heap[p] = f
      BY <1>3, <2>2 DEF Entries
    <3>4. p \in 2..n
      BY <1>3, <2>2, <3>1
    <3>2. CASE p = n
      BY <1>4, <1>10, <3>1, <3>2 DEF Entries
    <3>3. CASE p # n
      <4>1. p \in 2..(n - 1) /\ p \in 1..(n - 1)
        BY <1>3, <3>3, <3>4
      <4> QED
        BY <1>10, <3>1, <4>1 DEF Entries
    <3> QED
      BY <3>2, <3>3
  <2>3. Entries(heap') \subseteq D \ {r}
    BY <1>10, <2>1 DEF Entries
  <2> QED
    BY <2>2, <2>3
<1>13. TypeOK'
  BY <1>1, <1>4, <1>8, <1>9, <1>10, <1>11, <1>12, TypedNext
<1>14. Pointers'
  <2> SUFFICES ASSUME NEW p \in 2..(n - 1) PROVE index'[heap'[p]].idx = p
    <3>1. \A p \in 1..(n - 1) : p # 1 => p \in 2..(n - 1)
      BY <1>3
    <3> QED
      BY <1>1, <1>10, <3>1 DEF Pointers
  <2>1. heap'[p] = heap[p] /\ heap[p] \in D \ {r} /\ p \in 1..n
    BY <1>10, <1>5, <1>6
  <2>2. index[heap[p]].idx = p
    BY <1>1, <1>2, <2>1 DEF Pointers
  <2> QED
    BY <1>8, <2>1, <2>2
<1>15. /\ Freqs' \in [1..(n - 1) -> Nat]
       /\ \A p \in 1..(n - 1) : Freqs'[p] = index'[heap'[p]].chunkFreq
  BY <1>10, <1>13, FreqsNext
<1>16. /\ \A p \in 2..(n - 1) : Freqs'[p] = Freqs[p]
       /\ Freqs'[1] = Freqs[n]
  <2>1. ASSUME NEW p \in 2..(n - 1) PROVE Freqs'[p] = Freqs[p]
    <3>1. heap'[p] = heap[p] /\ heap[p] \in D \ {r} /\ p \in 1..n /\ p \in 1..(n - 1)
      BY <1>10, <1>5, <1>6
    <3> QED
      BY <1>3, <1>8, <1>15, <3>1
  <2>2. Freqs'[1] = Freqs[n]
    <3>1. heap'[1] = heap[n] /\ heap[n] \in D \ {r}
      BY <1>10, <1>5, <1>6
    <3> QED
      BY <1>3, <1>4, <1>8, <1>15, <3>1
  <2> QED
    BY <2>1, <2>2
<1>17. DownOrder(Freqs', n - 1, 1)
  BY <1>2, <1>3, <1>15, <1>16, PopOrder
<1>18. Order'
  BY <1>1, <1>10, <1>17 DEF Order
<1>19. \A p \in 1..n : Freqs[1] <= Freqs[p]
  BY <1>2, <1>3, RootIsMin
<1>20. Subject'
  <2>1. top'.second.chunkFreq = Freqs[1] /\ FreqAt(1) = Freqs[1]
    BY <1>3, <1>4, <1>9 DEF FreqAt
  <2>2. item.chunkFreq >= Freqs[1] /\ Freqs[1] \in Nat /\ item.chunkFreq \in Nat
    BY <1>1, <1>3, <1>4, <2>1, HeapAssumption DEF CheckIfAddToHeap, Item, Freq
  <2>3. \A p \in 1..(n - 1) : Freqs[1] <= Freqs'[p]
    <3>1. \A p \in 1..(n - 1) : p = 1 \/ p \in 2..(n - 1)
      BY <1>3
    <3> QED
      BY <1>3, <1>4, <1>16, <1>19, <1>5, <1>6, <3>1
  <2>4. Len(heap') <= TopThreshold /\ Len(heap') = TopThreshold - 1
    <3>1. n = TopThreshold /\ Len(heap') = n - 1
      BY <1>1, <1>10
    <3> HIDE DEF n
    <3> QED
      BY <3>1, HeapAssumption
  <2>5. key' \notin DOMAIN index' /\ top'.first \notin DOMAIN index' /\ key' # top'.first
    BY <1>1, <1>4, <1>8, <1>9
  <2> QED
    BY <1>1, <1>10, <2>1, <2>2, <2>3, <2>4, <2>5 DEF Subject
<1> QED
  BY <1>1, <1>4, <1>8, <1>9, <1>13, <1>14, <1>18, <1>20 DEF Inv
-----------------------------------------------------------------------------
(* The sealed items are read back as they were. *)
LEMMA RestartSame ==
    ASSUME Inv, Restart
    PROVE  UNCHANGED vars
<1> DEFINE n == Len(heap)
<1>1. /\ pc = "ready" /\ UNCHANGED <<pc, cur, key, value, top>>
      /\ heap' = [p \in 1..Len(Sealed) |-> Sealed[p].first]
      /\ index' = [fp \in {Sealed[p].first : p \in 1..Len(Sealed)} |->
                      Sealed[CHOOSE p \in 1..Len(Sealed) : Sealed[p].first = fp].second]
  BY DEF Restart
<1>2. heap \in Seq(Fp) /\ index \in [DOMAIN index -> IndexItem]
  BY DEF Inv, TypeOK
<1>3. n \in Nat /\ Once(heap) /\ DOMAIN index = Entries(heap)
  BY FreqsType DEF Inv
<1>4. Sealed = [p \in 1..n |-> [first |-> heap[p], second |-> index[heap[p]]]]
  BY DEF Sealed
<1>5. Len(Sealed) = n /\ \A p \in 1..n : Sealed[p].first = heap[p] /\ Sealed[p].second = index[heap[p]]
  BY <1>3, <1>4
<1>6. heap' = [p \in 1..n |-> heap[p]]
  BY <1>1, <1>5
<1>7. heap = [p \in 1..n |-> heap[p]]
  BY <1>2
<1>8. {Sealed[p].first : p \in 1..Len(Sealed)} = DOMAIN index
  BY <1>3, <1>5 DEF Entries
<1>9. ASSUME NEW fp \in DOMAIN index
      PROVE  Sealed[CHOOSE p \in 1..Len(Sealed) : Sealed[p].first = fp].second = index[fp]
  <2> DEFINE c == CHOOSE p \in 1..Len(Sealed) : Sealed[p].first = fp
  <2>1. \E p \in 1..Len(Sealed) : Sealed[p].first = fp
    BY <1>3, <1>5 DEF Entries
  <2>2. c \in 1..Len(Sealed) /\ Sealed[c].first = fp
    BY <2>1
  <2> HIDE DEF c
  <2>3. Sealed[c].second = index[fp]
    BY <1>5, <2>2
  <2> QED
    BY <2>3 DEF c
<1>10. index' = [fp \in DOMAIN index |-> index[fp]]
  BY <1>1, <1>8, <1>9
<1> QED
  BY <1>1, <1>2, <1>6, <1>7, <1>10 DEF vars

LEMMA InitInv == Init => Inv
<1> SUFFICES ASSUME Init PROVE Inv
  OBVIOUS
<1>1. /\ heap = <<>> /\ index = <<>> /\ pc = "ready" /\ cur = 0 /\ Len(heap) = 0
  BY DEF Init, Uninit
<1>2. TypeOK
  <2>1. DOMAIN index = {} /\ index \in [DOMAIN index -> IndexItem]
    BY <1>1
  <2> QED
    BY <1>1, <2>1 DEF TypeOK
<1>3. Pointers /\ Order /\ Subject
  BY <1>1, HeapAssumption DEF Pointers, Order, Subject, Ordered
<1> QED
  BY <1>2, <1>3 DEF Inv

LEMMA StutterInv ==
    ASSUME Inv, UNCHANGED vars
    PROVE  Inv'
<1>1. heap' = heap /\ index' = index /\ UNCHANGED <<pc, cur, key, value, top>>
  BY DEF vars
<1>2. Freqs' = Freqs
  BY <1>1 DEF Freqs, FreqAt
<1>3. TypeOK'
  BY <1>1 DEF Inv, TypeOK
<1>4. Pointers' /\ Order' /\ Subject'
  BY <1>1, <1>2 DEF Inv, Pointers, Order, Subject
<1> QED
  BY <1>3, <1>4 DEF Inv

LEMMA NextInv == Inv /\ [Next]_vars => Inv'
<1> SUFFICES ASSUME Inv, [Next]_vars PROVE Inv'
  OBVIOUS
<1>1. ASSUME NEW fp \in Fp, NEW x \in Freq, Update(fp, x) PROVE Inv'
  BY <1>1, UpdateInv
<1>2. ASSUME NEW fp \in Fp, NEW item \in Item, Add(fp, item) PROVE Inv'
  BY <1>2, AddInv
<1>3. ASSUME NEW fp \in Fp, NEW item \in Item, Pop(fp, item) PROVE Inv'
  BY <1>3, PopInv
<1>4. CASE SwapUp
  BY <1>4, SwapUpInv
<1>5. CASE SwapDown
  BY <1>5, SwapDownInv
<1>6. CASE UpdateUpDone
  BY <1>6, UpdateUpDoneInv
<1>7. CASE UpdateDone
  BY <1>7, UpdateDoneInv
<1>8. CASE PopDone
  BY <1>8, PopDoneInv
<1>9. CASE AddDone
  BY <1>9, AddDoneInv
<1>10. CASE Restart
  BY <1>10, RestartSame, StutterInv
<1>11. CASE UNCHANGED vars
  BY <1>11, StutterInv
<1> QED
  BY <1>1, <1>2, <1>3, <1>4, <1>5, <1>6, <1>7, <1>8, <1>9, <1>10, <1>11 DEF Next

(* The invariant gives what the runs check. *)
LEMMA InvImplies == Inv => TypeOK /\ HeapOrder /\ BackPointers
<1> SUFFICES ASSUME Inv PROVE TypeOK /\ HeapOrder /\ BackPointers
  OBVIOUS
<1>1. TypeOK /\ BackPointers
  BY DEF Inv, Pointers, BackPointers
<1>2. Len(heap) \in Nat /\ \A p \in 1..Len(heap) : FreqAt(p) = Freqs[p]
  BY <1>1, FreqsType DEF FreqAt
<1>3. \A p \in 2..Len(heap) : p \in 1..Len(heap) /\ ParentIdx(p) \in 1..Len(heap)
  BY <1>2, ParentFacts
<1>4. HeapOrder
  BY <1>2, <1>3 DEF Inv, Order, Ordered, HeapOrder
<1> QED
  BY <1>1, <1>4

(* For every capacity, every number of chunks and every sequence of          *)
(* operations and restarts the array heap of ecallEntryHeap.cc is ordered    *)
(* and its back pointers are right whenever no operation runs.               *)
THEOREM HeapCorrect == Spec => [](TypeOK /\ HeapOrder /\ BackPointers)
<1>1. Spec => []Inv
  BY InitInv, NextInv, PTL DEF Spec
<1> QED
  BY <1>1, InvImplies, PTL
-----------------------------------------------------------------------------
(***************************************************************************)
(* The array heap implements the abstract top-k index, for every capacity:  *)
(* each operation maps to one step of TopKIndex, at its end for AddChunk    *)
(* into a full index and at its start otherwise; the turns of the loops     *)
(* and a restart map to stuttering.                                         *)
(***************************************************************************)

(* What a chunk's item is for the user of the index. *)
ItemOf(ix, fp) == [address |-> ix[fp].address, chunkFreq |-> ix[fp].chunkFreq]

LEMMA ContentsOf ==
    /\ pc # "popDown" => Contents = [fp \in DOMAIN index |-> ItemOf(index, fp)]
    /\ pc = "popDown" => Contents = [fp \in DOMAIN index \cup {top.first} |->
                                        IF fp = top.first THEN top.second ELSE ItemOf(index, fp)]
BY DEF Contents, ItemOf

LEMMA ContentsNext ==
    /\ pc' # "popDown" => Contents' = [fp \in DOMAIN index' |-> ItemOf(index', fp)]
    /\ pc' = "popDown" => Contents' = [fp \in DOMAIN index' \cup {top'.first} |->
                                          IF fp = top'.first THEN top'.second ELSE ItemOf(index', fp)]
BY DEF Contents, ItemOf

(* The operators of the abstract index and those of this module. *)
LEMMA SameCardinality == \A S : TopK!Cardinality(S) = Cardinality(S)
BY DEF TopK!Cardinality, Cardinality

LEMMA MinIs ==
    ASSUME NEW S, NEW m \in S, S \subseteq Nat, \A y \in S : m <= y
    PROVE  TopK!Min(S) = m
<1>1. \A x \in S : (\A y \in S : x <= y) => x = m
  OBVIOUS
<1> QED
  BY <1>1 DEF TopK!Min

(* An array of different entries has as many entries as positions. *)
LEMMA CountEntries ==
    ASSUME NEW h \in Seq(Fp), Once(h)
    PROVE  IsFiniteSet(Entries(h)) /\ Cardinality(Entries(h)) = Len(h)
<1> DEFINE n == Len(h)
           f == [p \in 1..n |-> h[p]]
<1>1. n \in Nat
  OBVIOUS
<1>2. f \in Bijection(1..n, Entries(h))
  BY DEF Bijection, Injection, Surjection, IsInjective, Once, Entries
<1>3. ExistsBijection(1..n, Entries(h))
  BY <1>2 DEF ExistsBijection
<1> HIDE DEF n
<1>4. Cardinality(Entries(h)) = n
  BY <1>1, <1>3, FS_CountingElements
<1>5. IsFiniteSet(Entries(h))
  BY <1>1, <1>3, FS_NatBijection
<1> QED
  BY <1>4, <1>5 DEF n

(* The steps that change no item map to stuttering. *)
LEMMA LoopStutters ==
    ASSUME SameItems, \/ pc # "popDown" /\ pc' # "popDown"
                      \/ pc = "popDown" /\ pc' = "popDown" /\ top' = top
    PROVE  Contents' = Contents
<1>1. DOMAIN index' = DOMAIN index /\ \A fp \in DOMAIN index : ItemOf(index', fp) = ItemOf(index, fp)
  BY DEF SameItems, ItemOf
<1>2. CASE pc # "popDown" /\ pc' # "popDown"
  BY <1>1, <1>2, ContentsOf, ContentsNext
<1>3. CASE pc = "popDown" /\ pc' = "popDown" /\ top' = top
  <2>1. \A fp \in DOMAIN index \cup {top.first} :
           (IF fp = top.first THEN top.second ELSE ItemOf(index', fp))
         = (IF fp = top.first THEN top.second ELSE ItemOf(index, fp))
    BY <1>1
  <2> QED
    BY <1>1, <1>3, <2>1, ContentsOf, ContentsNext
<1> QED
  BY <1>2, <1>3

(* Between operations the index has its size and its minimum. *)
LEMMA AtRest ==
    ASSUME Inv, pc = "ready"
    PROVE  /\ TopK!TopKSize = Len(heap)
           /\ \A x \in Freq : CheckIfAddToHeap(x) => TopK!CheckIfAddToHeap(x)
<1> DEFINE n == Len(heap)
           D == DOMAIN index
<1>1. TypeOK /\ Ordered(Freqs, n) /\ heap \in Seq(Fp)
  BY DEF Inv, Order, TypeOK
<1>2. /\ \A p \in 1..n : heap[p] \in D /\ Freqs[p] = index[heap[p]].chunkFreq
      /\ Freqs \in [1..n -> Nat] /\ Once(heap) /\ D = Entries(heap) /\ n \in Nat
  BY <1>1, FreqsType
<1>3. Contents = [fp \in D |-> ItemOf(index, fp)]
  BY ContentsOf
<1>4. TopK!TopKSize = n
  <2>1. DOMAIN Contents = Entries(heap)
    BY <1>2, <1>3
  <2> QED
    BY <1>1, <1>2, <2>1, CountEntries, SameCardinality DEF TopK!TopKSize
<1>5. ASSUME n >= TopThreshold PROVE TopK!TopEntry = FreqAt(1)
  <2> DEFINE S == {Contents[fp].chunkFreq : fp \in DOMAIN Contents}
  <2>1. 1 \in 1..n
    BY <1>2, <1>5, HeapAssumption
  <2>2. \A p \in 1..n : Freqs[1] <= Freqs[p]
    BY <1>1, <1>2, RootIsMin
  <2>3. \A fp \in D : Contents[fp].chunkFreq = index[fp].chunkFreq
    BY <1>3 DEF ItemOf
  <2>4. S = {index[fp].chunkFreq : fp \in D}
    BY <1>3, <2>3
  <2>5. ASSUME NEW y \in S PROVE Freqs[1] <= y /\ y \in Nat
    <3>1. PICK fp \in D : y = index[fp].chunkFreq
      BY <2>4
    <3>2. PICK p \in 1..n : heap[p] = fp
      BY <1>2 DEF Entries
    <3>3. y = Freqs[p]
      BY <1>2, <3>1, <3>2
    <3> QED
      BY <1>2, <2>2, <3>3
  <2>6. Freqs[1] \in S /\ FreqAt(1) = Freqs[1]
    BY <1>2, <2>1, <2>4 DEF FreqAt
  <2>7. TopK!TopEntry = TopK!Min(S)
    BY DEF TopK!TopEntry
  <2> HIDE DEF S
  <2> QED
    BY <2>5, <2>6, <2>7, MinIs
<1>6. ASSUME NEW x \in Freq, CheckIfAddToHeap(x) PROVE TopK!CheckIfAddToHeap(x)
  <2>1. CASE n < TopThreshold
    BY <1>4, <2>1 DEF TopK!CheckIfAddToHeap
  <2>2. CASE ~(n < TopThreshold)
    <3>1. x >= FreqAt(1)
      BY <1>6, <2>2 DEF CheckIfAddToHeap
    <3>2. n >= TopThreshold
      BY <1>2, <2>2, HeapAssumption
    <3> QED
      BY <1>4, <1>5, <2>2, <3>1, <3>2 DEF TopK!CheckIfAddToHeap
  <2> QED
    BY <2>1, <2>2
<1> QED
  BY <1>4, <1>6

LEMMA UpdateRefines ==
    ASSUME Inv, NEW fp \in Fp, NEW x \in Freq, Update(fp, x)
    PROVE  \E addr \in Address : TopK!Offer(key', addr, x)
<1> DEFINE D == DOMAIN index
<1>1. pc = "ready" /\ pc' = "updateUp" /\ CheckIfAddToHeap(x) /\ key' = fp
  BY DEF Update
<1>2. /\ fp \in D /\ DOMAIN index' = D
      /\ index'[fp].chunkFreq = x /\ index'[fp].address = index[fp].address
      /\ \A f \in D : f # fp => index'[f] = index[f]
  BY UpdateInv
<1>3. Contents = [f \in D |-> ItemOf(index, f)] /\ Contents' = [f \in D |-> ItemOf(index', f)]
  BY <1>1, <1>2, ContentsOf, ContentsNext
<1>4. TopK!CheckIfAddToHeap(x)
  BY <1>1, AtRest
<1>5. index[fp].address \in Address
  BY <1>2 DEF Inv, TypeOK, IndexItem
<1>6. [Contents EXCEPT ![fp].chunkFreq = x]
        = [f \in D |-> IF f = fp THEN [ItemOf(index, fp) EXCEPT !.chunkFreq = x]
                                 ELSE ItemOf(index, f)]
  BY <1>2, <1>3
<1>7. [ItemOf(index, fp) EXCEPT !.chunkFreq = x] = ItemOf(index', fp)
  BY <1>2 DEF ItemOf
<1>8. \A f \in D : f # fp => ItemOf(index', f) = ItemOf(index, f)
  BY <1>2 DEF ItemOf
<1>9. Contents' = [Contents EXCEPT ![fp].chunkFreq = x]
  BY <1>3, <1>6, <1>7, <1>8
<1>10. TopK!UpdateInsideIndexFreq(fp, x)
  BY <1>2, <1>3, <1>9 DEF TopK!UpdateInsideIndexFreq
<1> QED
  BY <1>1, <1>4, <1>5, <1>10 DEF TopK!Offer

LEMMA AddRefines ==
    ASSUME Inv, NEW fp \in Fp, NEW item \in Item, Add(fp, item)
    PROVE  TopK!Offer(key', item.address, item.chunkFreq)
<1> DEFINE D == DOMAIN index
           x == [address |-> item.address, chunkFreq |-> item.chunkFreq]
<1>1. /\ pc = "ready" /\ pc' = "addUp" /\ CheckIfAddToHeap(item.chunkFreq) /\ key' = fp
      /\ fp \notin D /\ Len(heap) # TopThreshold
      /\ index' = [f \in D \cup {fp} |->
                      IF f = fp THEN [address |-> item.address, chunkFreq |-> item.chunkFreq,
                                      idx |-> Uninit]
                                ELSE index[f]]
  BY DEF Add, Insert
<1>2. Contents = [f \in D |-> ItemOf(index, f)]
  BY <1>1, ContentsOf
<1>3. DOMAIN index' = D \cup {fp} /\ ItemOf(index', fp) = x
  BY <1>1 DEF ItemOf
<1>4. \A f \in D : ItemOf(index', f) = ItemOf(index, f)
  BY <1>1 DEF ItemOf
<1>5. Contents' = [f \in D \cup {fp} |-> ItemOf(index', f)]
  BY <1>1, <1>3, ContentsNext
<1>6. Contents' = [f \in D \cup {fp} |-> IF f = fp THEN x ELSE Contents[f]]
  BY <1>2, <1>3, <1>4, <1>5
<1>7. TopK!PopChoices = {{}}
  BY <1>1, AtRest DEF TopK!PopChoices
<1>8. TopK!Put(TopK!Restrict(Contents, DOMAIN Contents \ {}), fp, x)
        = [f \in D \cup {fp} |-> IF f = fp THEN x ELSE Contents[f]]
  BY <1>2 DEF TopK!Put, TopK!Restrict
<1>9. TopK!AddChunkToHeap(fp, item.address, item.chunkFreq)
  BY <1>1, <1>2, <1>6, <1>7, <1>8 DEF TopK!AddChunkToHeap
<1>10. TopK!CheckIfAddToHeap(item.chunkFreq)
  BY <1>1, AtRest DEF Item
<1> QED
  BY <1>1, <1>9, <1>10 DEF TopK!Offer

(* While Pop runs the removed item still counts. *)
LEMMA PopStutters ==
    ASSUME Inv, NEW fp \in Fp, NEW item \in Item, Pop(fp, item)
    PROVE  Contents' = Contents
<1> DEFINE D == DOMAIN index
           t == top'.first
<1>1. /\ pc = "ready" /\ pc' = "popDown" /\ t \in D /\ DOMAIN index' = D \ {t}
      /\ top'.second = ItemOf(index, t)
      /\ \A f \in DOMAIN index' : index'[f] = index[f]
  BY PopInv DEF ItemOf
<1>2. Contents = [f \in D |-> ItemOf(index, f)]
  BY <1>1, ContentsOf
<1>3. Contents' = [f \in DOMAIN index' \cup {t} |-> IF f = t THEN top'.second ELSE ItemOf(index', f)]
  BY <1>1, ContentsNext
<1>4. DOMAIN index' \cup {t} = D
  BY <1>1
<1>5. \A f \in D : f # t => ItemOf(index', f) = ItemOf(index, f)
  BY <1>1 DEF ItemOf
<1> HIDE DEF D, t
<1> QED
  BY <1>1, <1>2, <1>3, <1>4, <1>5

(* AddChunkToHeap into a full index takes effect when Pop is done. *)
LEMMA PopDoneRefines ==
    ASSUME Inv, PopDone
    PROVE  /\ TopK!Offer(key', value.address, value.chunkFreq)
           /\ value.address \in Address /\ value.chunkFreq \in Freq
<1> DEFINE n == Len(heap)
           D == DOMAIN index
           t == top.first
           x == [address |-> value.address, chunkFreq |-> value.chunkFreq]
<1>1. /\ pc = "popDown" /\ key' = key /\ DOMAIN index' = D \cup {key}
      /\ index'[key].address = value.address /\ index'[key].chunkFreq = value.chunkFreq
      /\ \A f \in D : /\ index'[f].address = index[f].address
                      /\ index'[f].chunkFreq = index[f].chunkFreq
  BY PopDoneInv
<1>2. pc' = "addUp"
  BY DEF PopDone, Insert
<1>3. /\ TypeOK /\ heap \in Seq(Fp) /\ value \in Item /\ top \in [first : Fp, second : Item]
      /\ n = TopThreshold - 1 /\ key \notin D /\ t \notin D /\ key # t
      /\ top.second.chunkFreq <= value.chunkFreq
      /\ \A p \in 1..n : top.second.chunkFreq <= Freqs[p]
  BY <1>1 DEF Inv, TypeOK, Subject
<1>4. /\ \A p \in 1..n : heap[p] \in D /\ Freqs[p] = index[heap[p]].chunkFreq
      /\ Freqs \in [1..n -> Nat] /\ Once(heap) /\ D = Entries(heap) /\ n \in Nat
  BY <1>3, FreqsType
<1>5. Contents = [f \in D \cup {t} |-> IF f = t THEN top.second ELSE ItemOf(index, f)]
  BY <1>1, ContentsOf
<1>6. Contents' = [f \in D \cup {key} |-> ItemOf(index', f)]
  BY <1>1, <1>2, ContentsNext
<1>7. ItemOf(index', key) = x /\ \A f \in D : ItemOf(index', f) = ItemOf(index, f)
  BY <1>1 DEF ItemOf
<1>8. /\ DOMAIN Contents = D \cup {t} /\ Contents[t] = top.second
      /\ \A f \in D : Contents[f] = ItemOf(index, f) /\ Contents[f].chunkFreq = index[f].chunkFreq
  BY <1>3, <1>5 DEF ItemOf
<1>9. TopK!TopKSize = TopThreshold
  <2>1. IsFiniteSet(D) /\ Cardinality(D) = n
    BY <1>3, <1>4, CountEntries
  <2>2. Cardinality(D \cup {t}) = n + 1
    BY <1>3, <2>1, FS_AddElement
  <2>3. Cardinality(DOMAIN Contents) = TopThreshold
    BY <1>3, <1>4, <1>8, <2>2, HeapAssumption
  <2> QED
    BY <2>3, SameCardinality DEF TopK!TopKSize
<1>10. TopK!TopEntry = top.second.chunkFreq
  <2> DEFINE S == {Contents[f].chunkFreq : f \in DOMAIN Contents}
             m == top.second.chunkFreq
  <2>1. m \in S
    BY <1>8
  <2>2. m \in Nat
    BY <1>3, HeapAssumption DEF Item, Freq
  <2>3. ASSUME NEW y \in S PROVE m <= y /\ y \in Nat
    <3>1. PICK f \in D \cup {t} : y = Contents[f].chunkFreq
      BY <1>8
    <3>2. CASE f = t
      BY <1>8, <2>2, <3>1, <3>2
    <3>3. CASE f \in D
      <4>1. PICK p \in 1..n : heap[p] = f
        BY <1>4, <3>3 DEF Entries
      <4>2. y = Freqs[p]
        BY <1>4, <1>8, <3>1, <3>3, <4>1
      <4> QED
        BY <1>3, <1>4, <4>2
    <3> QED
      BY <3>2, <3>3
  <2>4. TopK!TopEntry = TopK!Min(S)
    BY DEF TopK!TopEntry
  <2> HIDE DEF S, m
  <2>5. TopK!Min(S) = m
    BY <2>1, <2>3, MinIs
  <2> QED
    BY <2>4, <2>5 DEF m
<1>11. value.address \in Address /\ value.chunkFreq \in Freq
  BY <1>3 DEF Item
<1>12. TopK!CheckIfAddToHeap(value.chunkFreq)
  <2>1. value.chunkFreq \in Nat /\ top.second.chunkFreq \in Nat
    BY <1>3, HeapAssumption DEF Item, Freq
  <2>2. value.chunkFreq >= TopK!TopEntry
    BY <1>3, <1>10, <2>1
  <2> QED
    BY <1>9, <2>2, HeapAssumption DEF TopK!CheckIfAddToHeap
<1>13. {t} \in TopK!PopChoices
  BY <1>8, <1>9, <1>10 DEF TopK!PopChoices
<1>14. (D \cup {t}) \ {t} = D
  BY <1>3
<1>15. TopK!Put(TopK!Restrict(Contents, DOMAIN Contents \ {t}), key, x)
         = [f \in D \cup {key} |-> IF f = key THEN x ELSE Contents[f]]
  BY <1>8, <1>14 DEF TopK!Put, TopK!Restrict
<1>16. Contents' = [f \in D \cup {key} |-> IF f = key THEN x ELSE Contents[f]]
  BY <1>6, <1>7, <1>8
<1>17. key \notin DOMAIN Contents
  BY <1>3, <1>8
<1>18. TopK!AddChunkToHeap(key, value.address, value.chunkFreq)
  BY <1>13, <1>15, <1>16, <1>17 DEF TopK!AddChunkToHeap
<1> QED
  BY <1>1, <1>11, <1>12, <1>18 DEF TopK!Offer
-----------------------------------------------------------------------------
(* A step of the abstract index. *)
AbstractStep == \E chunkAddr \in Address, chunkFreq \in Freq : TopK!Offer(key', chunkAddr, chunkFreq)

LEMMA NextRefines == Inv /\ [Next]_vars => [AbstractStep]_Contents
<1> SUFFICES ASSUME Inv, [Next]_vars PROVE AbstractStep \/ Contents' = Contents
  OBVIOUS
<1>1. ASSUME NEW fp \in Fp, NEW x \in Freq, Update(fp, x) PROVE AbstractStep
  BY <1>1, UpdateRefines DEF AbstractStep
<1>2. ASSUME NEW fp \in Fp, NEW item \in Item, Add(fp, item) PROVE AbstractStep
  <2>1. item.address \in Address /\ item.chunkFreq \in Freq
    BY DEF Item
  <2> QED
    BY <1>2, <2>1, AddRefines DEF AbstractStep
<1>3. ASSUME NEW fp \in Fp, NEW item \in Item, Pop(fp, item) PROVE Contents' = Contents
  BY <1>3, PopStutters
<1>4. CASE SwapUp
  BY <1>4, SwapUpInv, LoopStutters
<1>5. CASE SwapDown
  BY <1>5, SwapDownInv, LoopStutters
<1>6. CASE UpdateUpDone
  BY <1>6, UpdateUpDoneInv, LoopStutters DEF UpdateUpDone
<1>7. CASE UpdateDone
  BY <1>7, UpdateDoneInv, LoopStutters DEF UpdateDone, Return
<1>8. CASE PopDone
  BY <1>8, PopDoneRefines DEF AbstractStep
<1>9. CASE AddDone
  BY <1>9, AddDoneInv, LoopStutters DEF AddDone, Return
<1>10. ASSUME UNCHANGED vars PROVE Contents' = Contents
  <2>1. index' = index /\ pc' = pc /\ top' = top
    BY <1>10 DEF vars
  <2> QED
    BY <2>1 DEF Contents
<1>11. CASE Restart
  BY <1>10, <1>11, RestartSame
<1> QED
  BY <1>1, <1>2, <1>3, <1>4, <1>5, <1>6, <1>7, <1>8, <1>9, <1>10, <1>11 DEF Next

LEMMA InitRefines == Init => Contents = <<>>
<1> SUFFICES ASSUME Init PROVE Contents = <<>>
  OBVIOUS
<1>1. index = <<>> /\ pc = "ready"
  BY DEF Init
<1>2. DOMAIN index = {}
  BY <1>1
<1>3. Contents = [fp \in {} |-> ItemOf(index, fp)]
  BY <1>1, <1>2, ContentsOf
<1> QED
  BY <1>3

(* For every capacity and every sequence of operations the array heap of     *)
(* ecallEntryHeap.cc is the abstract top-k index: an offered chunk is        *)
(* compared with the real minimum, the item given up has it, Update changes  *)
(* the item of its own chunk and no other, and a restart changes nothing.    *)
THEOREM HeapImplementsTopK == Spec => ImplementsTopK
<1>1. Spec => []Inv
  BY InitInv, NextInv, PTL DEF Spec
<1>2. Spec => [][AbstractStep]_Contents
  BY <1>1, NextRefines, PTL DEF Spec
<1>3. Spec => Contents = <<>>
  BY InitRefines DEF Spec
<1> QED
  BY <1>2, <1>3 DEF ImplementsTopK, AbstractStep
=============================================================================
