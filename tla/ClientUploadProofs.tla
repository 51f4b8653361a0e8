-------------------------- MODULE ClientUploadProofs --------------------------
(***************************************************************************)
(* Proofs about ClientUpload, for every file, every table of the rolling    *)
(* hash, and every chunk, block, batch and queue size.                      *)
(*                                                                         *)
(* Everything is measured against the chunks of the file as a whole, the    *)
(* sequence Reference.  Cutting says that the chunker stands at the end of  *)
(* the chunk it cut last: a block holds enough of the file for a cut in it  *)
(* to be a cut of the file.  Carried says that what was sent, what is       *)
(* buffered and what is queued are consecutive pieces of Reference.         *)
(***************************************************************************)
EXTENDS ClientUpload, SequenceTheorems, WellFoundedInduction, TLAPS

(* Induction up to N. *)
LEMMA UpTo ==
    ASSUME NEW N \in Nat, NEW T, 0 \in T, \A n \in 0 .. N : n < N /\ n \in T => n + 1 \in T
    PROVE  \A n \in 0 .. N : n \in T
  <1> SUFFICES ASSUME \E n \in 0 .. N : n \notin T PROVE FALSE
    OBVIOUS
  <1> DEFINE F == {n \in 0 .. N : n \notin T}
             R == OpToRel(<, Nat)
  <1>1. F \in SUBSET Nat /\ F # {}
    OBVIOUS
  <1>2. IsWellFoundedOn(R, Nat)
    BY NatLessThanWellFounded
  <1>3. \A m, n \in Nat : m < n => <<m, n>> \in R
    BY DEF OpToRel
  <1>4. \A n \in 0 .. N : n \notin F => n \in T
    OBVIOUS
  <1>5. \A n \in F : n \in 0 .. N /\ n \notin T
    OBVIOUS
  <1> HIDE DEF R, F
  <1>6. PICK n \in F : \A m \in F : ~(<<m, n>> \in R)
    BY <1>1, <1>2, WFMin, Zenon
  <1>7. n \in 1 .. N /\ n \notin T
    BY <1>5
  <1>8. n - 1 \in 0 .. N /\ n - 1 < N /\ (n - 1) + 1 = n /\ n - 1 < n /\ n - 1 \in Nat
    BY <1>7
  <1>9. n - 1 \notin F
    <2>1. <<n - 1, n>> \in R
      BY <1>3, <1>7, <1>8
    <2> QED  BY <1>6, <2>1, Zenon
  <1> QED  BY <1>4, <1>7, <1>8, <1>9

(* A set of naturals that is not empty has a minimum. *)
LEMMA MinNat ==
    ASSUME NEW S \in SUBSET Nat, S # {}
    PROVE  Min(S) \in S /\ \A y \in S : Min(S) <= y
  <1> DEFINE R == OpToRel(<, Nat)
  <1>1. IsWellFoundedOn(R, Nat)
    BY NatLessThanWellFounded
  <1>2. \A m, n \in Nat : m < n => <<m, n>> \in R
    BY DEF OpToRel
  <1> HIDE DEF R
  <1>3. PICK x \in S : \A y \in S : ~(<<y, x>> \in R)
    BY <1>1, WFMin
  <1>4. ASSUME NEW y \in S PROVE x <= y
    <2>1. x \in Nat /\ y \in Nat
      OBVIOUS
    <2>2. ~(y < x)
      BY <1>2, <1>3, <2>1, Zenon
    <2> QED  BY <2>1, <2>2
  <1> QED  BY <1>4 DEF Min
-----------------------------------------------------------------------------
(* s is the part of f behind the first i elements, up to the first j. *)
Piece(S, s, f, i, j) ==
    /\ s \in Seq(S) /\ i \in Nat /\ j \in Nat /\ i <= j /\ Len(s) = j - i
    /\ \A n \in 1 .. Len(s) : s[n] = f[i + n]

LEMMA PieceEmpty == ASSUME NEW S, NEW f, NEW i \in Nat PROVE Piece(S, <<>>, f, i, i)
  BY DEF Piece

LEMMA PieceOfNone ==
    ASSUME NEW S, NEW s, NEW f, NEW i, NEW j, Piece(S, s, f, i, j) PROVE s = <<>> <=> i = j
  BY DEF Piece

LEMMA PieceOne ==
    ASSUME NEW S, NEW f, NEW i \in Nat, NEW x \in S, x = f[i + 1] PROVE Piece(S, <<x>>, f, i, i + 1)
  <1>1. <<x>> \in Seq(S) /\ Len(<<x>>) = 1 /\ <<x>>[1] = x
    OBVIOUS
  <1>2. \A n \in 1 .. 1 : n = 1
    OBVIOUS
  <1> QED  BY <1>1, <1>2 DEF Piece

LEMMA ConcatIs ==
    ASSUME NEW S, NEW s \in Seq(S), NEW u \in Seq(S)
    PROVE  /\ s \o u \in Seq(S) /\ Len(s \o u) = Len(s) + Len(u)
           /\ \A n \in 1 .. Len(s) : (s \o u)[n] = s[n]
           /\ \A n \in 1 .. Len(u) : (s \o u)[Len(s) + n] = u[n]
  <1>1. s \o u \in Seq(S) /\ Len(s \o u) = Len(s) + Len(u) /\ Len(s) \in Nat /\ Len(u) \in Nat
    OBVIOUS
  <1>2. ASSUME NEW n \in 1 .. Len(s) PROVE (s \o u)[n] = s[n]
    BY <1>1
  <1>3. ASSUME NEW n \in 1 .. Len(u) PROVE (s \o u)[Len(s) + n] = u[n]
    <2>1. Len(s) + n \in 1 .. Len(s) + Len(u) /\ Len(s) + n > Len(s) /\ (Len(s) + n) - Len(s) = n
      BY <1>1
    <2> QED  BY <1>1, <2>1
  <1> QED  BY <1>1, <1>2, <1>3

LEMMA PieceConcat ==
    ASSUME NEW S, NEW s, NEW u, NEW f, NEW i, NEW j, NEW m, Piece(S, s, f, i, j), Piece(S, u, f, j, m)
    PROVE  Piece(S, s \o u, f, i, m)
  <1>1. s \in Seq(S) /\ i \in Nat /\ j \in Nat /\ i <= j /\ Len(s) = j - i /\ Len(s) \in Nat
    BY DEF Piece
  <1>2. u \in Seq(S) /\ m \in Nat /\ j <= m /\ Len(u) = m - j /\ Len(u) \in Nat
    BY DEF Piece
  <1>3. PICK w : w = s \o u
    OBVIOUS
  <1>4. /\ w \in Seq(S) /\ Len(w) = Len(s) + Len(u)
        /\ \A n \in 1 .. Len(s) : w[n] = s[n]
        /\ \A n \in 1 .. Len(u) : w[Len(s) + n] = u[n]
    <2>1. s \in Seq(S) /\ u \in Seq(S)
      BY <1>1, <1>2
    <2>2. /\ s \o u \in Seq(S) /\ Len(s \o u) = Len(s) + Len(u)
          /\ \A n \in 1 .. Len(s) : (s \o u)[n] = s[n]
          /\ \A n \in 1 .. Len(u) : (s \o u)[Len(s) + n] = u[n]
      BY <2>1, ConcatIs
    <2> QED  BY ONLY <1>3, <2>2
  <1>5. i <= m /\ Len(w) = m - i
    BY <1>1, <1>2, <1>4
  <1>6. ASSUME NEW n \in 1 .. Len(w) PROVE w[n] = f[i + n]
    <2>1. CASE n <= Len(s)
      <3>1. n \in 1 .. Len(s)
        BY <1>1, <2>1
      <3> QED  BY <1>4, <3>1 DEF Piece
    <2>2. CASE n > Len(s)
      <3>1. PICK k : k = n - Len(s)
        OBVIOUS
      <3>2. k \in 1 .. Len(u) /\ Len(s) + k = n /\ j + k = i + n
        BY <1>1, <1>2, <1>4, <2>2, <3>1
      <3>3. w[n] = u[k] /\ u[k] = f[j + k]
        BY <1>4, <3>2 DEF Piece
      <3> QED  BY <3>2, <3>3
    <2> QED  BY <1>1, <2>1, <2>2
  <1>7. Piece(S, w, f, i, m)
    BY <1>1, <1>2, <1>4, <1>5, <1>6 DEF Piece
  <1> QED  BY <1>3, <1>7

LEMMA PieceAppend ==
    ASSUME NEW S, NEW s, NEW f, NEW i, NEW j, Piece(S, s, f, i, j), NEW x \in S, x = f[j + 1]
    PROVE  Piece(S, Append(s, x), f, i, j + 1)
  <1>1. j \in Nat /\ s \in Seq(S)
    BY DEF Piece
  <1>2. Piece(S, <<x>>, f, j, j + 1)
    BY <1>1, PieceOne
  <1>3. Append(s, x) = s \o <<x>>
    BY <1>1
  <1> QED  BY <1>2, <1>3, PieceConcat

LEMMA PieceAll ==
    ASSUME NEW S, NEW s, NEW f \in Seq(S), Piece(S, s, f, 0, Len(f))
    PROVE  s = f
  <1>1. s \in Seq(S) /\ Len(s) = Len(f) /\ \A n \in 1 .. Len(s) : s[n] = f[0 + n]
    BY DEF Piece
  <1>2. \A n \in 1 .. Len(s) : s[n] = f[n]
    BY <1>1
  <1> QED  BY <1>1, <1>2

LEMMA PiecePrefix ==
    ASSUME NEW S, NEW s, NEW f \in Seq(S), NEW j \in 0 .. Len(f), Piece(S, s, f, 0, j)
    PROVE  IsPrefix(s, f)
  <1>1. s \in Seq(S) /\ Len(s) = j /\ j <= Len(f) /\ j \in Nat /\ Len(f) \in Nat
        /\ \A n \in 1 .. Len(s) : s[n] = f[0 + n]
    BY DEF Piece
  <1>2. \A n \in 1 .. j : s[n] = f[n]
    BY <1>1
  <1>3. SubSeq(s, 1, j) = [n \in 1 .. j |-> s[n]] /\ SubSeq(f, 1, j) = [n \in 1 .. j |-> f[n]]
    BY <1>1
  <1> QED  BY <1>1, <1>2, <1>3 DEF IsPrefix

(* FlattenSeq of consecutive pieces is a piece. *)
LEMMA FlatIs ==
    ASSUME NEW S, NEW q \in Seq(Seq(S)), NEW f, NEW at, at[0] \in Nat,
           \A n \in 1 .. Len(q) : Piece(S, q[n], f, at[n - 1], at[n])
    PROVE  Piece(S, FlattenSeq(q), f, at[0], at[Len(q)])
  <1> DEFINE N == Len(q)
             Rec(g, m) == g = [n \in 1 .. m |-> IF n = 1 THEN q[n] ELSE g[n - 1] \o q[n]]
             flat == CHOOSE g : Rec(g, N)
  <1>1. N \in Nat
    OBVIOUS
  <1>2. CASE N = 0
    <2>1. q = <<>>
      BY <1>2
    <2>2. FlattenSeq(q) = q
      BY <1>2 DEF FlattenSeq
    <2> QED  BY <1>2, <2>1, <2>2, PieceEmpty
  <1>3. CASE N # 0
    <2>0. FlattenSeq(q) = flat[N]
      BY <1>3 DEF FlattenSeq
    <2>1. \E g : Rec(g, N)
      <3> DEFINE T == {m \in 0 .. N : \E g : Rec(g, m)}
      <3>1. 0 \in T
        <4> DEFINE g == [n \in 1 .. 0 |-> 0]
        <4>1. Rec(g, 0)
          OBVIOUS
        <4> HIDE DEF g, Rec
        <4> QED  BY <1>1, <4>1
      <3>2. ASSUME NEW m \in 0 .. N, m < N, m \in T PROVE m + 1 \in T
        <4>1. PICK g : Rec(g, m)
          BY <3>2
        <4> DEFINE h == [n \in 1 .. m + 1 |->
                           IF n = m + 1 THEN (IF n = 1 THEN q[n] ELSE g[m] \o q[n]) ELSE g[n]]
        <4>2. \A n \in 1 .. m : g[n] = IF n = 1 THEN q[n] ELSE g[n - 1] \o q[n]
          BY <4>1
        <4>3. ASSUME NEW n \in 1 .. m + 1 PROVE h[n] = IF n = 1 THEN q[n] ELSE h[n - 1] \o q[n]
          <5>1. CASE n = m + 1
            <6>1. n # 1 => n - 1 \in 1 .. m + 1 /\ n - 1 # m + 1 /\ n - 1 = m
              BY <5>1
            <6>2. n # 1 => h[n - 1] = g[m]
              BY <6>1
            <6> QED  BY <5>1, <6>2
          <5>2. CASE n # m + 1
            <6>1. n \in 1 .. m /\ h[n] = g[n]
              BY <5>2
            <6>2. n # 1 => n - 1 \in 1 .. m + 1 /\ n - 1 # m + 1
              BY <6>1
            <6>3. n # 1 => h[n - 1] = g[n - 1]
              BY <6>2
            <6> QED  BY <4>2, <6>1, <6>3
          <5> QED  BY <5>1, <5>2
        <4>4. Rec(h, m + 1)
          <5>1. h = [n \in 1 .. m + 1 |-> h[n]]
            OBVIOUS
          <5> HIDE DEF h
          <5> QED  BY <4>3, <5>1
        <4> HIDE DEF h
        <4>5. m + 1 \in 0 .. N
          BY <1>1, <3>2
        <4> QED  BY <4>4, <4>5
      <3> HIDE DEF T
      <3>3. \A m \in 0 .. N : m < N /\ m \in T => m + 1 \in T
        BY <3>2
      <3>4. \A m \in 0 .. N : m \in T
        BY <1>1, <3>1, <3>3, UpTo
      <3>5. N \in T
        BY <1>1, <3>4
      <3> QED  BY <3>5 DEF T
    <2>2. Rec(flat, N)
      BY <2>1
    <2> HIDE DEF flat
    <2>3. \A n \in 1 .. N : flat[n] = IF n = 1 THEN q[n] ELSE flat[n - 1] \o q[n]
      BY <2>2
    <2> DEFINE U == {m \in 0 .. N : m = 0 \/ Piece(S, flat[m], f, at[0], at[m])}
    <2>4. 0 \in U
      BY <1>1
    <2>5. ASSUME NEW m \in 0 .. N, m < N, m \in U PROVE m + 1 \in U
      <3>1. m \in Nat /\ m + 1 \in 1 .. N /\ m + 1 \in 0 .. N /\ (m + 1) - 1 = m
        BY <1>1, <2>5
      <3>2. Piece(S, q[m + 1], f, at[m], at[m + 1])
        BY <3>1
      <3>3. CASE m = 0
        <4>1. flat[m + 1] = q[m + 1]
          BY <2>3, <3>1, <3>3
        <4> QED  BY <3>1, <3>2, <3>3, <4>1
      <3>4. CASE m # 0
        <4>0. m + 1 # 1
          BY <3>1, <3>4
        <4>1. flat[m + 1] = flat[m] \o q[m + 1]
          BY <2>3, <3>1, <4>0
        <4>2. Piece(S, flat[m], f, at[0], at[m])
          BY <2>5, <3>4
        <4>3. Piece(S, flat[m] \o q[m + 1], f, at[0], at[m + 1])
          BY <3>2, <4>2, PieceConcat
        <4> QED  BY <3>1, <4>1, <4>3
      <3> QED  BY <3>3, <3>4
    <2> HIDE DEF U
    <2>6. \A m \in 0 .. N : m < N /\ m \in U => m + 1 \in U
      BY <2>5
    <2>7. \A m \in 0 .. N : m \in U
      BY <1>1, <2>4, <2>6, UpTo
    <2>8. N \in U
      BY <1>1, <2>7
    <2> QED  BY <1>3, <2>0, <2>8 DEF U
  <1> QED  BY <1>2, <1>3
-----------------------------------------------------------------------------
(* Cut points.                                                              *)

LEMMA LeastIs ==
    ASSUME NEW m \in Int, NEW n \in Int
    PROVE  /\ Least(m, n) \in {m, n} /\ Least(m, n) <= m /\ Least(m, n) <= n
           /\ m <= n => Least(m, n) = m
           /\ n <= m => Least(m, n) = n
  BY DEF Least

LEMMA NormalIs ==
    CalNormalSize(minChunkSize, avgChunkSize, maxChunkSize) \in 0 .. maxChunkSize
  BY ClientAssumption DEF CalNormalSize, Least

(* The rolling hash satisfies its recursion. *)
LEMMA HashIs ==
    ASSUME NEW S, NEW src \in Seq(S), NEW start \in 0 .. Len(src)
    PROVE  \A i \in start .. Len(src) : Hash(src, start)[i] =
              IF i = start THEN 0 ELSE (Hash(src, start)[i - 1] \div 2 + GEAR[src[i]]) % UintMod
  <1> DEFINE N == Len(src) - start
             Val(g, i) == IF i = start THEN 0 ELSE (g[i - 1] \div 2 + GEAR[src[i]]) % UintMod
             Rec(g, m) == g = [i \in start .. m |-> Val(g, i)]
  <1>1. N \in Nat /\ start \in Nat /\ Len(src) \in Nat /\ start + N = Len(src)
    OBVIOUS
  <1> DEFINE T == {m \in 0 .. N : \E g : Rec(g, start + m)}
  <1>2. 0 \in T
    <2> DEFINE g == [i \in start .. start + 0 |-> 0]
    <2>1. \A i \in start .. start + 0 : i = start
      BY <1>1
    <2>2. Rec(g, start + 0)
      BY <2>1
    <2> HIDE DEF g, Rec
    <2> QED  BY <1>1, <2>2
  <1>3. ASSUME NEW m \in 0 .. N, m < N, m \in T PROVE m + 1 \in T
    <2>1. PICK g : Rec(g, start + m)
      BY <1>3
    <2>2. PICK e : e = start + m
      OBVIOUS
    <2>3. e \in Nat /\ e >= start /\ start + (m + 1) = e + 1 /\ m + 1 \in 0 .. N
      BY <1>1, <1>3, <2>2
    <2> DEFINE h == [i \in start .. e + 1 |-> IF i = e + 1 THEN Val(g, i) ELSE g[i]]
    <2>4. \A i \in start .. e : g[i] = Val(g, i)
      <3>1. g = [i \in start .. e |-> Val(g, i)]
        BY <2>1, <2>2
      <3> HIDE DEF Val
      <3> QED  BY <3>1
    <2>5. ASSUME NEW i \in start .. e + 1 PROVE h[i] = Val(h, i)
      <3>1. i # start => i - 1 \in start .. e /\ i - 1 \in start .. e + 1 /\ i - 1 # e + 1
        BY <1>1, <2>3
      <3>2. i # start => h[i - 1] = g[i - 1]
        BY <3>1
      <3>3. Val(h, i) = Val(g, i)
        <4> HIDE DEF h
        <4> QED  BY <3>2
      <3>4. h[i] = IF i = e + 1 THEN Val(g, i) ELSE g[i]
        OBVIOUS
      <3>5. i # e + 1 => i \in start .. e
        BY <1>1, <2>3
      <3> HIDE DEF h, Val
      <3> QED  BY <2>4, <3>3, <3>4, <3>5
    <2>6. Rec(h, e + 1)
      <3>1. h = [i \in start .. e + 1 |-> h[i]]
        OBVIOUS
      <3> HIDE DEF h, Val
      <3> QED  BY <2>5, <3>1
    <2> HIDE DEF h, Rec
    <2> QED  BY <2>3, <2>6
  <1>4. Hash(src, start) = CHOOSE g : Rec(g, Len(src))
    BY DEF Hash
  <1> HIDE DEF Rec
  <1>5. N \in T
    <2> HIDE DEF T
    <2>1. \A m \in 0 .. N : m < N /\ m \in T => m + 1 \in T
      BY <1>3
    <2>2. \A m \in 0 .. N : m \in T
      BY <1>1, <1>2, <2>1, UpTo
    <2> QED  BY <1>1, <2>2
  <1>6. Rec(Hash(src, start), Len(src))
    BY <1>1, <1>4, <1>5
  <1>7. Hash(src, start) = [i \in start .. Len(src) |-> Val(Hash(src, start), i)]
    BY <1>6 DEF Rec
  <1>8. PICK fp : fp = Hash(src, start)
    OBVIOUS
  <1>9. fp = [i \in start .. Len(src) |-> Val(fp, i)]
    BY <1>7, <1>8
  <1> HIDE DEF Val
  <1>10. \A i \in start .. Len(src) : fp[i] = Val(fp, i)
    BY <1>9
  <1> QED  BY <1>8, <1>10 DEF Val

(* Two buffers that begin alike have the same hashes there. *)
LEMMA HashAgree ==
    ASSUME NEW S, NEW a \in Seq(S), NEW b \in Seq(S), NEW start \in Nat, NEW top \in Nat,
           start <= top, top <= Len(a), top <= Len(b), \A i \in 1 .. top : a[i] = b[i]
    PROVE  \A i \in start .. top : Hash(a, start)[i] = Hash(b, start)[i]
  <1> DEFINE N == top - start
  <1>1. PICK g, h : g = Hash(a, start) /\ h = Hash(b, start)
    OBVIOUS
  <1>2. N \in Nat /\ Len(a) \in Nat /\ Len(b) \in Nat /\ start \in 0 .. Len(a) /\ start \in 0 .. Len(b)
    OBVIOUS
  <1>3. \A i \in start .. Len(a) : g[i] = IF i = start THEN 0 ELSE (g[i - 1] \div 2 + GEAR[a[i]]) % UintMod
    BY <1>1, <1>2, HashIs
  <1>4. \A i \in start .. Len(b) : h[i] = IF i = start THEN 0 ELSE (h[i - 1] \div 2 + GEAR[b[i]]) % UintMod
    BY <1>1, <1>2, HashIs
  <1> DEFINE T == {m \in 0 .. N : g[start + m] = h[start + m]}
  <1>5. 0 \in T
    <2>1. start + 0 = start /\ start \in start .. Len(a) /\ start \in start .. Len(b) /\ 0 \in 0 .. N
      BY <1>2
    <2> QED  BY <1>3, <1>4, <2>1
  <1>6. ASSUME NEW m \in 0 .. N, m < N, m \in T PROVE m + 1 \in T
    <2>1. PICK i : i = start + (m + 1)
      OBVIOUS
    <2>2. /\ i \in start .. Len(a) /\ i \in start .. Len(b) /\ i # start /\ i - 1 = start + m
          /\ i \in 1 .. top /\ m + 1 \in 0 .. N
      BY <1>2, <1>6, <2>1
    <2>3. g[i - 1] = h[i - 1]
      BY <1>6, <2>2
    <2>4. a[i] = b[i]
      BY <2>2
    <2>5. g[i] = h[i]
      BY <1>3, <1>4, <2>2, <2>3, <2>4
    <2> QED  BY <2>1, <2>2, <2>5
  <1> HIDE DEF T
  <1>7. \A m \in 0 .. N : m < N /\ m \in T => m + 1 \in T
    BY <1>6
  <1>8. \A m \in 0 .. N : m \in T
    BY <1>2, <1>5, <1>7, UpTo
  <1>9. ASSUME NEW i \in start .. top PROVE g[i] = h[i]
    <2>1. PICK m : m = i - start
      OBVIOUS
    <2>2. m \in 0 .. N /\ start + m = i
      BY <1>2, <2>1
    <2> QED  BY <1>8, <2>2 DEF T
  <1> QED  BY <1>1, <1>9

(* The places where CutPoint may cut src. *)
Places(src, start, normal, last) ==
    {last} \cup {i \in start + 1 .. normal : Hash(src, start)[i] % MaskS = 0}
           \cup {i \in start + 1 .. last : i > normal /\ Hash(src, start)[i] % MaskL = 0}

LEMMA CutPlaces ==
    ASSUME NEW src
    PROVE  CutPoint(src) =
              Min(Places(src, Least(Len(src), minChunkSize),
                         Least(CalNormalSize(minChunkSize, avgChunkSize, maxChunkSize), Len(src)),
                         Least(maxChunkSize, Len(src))))
  BY DEF CutPoint, Places

(* A cut is inside the buffer, and behind its first byte if it has one. *)
LEMMA CutBounds ==
    ASSUME NEW S, NEW src \in Seq(S)
    PROVE  CutPoint(src) \in 0 .. Len(src) /\ (Len(src) # 0 => CutPoint(src) # 0)
  <1> DEFINE N == Len(src)
             norm == CalNormalSize(minChunkSize, avgChunkSize, maxChunkSize)
  <1>1. PICK start, normal, last :
           start = Least(N, minChunkSize) /\ normal = Least(norm, N) /\ last = Least(maxChunkSize, N)
    OBVIOUS
  <1>2. N \in Nat /\ norm \in Nat /\ minChunkSize \in Nat /\ maxChunkSize \in Nat /\ maxChunkSize # 0
    BY NormalIs, ClientAssumption
  <1>3. /\ start \in Nat /\ normal \in Nat /\ last \in Nat /\ normal <= N /\ last <= N
        /\ N # 0 => last # 0
    BY <1>1, <1>2, LeastIs
  <1>4. PICK P : P = Places(src, start, normal, last)
    OBVIOUS
  <1>5. \A x \in P : x \in 0 .. N /\ (N # 0 => x # 0)
    BY <1>2, <1>3, <1>4 DEF Places
  <1>6. P \in SUBSET Nat /\ P # {}
    BY <1>3, <1>4, <1>5 DEF Places
  <1>7. Min(P) \in P
    BY <1>6, MinNat
  <1>8. CutPoint(src) = Min(P)
    BY <1>1, <1>4, CutPlaces
  <1> QED  BY <1>5, <1>7, <1>8

(* CutPoint reads no byte behind maxChunkSize: a buffer that has so many is   *)
(* cut like any other that begins alike.                                     *)
LEMMA CutAgree ==
    ASSUME NEW S, NEW a \in Seq(S), NEW b \in Seq(S), maxChunkSize <= Len(a), maxChunkSize <= Len(b),
           \A i \in 1 .. maxChunkSize : a[i] = b[i]
    PROVE  CutPoint(a) = CutPoint(b)
  <1> DEFINE norm == CalNormalSize(minChunkSize, avgChunkSize, maxChunkSize)
             Ps(src) == Places(src, minChunkSize, norm, maxChunkSize)
  <1>1. /\ norm \in 0 .. maxChunkSize /\ minChunkSize \in Nat /\ maxChunkSize \in Nat
        /\ minChunkSize < maxChunkSize
    BY NormalIs, ClientAssumption
  <1>2. ASSUME NEW src \in Seq(S), maxChunkSize <= Len(src) PROVE CutPoint(src) = Min(Ps(src))
    <2>1. /\ Least(Len(src), minChunkSize) = minChunkSize /\ Least(norm, Len(src)) = norm
          /\ Least(maxChunkSize, Len(src)) = maxChunkSize
      BY <1>1, <1>2, LeastIs
    <2> QED  BY <2>1, CutPlaces
  <1>3. \A i \in minChunkSize .. maxChunkSize : Hash(a, minChunkSize)[i] = Hash(b, minChunkSize)[i]
    BY <1>1, HashAgree
  <1>4. Ps(a) = Ps(b)
    BY <1>1, <1>3 DEF Places
  <1> QED  BY <1>2, <1>4

LEMMA SubSeqIs ==
    ASSUME NEW S, NEW f \in Seq(S), NEW i \in Nat, NEW j \in Nat, i <= j, j <= Len(f)
    PROVE  /\ SubSeq(f, i + 1, j) \in Seq(S) /\ Len(SubSeq(f, i + 1, j)) = j - i
           /\ \A n \in 1 .. j - i : SubSeq(f, i + 1, j)[n] = f[i + n]
  <1>1. Len(f) \in Nat /\ j - i \in Nat
    OBVIOUS
  <1>2. \A n \in i + 1 .. j : f[n] \in S
    BY <1>1
  <1>3. SubSeq(f, i + 1, j) \in Seq(S) /\ Len(SubSeq(f, i + 1, j)) = j - i
    BY <1>1, <1>2
  <1>4. ASSUME NEW n \in 1 .. j - i PROVE SubSeq(f, i + 1, j)[n] = f[i + n]
    <2>1. (i + 1) + n - 1 = i + n
      BY <1>1
    <2> QED  BY <1>1, <2>1
  <1> QED  BY <1>3, <1>4

LEMMA PieceSubSeq ==
    ASSUME NEW S, NEW f \in Seq(S), NEW i \in Nat, NEW j \in Nat, i <= j, j <= Len(f)
    PROVE  Piece(S, SubSeq(f, i + 1, j), f, i, j)
  BY SubSeqIs DEF Piece
-----------------------------------------------------------------------------
(* The chunks of the whole file.                                            *)

Lines  == DOMAIN LineSize \cup {EmptyLine}
Chunks == Seq(Byte) \cup (Lines \X Nat)

FileInputs  == {in \in Inputs : in.type # "TRACE"}
TraceInputs == {in \in Inputs : in.type = "TRACE"}

LEMMA FileInput ==
    ASSUME NEW in \in FileInputs
    PROVE  in.file \in Seq(Byte) /\ Len(in.file) \in Nat /\ in.type \in {"FAST_CDC", "FIXED_SIZE_CHUNKING"}
  BY ClientAssumption DEF FileInputs

LEMMA TraceInput ==
    ASSUME NEW in \in TraceInputs
    PROVE  in.file \in Seq(Lines) /\ Len(in.file) \in Nat /\ in.newline \in BOOLEAN
  BY ClientAssumption DEF TraceInputs, Lines

(* A chunk has at least one byte while there is one, and ends in the file. *)
LEMMA SizeBounds ==
    ASSUME NEW in \in FileInputs, NEW o \in 0 .. Len(in.file)
    PROVE  /\ SizeAt(in, o) \in 0 .. Len(in.file) - o
           /\ o < Len(in.file) => SizeAt(in, o) # 0
  <1> DEFINE f == in.file
             N == Len(f)
  <1>1. f \in Seq(Byte) /\ N \in Nat /\ o \in Nat /\ o <= N
    BY FileInput
  <1>2. CASE in.type = "FAST_CDC"
    <2>1. PICK src : src = SubSeq(f, o + 1, N)
      OBVIOUS
    <2>2. src \in Seq(Byte) /\ Len(src) = N - o
      BY <1>1, <2>1, SubSeqIs
    <2>3. CutPoint(src) \in 0 .. Len(src) /\ (Len(src) # 0 => CutPoint(src) # 0)
      BY <2>2, CutBounds
    <2>4. SizeAt(in, o) = CutPoint(src)
      BY <1>2, <2>1 DEF SizeAt
    <2> QED  BY <1>1, <2>2, <2>3, <2>4
  <1>3. CASE in.type # "FAST_CDC"
    <2>1. readSize \in Nat /\ readSize > 0 /\ avgChunkSize \in Nat /\ avgChunkSize > 1
      BY ClientAssumption
    <2>2. PICK r : r = readSize - (o % readSize)
      OBVIOUS
    <2>3. r \in Nat /\ r > 0
      BY <1>1, <2>1, <2>2
    <2>4. SizeAt(in, o) = Least(avgChunkSize, Least(r, N - o))
      BY <1>3, <2>2 DEF SizeAt
    <2> QED  BY <1>1, <2>1, <2>3, <2>4 DEF Least
  <1> QED  BY <1>2, <1>3

(* Cuts satisfies its recursion. *)
LEMMA CutsAre ==
    ASSUME NEW in \in FileInputs
    PROVE  /\ Cuts(in)[0] = 0
           /\ \A n \in 1 .. Len(in.file) : Cuts(in)[n] = NextCut(in, Cuts(in)[n - 1])
  <1> DEFINE N == Len(in.file)
             Val(g, i) == IF i = 0 THEN 0 ELSE NextCut(in, g[i - 1])
             Rec(g, m) == g = [i \in 0 .. m |-> Val(g, i)]
             T == {m \in 0 .. N : \E g : Rec(g, m)}
  <1>1. N \in Nat
    BY FileInput
  <1>2. 0 \in T
    <2> DEFINE g == [i \in 0 .. 0 |-> 0]
    <2>1. \A i \in 0 .. 0 : i = 0
      OBVIOUS
    <2>2. Rec(g, 0)
      BY <2>1
    <2> HIDE DEF g, Rec
    <2> QED  BY <1>1, <2>2
  <1>3. ASSUME NEW m \in 0 .. N, m < N, m \in T PROVE m + 1 \in T
    <2>1. PICK g : Rec(g, m)
      BY <1>3
    <2>2. m \in Nat /\ m + 1 \in 0 .. N
      BY <1>1, <1>3
    <2> DEFINE h == [i \in 0 .. m + 1 |-> IF i = m + 1 THEN Val(g, i) ELSE g[i]]
    <2>4. \A i \in 0 .. m : g[i] = Val(g, i)
      <3>1. g = [i \in 0 .. m |-> Val(g, i)]
        BY <2>1
      <3> HIDE DEF Val
      <3> QED  BY <3>1
    <2>5. ASSUME NEW i \in 0 .. m + 1 PROVE h[i] = Val(h, i)
      <3>1. i # 0 => i - 1 \in 0 .. m /\ i - 1 \in 0 .. m + 1 /\ i - 1 # m + 1
        BY <2>2
      <3>2. i # 0 => h[i - 1] = g[i - 1]
        BY <3>1
      <3>3. Val(h, i) = Val(g, i)
        <4> HIDE DEF h
        <4> QED  BY <3>2
      <3>4. h[i] = IF i = m + 1 THEN Val(g, i) ELSE g[i]
        OBVIOUS
      <3>5. i # m + 1 => i \in 0 .. m
        BY <2>2
      <3> HIDE DEF h, Val
      <3> QED  BY <2>4, <3>3, <3>4, <3>5
    <2>6. Rec(h, m + 1)
      <3>1. h = [i \in 0 .. m + 1 |-> h[i]]
        OBVIOUS
      <3> HIDE DEF h, Val
      <3> QED  BY <2>5, <3>1
    <2> HIDE DEF h, Rec
    <2> QED  BY <2>2, <2>6
  <1>4. Cuts(in) = CHOOSE g : Rec(g, N)
    BY DEF Cuts
  <1> HIDE DEF Rec
  <1>5. N \in T
    <2> HIDE DEF T
    <2>1. \A m \in 0 .. N : m < N /\ m \in T => m + 1 \in T
      BY <1>3
    <2>2. \A m \in 0 .. N : m \in T
      BY <1>1, <1>2, <2>1, UpTo
    <2> QED  BY <1>1, <2>2
  <1>6. Rec(Cuts(in), N)
    BY <1>4, <1>5
  <1>7. PICK c : c = Cuts(in)
    OBVIOUS
  <1>8. c = [i \in 0 .. N |-> Val(c, i)]
    BY <1>6, <1>7 DEF Rec
  <1> HIDE DEF Val
  <1>9. \A i \in 0 .. N : c[i] = Val(c, i)
    BY <1>8
  <1>10. c[0] = 0
    BY <1>1, <1>9 DEF Val
  <1>11. ASSUME NEW n \in 1 .. N PROVE c[n] = NextCut(in, c[n - 1])
    <2>1. n \in 0 .. N /\ n # 0
      BY <1>1
    <2> QED  BY <1>9, <2>1 DEF Val
  <1> QED  BY <1>7, <1>10, <1>11

(* Each cut is behind the one before, up to the end of the file. *)
LEMMA CutsGrow ==
    ASSUME NEW in \in FileInputs
    PROVE  /\ \A n \in 0 .. Len(in.file) : /\ Cuts(in)[n] \in 0 .. Len(in.file)
                                           /\ Cuts(in)[n] >= n
           /\ \A n \in 1 .. Len(in.file) : Cuts(in)[n - 1] <= Cuts(in)[n]
  <1> DEFINE N == Len(in.file)
  <1>1. N \in Nat
    BY FileInput
  <1>2. PICK c : c = Cuts(in)
    OBVIOUS
  <1>3. c[0] = 0 /\ \A n \in 1 .. N : c[n] = NextCut(in, c[n - 1])
    BY <1>2, CutsAre
  <1>4. ASSUME NEW n \in 1 .. N, c[n - 1] \in 0 .. N
        PROVE  c[n] \in 0 .. N /\ c[n - 1] <= c[n] /\ (c[n - 1] < N => c[n - 1] < c[n])
    <2>1. PICK o : o = c[n - 1]
      OBVIOUS
    <2>2. SizeAt(in, o) \in 0 .. N - o /\ (o < N => SizeAt(in, o) # 0)
      BY <1>4, <2>1, SizeBounds
    <2>3. c[n] = o + SizeAt(in, o)
      BY <1>3, <2>1 DEF NextCut
    <2>4. o \in 0 .. N
      BY <1>4, <2>1
    <2> QED  BY <1>1, <2>1, <2>2, <2>3, <2>4
  <1> DEFINE T == {m \in 0 .. N : c[m] \in 0 .. N /\ c[m] >= m}
  <1>5. 0 \in T
    BY <1>1, <1>3
  <1>6. ASSUME NEW m \in 0 .. N, m < N, m \in T PROVE m + 1 \in T
    <2>1. m \in Nat /\ m + 1 \in 1 .. N /\ m + 1 \in 0 .. N /\ (m + 1) - 1 = m
      BY <1>1, <1>6
    <2>2. c[m] \in 0 .. N /\ c[m] >= m
      BY <1>6
    <2>3. c[m + 1] \in 0 .. N /\ c[m] <= c[m + 1] /\ (c[m] < N => c[m] < c[m + 1])
      BY <1>4, <2>1, <2>2
    <2>4. c[m + 1] >= m + 1
      <3>1. PICK x, y : x = c[m] /\ y = c[m + 1]
        OBVIOUS
      <3> QED  BY <1>1, <1>6, <2>1, <2>2, <2>3, <3>1
    <2> QED  BY <2>1, <2>3, <2>4
  <1> HIDE DEF T
  <1>7. \A m \in 0 .. N : m < N /\ m \in T => m + 1 \in T
    BY <1>6
  <1>8. \A m \in 0 .. N : m \in T
    BY <1>1, <1>5, <1>7, UpTo
  <1>9. \A n \in 0 .. N : c[n] \in 0 .. N /\ c[n] >= n
    BY <1>8 DEF T
  <1>10. ASSUME NEW n \in 1 .. N PROVE c[n - 1] <= c[n]
    <2>1. n - 1 \in 0 .. N
      BY <1>1
    <2> QED  BY <1>4, <1>9, <2>1
  <1> QED  BY <1>2, <1>9, <1>10

(* The chunks of a file: L of them, which together are the file. *)
FileOf(in, L, R) ==
    /\ L \in 0 .. Len(in.file) /\ R \in Seq(Seq(Byte)) /\ Len(R) = L
    /\ \A n \in 1 .. L : R[n] = SubSeq(in.file, Cuts(in)[n - 1] + 1, Cuts(in)[n])
    /\ \A k \in 0 .. Len(in.file) : k < L <=> Cuts(in)[k] < Len(in.file)
    /\ FlattenSeq(R) = in.file

LEMMA FileChunksAre ==
    ASSUME NEW in \in FileInputs PROVE \E L : FileOf(in, L, FileChunks(in))
  <1> DEFINE f == in.file
             N == Len(f)
             Z == {n \in 0 .. N : Cuts(in)[n] = N}
  <1>1. f \in Seq(Byte) /\ N \in Nat
    BY FileInput
  <1>2. PICK c, R : c = Cuts(in) /\ R = FileChunks(in)
    OBVIOUS
  <1>3. /\ \A n \in 0 .. N : c[n] \in 0 .. N /\ c[n] >= n
        /\ \A n \in 1 .. N : c[n - 1] <= c[n]
        /\ c[0] = 0
    BY <1>2, CutsGrow, CutsAre
  <1>4. N \in Z
    <2>1. N \in 0 .. N
      BY <1>1
    <2>2. c[N] \in 0 .. N /\ c[N] >= N
      BY <1>3, <2>1
    <2>3. c[N] = N
      BY <1>1, <2>2
    <2> QED  BY <1>2, <2>1, <2>3
  <1>5. Z \in SUBSET Nat
    BY <1>1
  <1>6. PICK L \in Z : \A m \in Z : L <= m
    BY <1>4, <1>5, MinNat
  <1>7. L \in 0 .. N /\ L \in Nat /\ c[L] = N
    BY <1>1, <1>2, <1>6
  <1>8. ASSUME NEW k \in 0 .. N, k < L PROVE c[k] < N
    <2>1. k \notin Z
      BY <1>1, <1>6, <1>7, <1>8
    <2>2. c[k] # N /\ c[k] \in 0 .. N
      BY <1>2, <1>3, <2>1
    <2> QED  BY <1>1, <2>2
  <1>9. \A k \in 0 .. N : k >= L => c[k] = N
    <2> DEFINE T == {m \in 0 .. N : m >= L => c[m] = N}
    <2>1. 0 \in T
      BY <1>1, <1>7
    <2>2. ASSUME NEW m \in 0 .. N, m < N, m \in T PROVE m + 1 \in T
      <3>1. m \in Nat /\ m + 1 \in 1 .. N /\ m + 1 \in 0 .. N /\ (m + 1) - 1 = m
        BY <1>1, <2>2
      <3>2. CASE m >= L
        <4>1. c[m] = N /\ c[m] <= c[m + 1] /\ c[m + 1] \in 0 .. N
          BY <1>3, <2>2, <3>1, <3>2
        <4>2. c[m + 1] = N
          BY <1>1, <4>1
        <4> QED  BY <3>1, <4>2
      <3>3. CASE m < L
        <4>1. m + 1 >= L => m + 1 = L
          BY <1>7, <3>1, <3>3
        <4> QED  BY <1>7, <3>1, <4>1
      <3> QED  BY <1>7, <3>1, <3>2, <3>3
    <2> HIDE DEF T
    <2>3. \A m \in 0 .. N : m < N /\ m \in T => m + 1 \in T
      BY <2>2
    <2>4. \A m \in 0 .. N : m \in T
      BY <1>1, <2>1, <2>3, UpTo
    <2> QED  BY <2>4 DEF T
  <1>10. ASSUME NEW k \in 0 .. N PROVE k < L <=> c[k] < N
    BY <1>1, <1>7, <1>8, <1>9
  <1>11. {n \in 1 .. N : c[n - 1] < N} = 1 .. L
    <2>1. ASSUME NEW n \in 1 .. N PROVE c[n - 1] < N <=> n \in 1 .. L
      <3>1. n - 1 \in 0 .. N /\ (n - 1 < L <=> n \in 1 .. L)
        BY <1>1, <1>7
      <3> QED  BY <1>10, <3>1
    <2>2. 1 .. L \subseteq 1 .. N
      BY <1>1, <1>7
    <2> QED  BY <2>1, <2>2
  <1>12. R = [n \in 1 .. L |-> SubSeq(f, c[n - 1] + 1, c[n])]
    BY <1>2, <1>11 DEF FileChunks
  <1>13. ASSUME NEW n \in 1 .. L
         PROVE  R[n] = SubSeq(f, c[n - 1] + 1, c[n]) /\ Piece(Byte, R[n], f, c[n - 1], c[n])
    <2>1. n \in 1 .. N /\ n \in 0 .. N /\ n - 1 \in 0 .. N
      BY <1>1, <1>7
    <2>2. PICK i, j : i = c[n - 1] /\ j = c[n]
      OBVIOUS
    <2>3. i \in 0 .. N /\ j \in 0 .. N /\ i <= j
      BY <1>3, <2>1, <2>2
    <2>4. Piece(Byte, SubSeq(f, i + 1, j), f, i, j)
      BY <1>1, <2>3, PieceSubSeq
    <2> QED  BY <1>12, <2>2, <2>4
  <1>14. R \in Seq(Seq(Byte)) /\ Len(R) = L
    <2>1. \A n \in 1 .. L : R[n] \in Seq(Byte)
      BY <1>13 DEF Piece
    <2>2. R = [n \in 1 .. L |-> R[n]]
      BY <1>12
    <2>3. R \in [1 .. L -> Seq(Byte)]
      BY <2>1, <2>2
    <2> QED  BY <1>7, <2>3
  <1>15. FlattenSeq(R) = f
    <2>1. Piece(Byte, FlattenSeq(R), f, c[0], c[L])
      <3>1. c[0] \in Nat /\ \A n \in 1 .. Len(R) : Piece(Byte, R[n], f, c[n - 1], c[n])
        BY <1>3, <1>13, <1>14
      <3>2. Piece(Byte, FlattenSeq(R), f, c[0], c[Len(R)])
        BY <1>14, <3>1, FlatIs
      <3> QED  BY <1>14, <3>2
    <2> QED  BY <1>1, <1>3, <1>7, <2>1, PieceAll
  <1>16. FileOf(in, L, R)
    BY <1>2, <1>7, <1>10, <1>13, <1>14, <1>15 DEF FileOf
  <1> QED  BY <1>2, <1>16

(* The chunks of a trace: a line for each, up to the first that does not count. *)
TraceOf(in, L, R) ==
    /\ L \in 0 .. Len(in.file) /\ R \in Seq(Lines \X Nat) /\ Len(R) = L
    /\ \A n \in 1 .. L : R[n] = <<in.file[n], Least(LineSize[in.file[n]], maxChunkSize)>>
    /\ \A k \in 0 .. L : k < L <=> /\ k < Len(in.file) /\ in.file[k + 1] # EmptyLine
                                   /\ k + 1 = Len(in.file) => in.newline

LEMMA LineChunksAre ==
    ASSUME NEW in \in TraceInputs PROVE \E L : TraceOf(in, L, LineChunks(in))
  <1> DEFINE f == in.file
             N == Len(f)
             good == {n \in 1 .. N : (\A m \in 1 .. n : f[m] # EmptyLine) /\ (n = N => in.newline)}
             Z == {n \in 0 .. N : n + 1 \notin good}
  <1>1. f \in Seq(Lines) /\ N \in Nat
    BY TraceInput
  <1>2. Z \in SUBSET Nat /\ N \in Z
    BY <1>1
  <1>3. PICK L \in Z : \A m \in Z : L <= m
    BY <1>2, MinNat
  <1>4. L \in 0 .. N /\ L \in Nat /\ L + 1 \notin good
    BY <1>1, <1>3
  <1>5. ASSUME NEW n \in 1 .. L PROVE n \in good
    <2>1. n - 1 \in 0 .. N /\ n - 1 < L /\ (n - 1) + 1 = n /\ n - 1 \in Nat
      BY <1>1, <1>4
    <2>2. PICK m : m = n - 1
      OBVIOUS
    <2>3. m \notin Z
      <3> HIDE DEF Z
      <3> QED  BY <1>3, <1>4, <2>1, <2>2
    <2> QED  BY <2>1, <2>2, <2>3
  <1>6. ASSUME NEW n \in good PROVE n \in 1 .. L
    <2>1. n \in 1 .. N /\ (\A m \in 1 .. n : f[m] # EmptyLine) /\ (n = N => in.newline)
      OBVIOUS
    <2>2. ASSUME n > L PROVE FALSE
      <3>1. L + 1 \in 1 .. N /\ L + 1 <= n /\ (L + 1 = N => n = N)
        BY <1>1, <1>4, <2>1, <2>2
      <3>2. \A m \in 1 .. L + 1 : m \in 1 .. n
        BY <1>4, <2>1, <3>1
      <3>3. L + 1 \in good
        BY <2>1, <3>1, <3>2
      <3> QED  BY <1>4, <3>3
    <2> QED  BY <1>1, <1>4, <2>1, <2>2
  <1>7. good = 1 .. L
    BY <1>5, <1>6
  <1>8. \A m \in 1 .. L : f[m] # EmptyLine
    <2>1. ASSUME NEW m \in 1 .. L PROVE f[m] # EmptyLine
      <3>1. m \in good /\ m \in 1 .. m
        BY <1>4, <1>5
      <3> QED  BY <3>1
    <2> QED  BY <2>1
  <1>9. ASSUME NEW k \in 0 .. L
        PROVE  k < L <=> k < N /\ f[k + 1] # EmptyLine /\ (k + 1 = N => in.newline)
    <2>1. ASSUME k < L PROVE k < N /\ f[k + 1] # EmptyLine /\ (k + 1 = N => in.newline)
      <3>1. k + 1 \in 1 .. L /\ k < N
        BY <1>1, <1>4, <2>1
      <3>2. k + 1 \in good
        BY <1>5, <3>1
      <3> QED  BY <1>8, <3>1, <3>2
    <2>2. ASSUME k < N, f[k + 1] # EmptyLine, k + 1 = N => in.newline PROVE k < L
      <3>1. CASE k = L
        <4>1. L + 1 \in 1 .. N
          BY <1>1, <1>4, <2>2, <3>1
        <4>2. ASSUME NEW m \in 1 .. L + 1 PROVE f[m] # EmptyLine
          <5>1. m = L + 1 \/ m \in 1 .. L
            BY <1>4
          <5> QED  BY <1>8, <2>2, <3>1, <5>1
        <4>3. L + 1 \in good
          BY <2>2, <3>1, <4>1, <4>2
        <4> QED  BY <1>4, <4>3
      <3> QED  BY <1>4, <3>1
    <2> QED  BY <2>1, <2>2
  <1>10. PICK R : R = LineChunks(in)
    OBVIOUS
  <1>11. R = [n \in 1 .. L |-> <<f[n], Least(LineSize[f[n]], maxChunkSize)>>]
    BY <1>7, <1>10 DEF LineChunks
  <1>12. ASSUME NEW n \in 1 .. L
         PROVE  <<f[n], Least(LineSize[f[n]], maxChunkSize)>> \in Lines \X Nat
    <2>1. n \in 1 .. N
      BY <1>1, <1>4
    <2>2. f[n] \in Lines /\ f[n] # EmptyLine
      BY <1>1, <1>8, <2>1
    <2>3. LineSize[f[n]] \in Nat /\ maxChunkSize \in Nat
      BY <2>2, ClientAssumption DEF Lines
    <2> QED  BY <2>2, <2>3 DEF Least
  <1>13. R \in Seq(Lines \X Nat) /\ Len(R) = L
    <2>1. R \in [1 .. L -> Lines \X Nat]
      BY <1>11, <1>12
    <2> QED  BY <1>4, <2>1
  <1>14. TraceOf(in, L, R)
    BY <1>4, <1>9, <1>11, <1>13 DEF TraceOf
  <1> QED  BY <1>10, <1>14
-----------------------------------------------------------------------------
(* The invariant.                                                           *)

Data(x)  == [dataType |-> "DATA_CHUNK", chunk |-> x]
Elements == [dataType : {"DATA_CHUNK"}, chunk : Chunks]
            \cup [dataType : {"RECIPE_END"}, totalChunkNum : Nat, fileSize : Nat]
Messages == [messageType : {"CLIENT_UPLOAD_CHUNK"}, chunks : Seq(Chunks)]
            \cup [messageType : {"CLIENT_UPLOAD_RECIPE_END"}, totalChunkNum : Nat, fileSize : Nat]

Types ==
    /\ input \in Inputs
    /\ chunker \in {"read", "cut", "recipe", "done", "off", "exit"}
    /\ sender \in {"check", "pop", "off", "exit"} /\ (chunker = "exit" <=> sender = "exit")
    /\ totalOffset \in 0 .. Len(input.file) /\ localOffset \in 0 .. readSize
    /\ chunkIDCnt \in Nat /\ fileSize \in Nat
    /\ outputMQ \in Seq(Elements) /\ Len(outputMQ) <= QueueSize
    /\ sendChunkBuf \in Seq(Chunks) /\ Len(sendChunkBuf) < SendChunkBatchSize
    /\ sent \in Seq(Messages)
    /\ end \in BOOLEAN /\ done \in BOOLEAN /\ jobDone \in BOOLEAN

(* The chunker has cut k chunks of in, whose sizes add up to size; off is     *)
(* where it stands in the file.                                              *)
Cutting(in, R, k, pc, tot, loc, blk, e, size) ==
    LET N   == Len(in.file)
        off == IF pc = "cut" THEN tot + loc ELSE tot
    IN
    /\ k \in 0 .. Len(R)
    /\ pc \in {"recipe", "done", "off"} => k = Len(R) /\ (in.type # "TRACE" => size = N)
    /\ pc \in {"read", "cut"} /\ in.type = "TRACE" => pc = "read" /\ tot = k
    /\ pc \in {"read", "cut"} /\ in.type # "TRACE" => Cuts(in)[k] = off /\ size = off
    /\ pc \in {"read", "cut"} /\ in.type = "FIXED_SIZE_CHUNKING" => \E q \in Nat : tot = q * readSize
    /\ pc = "cut" => /\ blk = SubSeq(in.file, tot + 1, Least(tot + readSize, N))
                     /\ e = (tot + readSize > N)
                     /\ loc <= Least(tot + readSize, N) - tot

(* The queue holds the chunks behind the first e, up to the k that were cut,  *)
(* and perhaps the head of the recipe.                                       *)
Heads(R, F) == [dataType : {"RECIPE_END"}, totalChunkNum : {Len(R)}, fileSize : F]
QueueIs(R, F, k, out, e) ==
    /\ e \in Nat /\ k \in 0 .. Len(R) /\ e <= k
    /\ e + Len(out) = k \/ (e + Len(out) = k + 1 /\ k = Len(R))
    /\ \A n \in 1 .. Len(out) :
          /\ e + n <= k => out[n] = Data(R[e + n])
          /\ e + n > k => out[n] \in Heads(R, F)

(* The messages hold the first d chunks. *)
SentIs(R, msgs, d) ==
    /\ msgs \in Seq(Messages)
    /\ \E at : /\ at[0] = 0 /\ at[Len(msgs)] = d
               /\ \A n \in 1 .. Len(msgs) : Piece(Chunks, ChunksIn(msgs[n]), R, at[n - 1], at[n])

(* The head of the recipe is the last message. *)
EndIs(R, F, out, buf, msgs, d) ==
    \A n \in 1 .. Len(msgs) : ~IsBatch(msgs[n]) =>
        /\ n = Len(msgs) /\ msgs[n].totalChunkNum = Len(R) /\ msgs[n].fileSize \in F
        /\ d = Len(R) /\ buf = <<>> /\ out = <<>>

(* Batches are full, except the last one before the head or a failure. *)
FullIs(msgs, gone) ==
    /\ \A m, n \in 1 .. Len(msgs) :
          m < n /\ IsBatch(msgs[m]) /\ IsBatch(msgs[n]) => Len(msgs[m].chunks) = SendChunkBatchSize
    /\ ~gone /\ (\A n \in 1 .. Len(msgs) : IsBatch(msgs[n])) =>
          \A n \in 1 .. Len(msgs) : Len(msgs[n].chunks) = SendChunkBatchSize

CarriedTo(R, F, k, pc, out, buf, msgs, gone, d, e) ==
    /\ SentIs(R, msgs, d) /\ Piece(Chunks, buf, R, d, e) /\ QueueIs(R, F, k, out, e)
    /\ EndIs(R, F, out, buf, msgs, d) /\ FullIs(msgs, gone)
    /\ pc \in {"read", "cut", "recipe"} =>
          e + Len(out) = k /\ \A n \in 1 .. Len(msgs) : IsBatch(msgs[n])
Carried(R, F, k, pc, out, buf, msgs, gone) ==
    \E d, e : CarriedTo(R, F, k, pc, out, buf, msgs, gone, d, e)

Sizes == IF Trace THEN Nat ELSE {Len(input.file)}

Inv ==
    /\ Types
    /\ Cutting(input, Reference, chunkIDCnt, chunker, totalOffset, localOffset, block, end, fileSize)
    /\ Carried(Reference, Sizes, chunkIDCnt, chunker, outputMQ, sendChunkBuf, sent, sender = "exit")
-----------------------------------------------------------------------------
LEMMA RefIs ==
    ASSUME input \in Inputs
    PROVE  /\ Reference \in Seq(Chunks)
           /\ Trace => \E L : TraceOf(input, L, Reference)
           /\ ~Trace => \E L : FileOf(input, L, Reference)
  <1>1. CASE Trace
    <2>1. input \in TraceInputs /\ Reference = LineChunks(input)
      BY <1>1 DEF Trace, TraceInputs, Reference
    <2>2. PICK L : TraceOf(input, L, Reference)
      BY <2>1, LineChunksAre
    <2>3. Reference \in Seq(Lines \X Nat)
      BY <2>2 DEF TraceOf
    <2>4. Reference \in Seq(Chunks)
      BY <2>3 DEF Chunks
    <2> QED  BY <1>1, <2>2, <2>4
  <1>2. CASE ~Trace
    <2>1. input \in FileInputs /\ Reference = FileChunks(input)
      BY <1>2 DEF Trace, FileInputs, Reference
    <2>2. PICK L : FileOf(input, L, Reference)
      BY <2>1, FileChunksAre
    <2>3. Reference \in Seq(Seq(Byte))
      BY <2>2 DEF FileOf
    <2>4. Reference \in Seq(Chunks)
      BY <2>3 DEF Chunks
    <2> QED  BY <1>2, <2>2, <2>4
  <1> QED  BY <1>1, <1>2

LEMMA RefSame == ASSUME input' = input PROVE Reference' = Reference /\ Sizes' = Sizes /\ Trace' = Trace
  BY DEF Reference, Sizes, Trace

(* One more message. *)
LEMMA SentMore ==
    ASSUME NEW R, NEW msgs, NEW d, SentIs(R, msgs, d), NEW x \in Messages, NEW e,
           Piece(Chunks, ChunksIn(x), R, d, e)
    PROVE  SentIs(R, Append(msgs, x), e)
  <1> DEFINE N == Len(msgs)
  <1>1. msgs \in Seq(Messages) /\ N \in Nat
    BY DEF SentIs
  <1>2. PICK at : /\ at[0] = 0 /\ at[N] = d
                  /\ \A n \in 1 .. N : Piece(Chunks, ChunksIn(msgs[n]), R, at[n - 1], at[n])
    BY DEF SentIs
  <1>3. PICK r : r = Append(msgs, x)
    OBVIOUS
  <1>4. r \in Seq(Messages) /\ Len(r) = N + 1 /\ r[N + 1] = x /\ \A n \in 1 .. N : r[n] = msgs[n]
    BY <1>1, <1>3
  <1>5. PICK bt : bt = [n \in 0 .. N + 1 |-> IF n = N + 1 THEN e ELSE at[n]]
    OBVIOUS
  <1>6. bt[0] = 0 /\ bt[N + 1] = e /\ \A n \in 0 .. N : bt[n] = at[n]
    BY <1>1, <1>2, <1>5
  <1>7. ASSUME NEW n \in 1 .. N + 1 PROVE Piece(Chunks, ChunksIn(r[n]), R, bt[n - 1], bt[n])
    <2>1. CASE n = N + 1
      <3>1. n - 1 = N /\ N \in 0 .. N
        BY <1>1, <2>1
      <3>2. bt[n - 1] = d /\ bt[n] = e /\ r[n] = x
        BY <1>2, <1>4, <1>6, <2>1, <3>1
      <3> QED  BY <3>2
    <2>2. CASE n # N + 1
      <3>1. n \in 1 .. N /\ n - 1 \in 0 .. N /\ n \in 0 .. N
        BY <1>1, <2>2
      <3>2. bt[n - 1] = at[n - 1] /\ bt[n] = at[n] /\ r[n] = msgs[n]
        BY <1>4, <1>6, <3>1
      <3> QED  BY <1>2, <3>1, <3>2
    <2> QED  BY <2>1, <2>2
  <1>8. SentIs(R, r, e)
    BY <1>4, <1>6, <1>7 DEF SentIs
  <1> QED  BY <1>3, <1>8

(* What was sent is, put together, the first d chunks. *)
LEMMA DeliveredIs ==
    ASSUME NEW R, NEW msgs, NEW d, SentIs(R, msgs, d)
    PROVE  Piece(Chunks, FlattenSeq([n \in DOMAIN msgs |-> ChunksIn(msgs[n])]), R, 0, d)
  <1>1. msgs \in Seq(Messages) /\ Len(msgs) \in Nat /\ DOMAIN msgs = 1 .. Len(msgs)
    BY DEF SentIs
  <1>2. PICK at : /\ at[0] = 0 /\ at[Len(msgs)] = d
                  /\ \A n \in 1 .. Len(msgs) : Piece(Chunks, ChunksIn(msgs[n]), R, at[n - 1], at[n])
    BY DEF SentIs
  <1>3. PICK q : q = [n \in DOMAIN msgs |-> ChunksIn(msgs[n])]
    OBVIOUS
  <1>4. \A n \in 1 .. Len(msgs) : q[n] = ChunksIn(msgs[n]) /\ q[n] \in Seq(Chunks)
    BY <1>1, <1>2, <1>3 DEF Piece
  <1>5. q \in Seq(Seq(Chunks)) /\ Len(q) = Len(msgs)
    <2>1. q \in [1 .. Len(msgs) -> Seq(Chunks)]
      BY <1>1, <1>3, <1>4
    <2> QED  BY <1>1, <2>1
  <1>6. at[0] \in Nat /\ \A n \in 1 .. Len(q) : Piece(Chunks, q[n], R, at[n - 1], at[n])
    BY <1>2, <1>4, <1>5
  <1>7. Piece(Chunks, FlattenSeq(q), R, at[0], at[Len(q)])
    BY <1>5, <1>6, FlatIs
  <1> QED  BY <1>2, <1>3, <1>5, <1>7

(* What is queued is, put together, the chunks behind the first e. *)
LEMMA QueuedIs ==
    ASSUME NEW R \in Seq(Chunks), NEW F, NEW k, NEW out \in Seq(Elements), NEW e, QueueIs(R, F, k, out, e)
    PROVE  Piece(Chunks, FlattenSeq([n \in DOMAIN out |-> ChunkIn(out[n])]), R, e, k)
  <1> DEFINE N == Len(out)
  <1>1. N \in Nat /\ DOMAIN out = 1 .. N /\ e \in Nat /\ k \in Nat /\ k <= Len(R) /\ Len(R) \in Nat /\ e <= k
    BY DEF QueueIs
  <1>2. PICK q : q = [n \in DOMAIN out |-> ChunkIn(out[n])]
    OBVIOUS
  <1>3. PICK at : at = [n \in 0 .. N |-> IF e + n <= k THEN e + n ELSE k]
    OBVIOUS
  <1>4. ASSUME NEW n \in 1 .. N PROVE Piece(Chunks, q[n], R, at[n - 1], at[n])
    <2>1. n \in 0 .. N /\ n - 1 \in 0 .. N
      BY <1>1
    <2>2. /\ at[n - 1] = IF e + (n - 1) <= k THEN e + (n - 1) ELSE k
          /\ at[n] = IF e + n <= k THEN e + n ELSE k
          /\ q[n] = ChunkIn(out[n])
      BY <1>1, <1>2, <1>3, <2>1
    <2>3. CASE e + n <= k
      <3>1. PICK i : i = e + (n - 1)
        OBVIOUS
      <3>2. i \in Nat /\ i + 1 = e + n /\ e + n \in 1 .. Len(R) /\ i <= k
        BY <1>1, <2>3, <3>1
      <3>3. out[n] = Data(R[e + n])
        BY <2>3 DEF QueueIs
      <3>4. q[n] = <<R[e + n]>>
        BY <2>2, <3>3 DEF ChunkIn, Data
      <3>5. R[e + n] \in Chunks
        BY <3>2
      <3>6. Piece(Chunks, <<R[e + n]>>, R, i, i + 1)
        BY <3>2, <3>5, PieceOne
      <3> QED  BY <2>2, <2>3, <3>1, <3>2, <3>4, <3>6
    <2>4. CASE e + n > k
      <3>1. at[n] = k /\ at[n - 1] = k
        <4>1. e + N <= k + 1
          BY <1>1 DEF QueueIs
        <4>2. ~(e + n <= k) /\ e + (n - 1) = k
          BY <1>1, <2>4, <4>1
        <4> QED  BY <2>2, <4>2
      <3>2. out[n] \in Heads(R, F)
        BY <2>4 DEF QueueIs
      <3>3. q[n] = <<>>
        BY <2>2, <3>2 DEF Heads, ChunkIn
      <3> QED  BY <1>1, <3>1, <3>3, PieceEmpty
    <2> QED  BY <1>1, <2>3, <2>4
  <1>5. q \in Seq(Seq(Chunks)) /\ Len(q) = N
    <2>1. \A n \in 1 .. N : q[n] \in Seq(Chunks)
      BY <1>4 DEF Piece
    <2>2. q = [n \in 1 .. N |-> q[n]]
      BY <1>1, <1>2
    <2>3. q \in [1 .. N -> Seq(Chunks)]
      BY <2>1, <2>2
    <2> QED  BY <1>1, <2>3
  <1>6. at[0] = e /\ at[N] = k
    <2>1. 0 \in 0 .. N /\ N \in 0 .. N /\ e + 0 = e
      BY <1>1
    <2>2. e + N <= k => e + N = k
      BY <1>1 DEF QueueIs
    <2> QED  BY <1>1, <1>3, <2>1, <2>2
  <1>7. Piece(Chunks, FlattenSeq(q), R, at[0], at[Len(q)])
    <2>1. at[0] \in Nat /\ \A n \in 1 .. Len(q) : Piece(Chunks, q[n], R, at[n - 1], at[n])
      BY <1>1, <1>4, <1>5, <1>6
    <2> QED  BY <1>5, <2>1, FlatIs
  <1> QED  BY <1>2, <1>5, <1>6, <1>7

LEMMA Faithful ==
    ASSUME Inv PROVE UploadFaithful
  <1> DEFINE N == Len(sent)
  <1>1. PICK R, F : R = Reference /\ F = Sizes
    OBVIOUS
  <1>2. input \in Inputs /\ outputMQ \in Seq(Elements) /\ sent \in Seq(Messages)
    BY DEF Inv, Types
  <1>3. R \in Seq(Chunks) /\ Len(R) \in Nat
    BY <1>1, <1>2, RefIs
  <1>4. PICK d, e : CarriedTo(R, F, chunkIDCnt, chunker, outputMQ, sendChunkBuf, sent, sender = "exit", d, e)
    BY <1>1 DEF Inv, Carried
  <1>5. /\ SentIs(R, sent, d) /\ Piece(Chunks, sendChunkBuf, R, d, e)
        /\ QueueIs(R, F, chunkIDCnt, outputMQ, e)
        /\ EndIs(R, F, outputMQ, sendChunkBuf, sent, d) /\ FullIs(sent, sender = "exit")
    BY <1>4 DEF CarriedTo
  <1>6. Piece(Chunks, Delivered, R, 0, d)
    BY <1>5, DeliveredIs DEF Delivered
  <1>7. Piece(Chunks, Queued, R, e, chunkIDCnt)
    BY <1>2, <1>3, <1>5, QueuedIs DEF Queued
  <1>8. Piece(Chunks, Pushed, R, 0, chunkIDCnt)
    <2>1. Piece(Chunks, Delivered \o sendChunkBuf, R, 0, e)
      BY <1>5, <1>6, PieceConcat
    <2> QED  BY <1>7, <2>1, PieceConcat DEF Pushed
  <1>9. IsPrefix(Pushed, Reference)
    <2>1. chunkIDCnt \in 0 .. Len(R)
      BY <1>5 DEF QueueIs
    <2> QED  BY <1>1, <1>3, <1>8, <2>1, PiecePrefix
  <1>10. DOMAIN sent = 1 .. N
    BY <1>2
  <1>11. ASSUME NEW n \in DOMAIN sent, sent[n].messageType = "CLIENT_UPLOAD_RECIPE_END"
         PROVE  /\ n = Len(sent) /\ Delivered = Reference /\ sent[n].totalChunkNum = Len(Reference)
                /\ ~Trace => FlattenSeq(Delivered) = input.file /\ sent[n].fileSize = Len(input.file)
    <2>1. ~IsBatch(sent[n])
      BY <1>11 DEF IsBatch
    <2>2. n = Len(sent) /\ sent[n].totalChunkNum = Len(R) /\ sent[n].fileSize \in F /\ d = Len(R)
      BY <1>5, <1>10, <2>1 DEF EndIs
    <2>3. Delivered = R
      BY <1>3, <1>6, <2>2, PieceAll
    <2>4. ASSUME ~Trace PROVE FlattenSeq(R) = input.file /\ sent[n].fileSize = Len(input.file)
      <3>1. PICK L : FileOf(input, L, R)
        BY <1>1, <1>2, <2>4, RefIs
      <3>2. F = {Len(input.file)}
        BY <1>1, <2>4 DEF Sizes
      <3> QED  BY <2>2, <3>1, <3>2 DEF FileOf
    <2> QED  BY <1>1, <2>2, <2>3, <2>4
  <1>12. \A m, n \in DOMAIN sent :
            m < n /\ IsBatch(sent[m]) /\ IsBatch(sent[n]) => Len(sent[m].chunks) = SendChunkBatchSize
    BY <1>5, <1>10 DEF FullIs
  <1> QED  BY <1>9, <1>11, <1>12 DEF UploadFaithful
-----------------------------------------------------------------------------
(* Steps of the queue and the messages. *)

LEMMA AppendIs ==
    ASSUME NEW S, NEW s \in Seq(S), NEW x \in S
    PROVE  /\ Append(s, x) \in Seq(S) /\ Len(Append(s, x)) = Len(s) + 1 /\ Len(s) \in Nat
           /\ Append(s, x)[Len(s) + 1] = x /\ \A n \in 1 .. Len(s) : Append(s, x)[n] = s[n]
  OBVIOUS

(* The chunker pushes the next chunk. *)
LEMMA CarryChunk ==
    ASSUME NEW R, NEW F, NEW k, NEW pc, NEW out \in Seq(Elements), NEW buf, NEW msgs, NEW gone, NEW d, NEW e,
           CarriedTo(R, F, k, pc, out, buf, msgs, gone, d, e), pc \in {"read", "cut"},
           k + 1 \in 1 .. Len(R), R[k + 1] \in Chunks
    PROVE  /\ Append(out, Data(R[k + 1])) \in Seq(Elements)
           /\ CarriedTo(R, F, k + 1, pc, Append(out, Data(R[k + 1])), buf, msgs, gone, d, e)
  <1> DEFINE N == Len(out)
  <1>1. PICK x, r : x = Data(R[k + 1]) /\ r = Append(out, x)
    OBVIOUS
  <1>2. x \in Elements
    BY <1>1 DEF Data, Elements
  <1>3. r \in Seq(Elements) /\ Len(r) = N + 1 /\ N \in Nat /\ r[N + 1] = x /\ \A n \in 1 .. N : r[n] = out[n]
    BY <1>1, <1>2, AppendIs
  <1>4. /\ e \in Nat /\ k \in 0 .. Len(R) /\ e <= k /\ e + N = k
        /\ \A n \in 1 .. N : e + n <= k => out[n] = Data(R[e + n])
    BY DEF CarriedTo, QueueIs
  <1>5. k \in Nat /\ k + 1 \in 0 .. Len(R)
    BY <1>4
  <1>6. ASSUME NEW n \in 1 .. N + 1
        PROVE (e + n <= k + 1 => r[n] = Data(R[e + n])) /\ (e + n > k + 1 => r[n] \in Heads(R, F))
    <2>1. e + n <= k + 1
      BY <1>3, <1>4, <1>5
    <2>2. CASE n = N + 1
      <3>1. e + n = k + 1
        BY <1>3, <1>4, <1>5, <2>2
      <3> QED  BY <1>1, <1>3, <1>5, <2>2, <3>1
    <2>3. CASE n # N + 1
      <3>1. n \in 1 .. N /\ e + n <= k
        BY <1>3, <1>4, <1>5, <2>3
      <3> QED  BY <1>3, <1>4, <1>5, <2>1, <3>1
    <2> QED  BY <2>2, <2>3
  <1>7. e <= k + 1 /\ e + Len(r) = k + 1
    BY <1>3, <1>4, <1>5
  <1>8. QueueIs(R, F, k + 1, r, e)
    BY <1>3, <1>4, <1>5, <1>6, <1>7 DEF QueueIs
  <1>9. EndIs(R, F, r, buf, msgs, d)
    BY DEF CarriedTo, EndIs
  <1>10. CarriedTo(R, F, k + 1, pc, r, buf, msgs, gone, d, e)
    BY <1>7, <1>8, <1>9 DEF CarriedTo
  <1> QED  BY <1>1, <1>3, <1>10

(* The chunker pushes the head of the recipe. *)
LEMMA CarryHead ==
    ASSUME NEW R, NEW F, NEW k, NEW out \in Seq(Elements), NEW buf, NEW msgs, NEW gone, NEW d, NEW e,
           CarriedTo(R, F, k, "recipe", out, buf, msgs, gone, d, e), k = Len(R), NEW h \in Heads(R, F),
           h \in Elements
    PROVE  /\ Append(out, h) \in Seq(Elements)
           /\ CarriedTo(R, F, k, "done", Append(out, h), buf, msgs, gone, d, e)
  <1> DEFINE N == Len(out)
  <1>1. PICK r : r = Append(out, h)
    OBVIOUS
  <1>3. r \in Seq(Elements) /\ Len(r) = N + 1 /\ N \in Nat /\ r[N + 1] = h /\ \A n \in 1 .. N : r[n] = out[n]
    BY <1>1, AppendIs
  <1>4. /\ e \in Nat /\ k \in 0 .. Len(R) /\ e <= k /\ e + N = k
        /\ \A n \in 1 .. N : e + n <= k => out[n] = Data(R[e + n])
    BY DEF CarriedTo, QueueIs
  <1>5. k \in Nat
    BY <1>4
  <1>6. ASSUME NEW n \in 1 .. N + 1
        PROVE (e + n <= k => r[n] = Data(R[e + n])) /\ (e + n > k => r[n] \in Heads(R, F))
    <2>2. CASE n = N + 1
      <3>1. e + n = k + 1
        BY <1>3, <1>4, <1>5, <2>2
      <3> QED  BY <1>3, <1>5, <2>2, <3>1
    <2>3. CASE n # N + 1
      <3>1. n \in 1 .. N /\ e + n <= k
        BY <1>3, <1>4, <1>5, <2>3
      <3> QED  BY <1>3, <1>4, <1>5, <3>1
    <2> QED  BY <2>2, <2>3
  <1>7. e + Len(r) = k + 1
    BY <1>3, <1>4, <1>5
  <1>8. QueueIs(R, F, k, r, e)
    BY <1>3, <1>4, <1>5, <1>6, <1>7 DEF QueueIs
  <1>9. EndIs(R, F, r, buf, msgs, d)
    BY DEF CarriedTo, EndIs
  <1>10. CarriedTo(R, F, k, "done", r, buf, msgs, gone, d, e)
    BY <1>8, <1>9 DEF CarriedTo
  <1> QED  BY <1>1, <1>3, <1>10

(* What is known of the first element h of the queue and of the rest r. *)
PoppedIs(R, F, k, e, h, r) ==
    /\ r \in Seq(Elements)
    /\ h.dataType = "DATA_CHUNK" => e + 1 <= k /\ h.chunk = R[e + 1] /\ QueueIs(R, F, k, r, e + 1)
    /\ h.dataType # "DATA_CHUNK" =>
          e = k /\ k = Len(R) /\ h \in Heads(R, F) /\ r = <<>> /\ QueueIs(R, F, k, r, e)

LEMMA QueueTail ==
    ASSUME NEW R, NEW F, NEW k, NEW out \in Seq(Elements), NEW e, QueueIs(R, F, k, out, e), out # <<>>
    PROVE  PoppedIs(R, F, k, e, Head(out), Tail(out))
  <1> DEFINE N == Len(out)
  <1>1. PICK h, r : h = Head(out) /\ r = Tail(out)
    OBVIOUS
  <1>2. /\ N \in Nat /\ N > 0 /\ h = out[1] /\ r \in Seq(Elements) /\ Len(r) = N - 1
        /\ \A n \in 1 .. N - 1 : r[n] = out[n + 1]
    BY <1>1
  <1>3. /\ e \in Nat /\ k \in 0 .. Len(R) /\ e <= k /\ k \in Nat
        /\ e + N = k \/ (e + N = k + 1 /\ k = Len(R))
        /\ \A n \in 1 .. N : /\ e + n <= k => out[n] = Data(R[e + n])
                             /\ e + n > k => out[n] \in Heads(R, F)
    BY DEF QueueIs
  <1>4. CASE e + 1 <= k
    <2>1. h = Data(R[e + 1])
      BY <1>2, <1>3, <1>4
    <2>2. h.dataType = "DATA_CHUNK" /\ h.chunk = R[e + 1]
      BY <2>1 DEF Data
    <2>3. ASSUME NEW n \in 1 .. N - 1
          PROVE /\ (e + 1) + n <= k => r[n] = Data(R[(e + 1) + n])
                /\ (e + 1) + n > k => r[n] \in Heads(R, F)
      <3>1. PICK m : m = n + 1
        OBVIOUS
      <3>2. m \in 1 .. N /\ e + m = (e + 1) + n /\ r[n] = out[m]
        BY <1>2, <1>3, <3>1
      <3> QED  BY <1>3, <3>2
    <2>4. e + 1 \in Nat /\ ((e + 1) + (N - 1) = k \/ ((e + 1) + (N - 1) = k + 1 /\ k = Len(R)))
      BY <1>2, <1>3
    <2>5. QueueIs(R, F, k, r, e + 1)
      BY <1>2, <1>3, <1>4, <2>3, <2>4 DEF QueueIs
    <2>6. PoppedIs(R, F, k, e, h, r)
      BY <1>2, <1>4, <2>2, <2>5 DEF PoppedIs
    <2> QED  BY <1>1, <2>6
  <1>5. CASE ~(e + 1 <= k)
    <2>1. e = k /\ N = 1 /\ k = Len(R) /\ e + 1 > k
      BY <1>2, <1>3, <1>5
    <2>2. h \in Heads(R, F)
      BY <1>2, <1>3, <2>1
    <2>3. h.dataType = "RECIPE_END"
      BY <2>2 DEF Heads
    <2>4. r = <<>> /\ Len(r) = 0
      BY <1>2, <2>1
    <2>5. e + 0 = k /\ 1 .. 0 = {}
      BY <1>3, <2>1
    <2>6. QueueIs(R, F, k, r, e)
      BY <1>3, <2>1, <2>4, <2>5 DEF QueueIs
    <2>7. PoppedIs(R, F, k, e, h, r)
      BY <1>2, <2>1, <2>2, <2>3, <2>4, <2>6 DEF PoppedIs
    <2> QED  BY <1>1, <2>7
  <1> QED  BY <1>4, <1>5

(* The sender puts a chunk into its buffer. *)
LEMMA CarryBuffer ==
    ASSUME NEW R, NEW F, NEW k, NEW pc, NEW out \in Seq(Elements), NEW buf, NEW msgs, NEW gone, NEW d, NEW e,
           CarriedTo(R, F, k, pc, out, buf, msgs, gone, d, e), out # <<>>, R \in Seq(Chunks),
           Head(out).dataType = "DATA_CHUNK"
    PROVE  /\ Append(buf, Head(out).chunk) \in Seq(Chunks) /\ Len(Append(buf, Head(out).chunk)) = Len(buf) + 1
           /\ CarriedTo(R, F, k, pc, Tail(out), Append(buf, Head(out).chunk), msgs, gone, d, e + 1)
  <1>1. /\ SentIs(R, msgs, d) /\ Piece(Chunks, buf, R, d, e) /\ QueueIs(R, F, k, out, e)
        /\ EndIs(R, F, out, buf, msgs, d) /\ FullIs(msgs, gone)
    BY DEF CarriedTo
  <1>2. PICK x, r : x = Head(out).chunk /\ r = Tail(out)
    OBVIOUS
  <1>3. e + 1 <= k /\ x = R[e + 1] /\ QueueIs(R, F, k, r, e + 1) /\ Len(r) = Len(out) - 1
    <2>1. QueueIs(R, F, k, out, e)
      BY <1>1
    <2>2. PoppedIs(R, F, k, e, Head(out), r)
      BY <1>2, <2>1, QueueTail
    <2>3. Len(r) = Len(out) - 1
      BY <1>2
    <2> QED  BY <1>2, <2>2, <2>3 DEF PoppedIs
  <1>4. e \in Nat /\ k \in Nat /\ k <= Len(R) /\ Len(out) \in Nat /\ Len(R) \in Nat
    BY <1>1 DEF QueueIs
  <1>5. x \in Chunks
    BY <1>3, <1>4
  <1>6. Piece(Chunks, Append(buf, x), R, d, e + 1)
    BY <1>1, <1>3, <1>5, PieceAppend
  <1>7. buf \in Seq(Chunks)
    BY <1>1 DEF Piece
  <1>8. Append(buf, x) \in Seq(Chunks) /\ Len(Append(buf, x)) = Len(buf) + 1
    BY <1>5, <1>7, AppendIs
  <1>9. EndIs(R, F, r, Append(buf, x), msgs, d)
    BY <1>1 DEF EndIs
  <1>10. pc \in {"read", "cut", "recipe"} =>
            (e + 1) + Len(r) = k /\ \A n \in 1 .. Len(msgs) : IsBatch(msgs[n])
    BY <1>3, <1>4 DEF CarriedTo
  <1>11. CarriedTo(R, F, k, pc, r, Append(buf, x), msgs, gone, d, e + 1)
    BY <1>1, <1>3, <1>6, <1>9, <1>10 DEF CarriedTo
  <1> QED  BY <1>2, <1>8, <1>11

LEMMA BatchIs ==
    ASSUME NEW b \in Seq(Chunks)
    PROVE  Batch(b) \in Messages /\ IsBatch(Batch(b)) /\ ChunksIn(Batch(b)) = b /\ Batch(b).chunks = b
  BY DEF Batch, Messages, IsBatch, ChunksIn

(* The sender sends its buffer: it is full, or it is the last. *)
LEMMA CarryBatch ==
    ASSUME NEW R, NEW F, NEW k, NEW pc, NEW out, NEW buf, NEW msgs, NEW gone, NEW d, NEW e,
           CarriedTo(R, F, k, pc, out, buf, msgs, FALSE, d, e), \A n \in 1 .. Len(msgs) : IsBatch(msgs[n]),
           gone \in BOOLEAN, gone \/ Len(buf) = SendChunkBatchSize
    PROVE  CarriedTo(R, F, k, pc, out, <<>>, Append(msgs, Batch(buf)), gone, e, e)
  <1> DEFINE N == Len(msgs)
  <1>1. /\ SentIs(R, msgs, d) /\ Piece(Chunks, buf, R, d, e) /\ QueueIs(R, F, k, out, e)
        /\ EndIs(R, F, out, buf, msgs, d) /\ FullIs(msgs, FALSE)
    BY DEF CarriedTo
  <1>2. PICK b, r : b = Batch(buf) /\ r = Append(msgs, b)
    OBVIOUS
  <1>3. buf \in Seq(Chunks) /\ e \in Nat /\ msgs \in Seq(Messages)
    BY <1>1 DEF Piece, SentIs
  <1>4. b \in Messages /\ IsBatch(b) /\ ChunksIn(b) = buf /\ b.chunks = buf
    BY <1>2, <1>3, BatchIs
  <1>5. SentIs(R, r, e)
    BY <1>1, <1>2, <1>4, SentMore
  <1>6. Len(r) = N + 1 /\ N \in Nat /\ r[N + 1] = b /\ \A n \in 1 .. N : r[n] = msgs[n]
    BY <1>2, <1>3, <1>4, AppendIs
  <1>7. ASSUME NEW n \in 1 .. Len(r) PROVE IsBatch(r[n]) /\ (n <= N => Len(r[n].chunks) = SendChunkBatchSize)
    <2>1. CASE n = N + 1
      BY <1>4, <1>6, <2>1
    <2>2. CASE n # N + 1
      <3>1. n \in 1 .. N
        BY <1>6, <2>2
      <3>2. Len(msgs[n].chunks) = SendChunkBatchSize
        BY <1>1, <3>1 DEF FullIs
      <3> QED  BY <1>6, <3>1, <3>2
    <2> QED  BY <2>1, <2>2
  <1>8. FullIs(r, gone)
    <2>1. ASSUME NEW m \in 1 .. Len(r), NEW n \in 1 .. Len(r), m < n PROVE Len(r[m].chunks) = SendChunkBatchSize
      <3>1. m <= N
        BY <1>6, <2>1
      <3> QED  BY <1>7, <3>1
    <2>2. ASSUME ~gone, NEW n \in 1 .. Len(r) PROVE Len(r[n].chunks) = SendChunkBatchSize
      <3>1. n <= N \/ n = N + 1
        BY <1>6
      <3> QED  BY <1>4, <1>6, <1>7, <2>2, <3>1
    <2> QED  BY <2>1, <2>2 DEF FullIs
  <1>9. EndIs(R, F, out, <<>>, r, e)
    BY <1>7 DEF EndIs
  <1>10. Piece(Chunks, <<>>, R, e, e)
    BY <1>3, PieceEmpty
  <1>11. CarriedTo(R, F, k, pc, out, <<>>, r, gone, e, e)
    BY <1>1, <1>5, <1>7, <1>8, <1>9, <1>10 DEF CarriedTo
  <1> QED  BY <1>2, <1>11

(* The sender sends the head. *)
LEMMA CarryEnd ==
    ASSUME NEW R, NEW F, NEW k, NEW pc, NEW out \in Seq(Elements), NEW msgs, NEW gone, NEW d, NEW e,
           CarriedTo(R, F, k, pc, out, <<>>, msgs, gone, d, e), out # <<>>,
           Head(out).dataType # "DATA_CHUNK", NEW x \in Messages, ~IsBatch(x),
           x.totalChunkNum = Head(out).totalChunkNum, x.fileSize = Head(out).fileSize
    PROVE  CarriedTo(R, F, k, pc, Tail(out), <<>>, Append(msgs, x), FALSE, d, e)
  <1> DEFINE N == Len(msgs)
  <1>1. /\ SentIs(R, msgs, d) /\ Piece(Chunks, <<>>, R, d, e) /\ QueueIs(R, F, k, out, e)
        /\ EndIs(R, F, out, <<>>, msgs, d) /\ FullIs(msgs, gone)
    BY DEF CarriedTo
  <1>2. PICK h, t, r : h = Head(out) /\ t = Tail(out) /\ r = Append(msgs, x)
    OBVIOUS
  <1>3. e = k /\ k = Len(R) /\ h \in Heads(R, F) /\ t = <<>> /\ QueueIs(R, F, k, t, e) /\ Len(t) = Len(out) - 1
    <2>1. QueueIs(R, F, k, out, e)
      BY <1>1
    <2>2. PoppedIs(R, F, k, e, h, t)
      BY <1>2, <2>1, QueueTail
    <2>3. Len(t) = Len(out) - 1
      BY <1>2
    <2> QED  BY <1>2, <2>2, <2>3 DEF PoppedIs
  <1>4. msgs \in Seq(Messages) /\ d = e /\ d \in Nat /\ Len(out) \in Nat
    BY <1>1, PieceOfNone DEF SentIs, Piece
  <1>5. Len(r) = N + 1 /\ N \in Nat /\ r[N + 1] = x /\ \A n \in 1 .. N : r[n] = msgs[n]
    BY <1>2, <1>4, AppendIs
  <1>6. ChunksIn(x) = <<>>
    BY DEF ChunksIn
  <1>7. SentIs(R, r, d)
    <2>1. Piece(Chunks, ChunksIn(x), R, d, d)
      BY <1>4, <1>6, PieceEmpty
    <2> QED  BY <1>1, <1>2, <2>1, SentMore
  <1>8. \A n \in 1 .. N : IsBatch(msgs[n])
    BY <1>1 DEF EndIs
  <1>9. EndIs(R, F, t, <<>>, r, d)
    <2>1. ASSUME NEW n \in 1 .. Len(r), ~IsBatch(r[n])
          PROVE  n = Len(r) /\ r[n].totalChunkNum = Len(R) /\ r[n].fileSize \in F
      <3>1. n = N + 1
        <4>1. n \in 1 .. N \/ n = N + 1
          BY <1>5
        <4> QED  BY <1>5, <1>8, <2>1, <4>1
      <3> QED  BY <1>2, <1>3, <1>5, <3>1 DEF Heads
    <2> QED  BY <1>3, <1>4, <2>1 DEF EndIs
  <1>10. FullIs(r, FALSE)
    <2>1. ASSUME NEW m \in 1 .. Len(r), NEW n \in 1 .. Len(r), m < n, IsBatch(r[m]), IsBatch(r[n])
          PROVE Len(r[m].chunks) = SendChunkBatchSize
      <3>1. n # N + 1
        BY <1>5, <2>1
      <3>2. n \in 1 .. N /\ m \in 1 .. N
        BY <1>5, <2>1, <3>1
      <3>3. Len(msgs[m].chunks) = SendChunkBatchSize
        BY <1>1, <1>8, <2>1, <3>2 DEF FullIs
      <3> QED  BY <1>5, <3>2, <3>3
    <2>2. N + 1 \in 1 .. Len(r) /\ ~IsBatch(r[N + 1])
      BY <1>5
    <2> QED  BY <2>1, <2>2 DEF FullIs
  <1>11. pc \notin {"read", "cut", "recipe"}
    <2>1. Len(out) >= 1
      BY <1>4
    <2>2. e + Len(out) # k
      BY <1>3, <1>4, <2>1
    <2> QED  BY <2>2 DEF CarriedTo
  <1>12. CarriedTo(R, F, k, pc, t, <<>>, r, FALSE, d, e)
    BY <1>1, <1>3, <1>7, <1>9, <1>10, <1>11 DEF CarriedTo
  <1> QED  BY <1>2, <1>12

(* The place of the chunker may change as long as nothing is claimed of it   *)
(* that was not true before; a sender that exits claims less.                *)
LEMMA CarryPlace ==
    ASSUME NEW R, NEW F, NEW k, NEW pc, NEW qc, NEW out, NEW buf, NEW msgs, NEW gone, NEW away,
           Carried(R, F, k, pc, out, buf, msgs, gone), gone \in BOOLEAN, away \in BOOLEAN, gone => away,
           qc \in {"read", "cut", "recipe"} => pc \in {"read", "cut", "recipe"}
    PROVE  Carried(R, F, k, qc, out, buf, msgs, away)
  <1>1. PICK d, e : CarriedTo(R, F, k, pc, out, buf, msgs, gone, d, e)
    BY DEF Carried
  <1>2. FullIs(msgs, away)
    BY <1>1 DEF CarriedTo, FullIs
  <1>3. CarriedTo(R, F, k, qc, out, buf, msgs, away, d, e)
    BY <1>1, <1>2 DEF CarriedTo
  <1> QED  BY <1>3 DEF Carried
-----------------------------------------------------------------------------
(* Steps of the chunker. *)

(* MoreInBlock and CutSize, of given values of the variables. *)
MoreIn(in, loc, blk, e) ==
    IF in.type = "FAST_CDC" THEN Len(blk) - loc >= maxChunkSize \/ (e /\ loc < Len(blk)) ELSE loc < Len(blk)
SizeIn(in, loc, blk) ==
    IF in.type = "FAST_CDC" THEN CutPoint(SubSeq(blk, loc + 1, Len(blk)))
    ELSE IF Len(blk) - loc > avgChunkSize THEN avgChunkSize ELSE Len(blk) - loc

LEMMA ModIs ==
    ASSUME NEW m \in Nat, NEW q \in Nat, NEW r \in Nat, r < m PROVE (q * m + r) % m = r
  OBVIOUS

(* blk is the block of the file at tot, up to top, and loc is in it. *)
BlockIs(in, tot, loc, top, blk, e) ==
    /\ tot \in Nat /\ loc \in Nat /\ top \in Nat /\ top = Least(tot + readSize, Len(in.file))
    /\ tot <= top /\ loc <= top - tot
    /\ blk = SubSeq(in.file, tot + 1, top) /\ e = (tot + readSize > Len(in.file))
    /\ in.type = "FIXED_SIZE_CHUNKING" => \E q \in Nat : tot = q * readSize

(* z is the size of the chunk at loc in the block and in the file. *)
SameCut(in, tot, loc, top, blk, z) ==
    /\ z = SizeAt(in, tot + loc) /\ z \in 1 .. top - (tot + loc)
    /\ blk \in Seq(Byte) /\ Len(blk) = top - tot

LEMMA CutSame ==
    ASSUME NEW in \in FileInputs, NEW tot, NEW loc, NEW top, NEW blk, NEW e,
           BlockIs(in, tot, loc, top, blk, e), MoreIn(in, loc, blk, e)
    PROVE  SameCut(in, tot, loc, top, blk, SizeIn(in, loc, blk))
  <1>0. PICK f, N : f = in.file /\ N = Len(f)
    OBVIOUS
  <1>a. /\ tot \in Nat /\ loc \in Nat /\ top \in Nat /\ top = Least(tot + readSize, Len(in.file))
        /\ tot <= top /\ loc <= top - tot
        /\ blk = SubSeq(in.file, tot + 1, top) /\ e = (tot + readSize > Len(in.file))
        /\ in.type = "FIXED_SIZE_CHUNKING" => \E q \in Nat : tot = q * readSize
    BY DEF BlockIs
  <1>1. f \in Seq(Byte) /\ N \in Nat /\ in.type \in {"FAST_CDC", "FIXED_SIZE_CHUNKING"}
    BY <1>0, FileInput
  <1>2. /\ readSize \in Nat /\ maxChunkSize \in Nat /\ avgChunkSize \in Nat
        /\ avgChunkSize > 1 /\ readSize > 0 /\ maxChunkSize > 0
    BY ClientAssumption
  <1>3. /\ top <= N /\ top <= tot + readSize /\ (top = N \/ top = tot + readSize)
        /\ e => top = N
    <2>1. top = IF tot + readSize < N THEN tot + readSize ELSE N
      BY <1>0, <1>a DEF Least
    <2>2. e => tot + readSize > N
      BY <1>0, <1>a
    <2>3. tot + readSize \in Nat
      BY <1>2, <1>a
    <2> QED  BY ONLY <1>1, <2>1, <2>2, <2>3
  <1>4. /\ blk \in Seq(Byte) /\ Len(blk) = top - tot
        /\ \A n \in 1 .. top - tot : blk[n] = f[tot + n]
    <2>1. blk = SubSeq(f, tot + 1, top) /\ top <= Len(f)
      BY <1>0, <1>3, <1>a
    <2>2. Piece(Byte, SubSeq(f, tot + 1, top), f, tot, top)
      BY <1>1, <1>a, <2>1, PieceSubSeq
    <2> QED  BY <2>1, <2>2 DEF Piece
  <1>5. PICK o, len : o = tot + loc /\ len = top - o
    OBVIOUS
  <1>6. o \in Nat /\ len \in Nat /\ o <= top /\ o <= N /\ Len(blk) - loc = len /\ loc <= Len(blk)
    <2>1. top \in Nat /\ tot \in Nat /\ loc \in Nat /\ tot <= top /\ loc <= top - tot
      BY <1>a
    <2>2. PICK l : l = Len(blk)
      OBVIOUS
    <2>3. l = top - tot
      BY <1>4, <2>2
    <2>4. o \in Nat /\ len \in Nat /\ o <= top /\ o <= N /\ l - loc = len /\ loc <= l
      BY ONLY <1>1, <1>3, <1>5, <2>1, <2>3
    <2> QED  BY <2>2, <2>4
  <1>7. CASE in.type = "FAST_CDC"
    <2>1. PICK a, b : a = SubSeq(blk, loc + 1, Len(blk)) /\ b = SubSeq(f, o + 1, N)
      OBVIOUS
    <2>2. /\ a \in Seq(Byte) /\ Len(a) = len
          /\ \A n \in 1 .. len : a[n] = blk[loc + n]
      <3>1. PICK l : l = Len(blk)
        OBVIOUS
      <3>2. l \in Nat /\ loc <= l /\ l <= Len(blk) /\ l - loc = len
        BY <1>4, <1>6, <3>1
      <3>3. Piece(Byte, SubSeq(blk, loc + 1, l), blk, loc, l)
        BY <1>4, <1>a, <3>2, PieceSubSeq
      <3>4. a = SubSeq(blk, loc + 1, l)
        BY <2>1, <3>1
      <3> QED  BY <3>2, <3>3, <3>4 DEF Piece
    <2>3. /\ b \in Seq(Byte) /\ Len(b) = N - o
          /\ \A n \in 1 .. N - o : b[n] = f[o + n]
      <3>1. N <= Len(f)
        BY <1>0, <1>1
      <3>2. Piece(Byte, SubSeq(f, o + 1, N), f, o, N)
        BY <1>1, <1>6, <3>1, PieceSubSeq
      <3> QED  BY <2>1, <3>2 DEF Piece
    <2>4. ASSUME NEW n \in 1 .. len PROVE a[n] = b[n]
      <3>0. n \in Nat /\ 1 <= n /\ n <= len /\ tot \in Nat /\ loc \in Nat /\ top \in Nat /\ tot <= top
        BY <1>6, <1>a
      <3>1. loc + n \in 1 .. top - tot /\ tot + (loc + n) = o + n /\ n \in 1 .. N - o
        BY ONLY <1>1, <1>3, <1>5, <3>0
      <3>2. a[n] = blk[loc + n] /\ blk[loc + n] = f[tot + (loc + n)] /\ b[n] = f[o + n]
        BY <1>4, <2>2, <2>3, <3>1
      <3> QED  BY <3>1, <3>2
    <2>5. len >= maxChunkSize \/ (e /\ loc < Len(blk))
      BY <1>6, <1>7 DEF MoreIn
    <2>6. CutPoint(a) = CutPoint(b)
      <3>1. CASE len >= maxChunkSize
        <4>1. maxChunkSize <= Len(a) /\ maxChunkSize <= Len(b)
          <5>1. top \in Nat /\ tot \in Nat /\ loc \in Nat
            BY <1>a
          <5> QED  BY ONLY <1>1, <1>2, <1>3, <1>5, <1>6, <2>2, <2>3, <3>1, <5>1
        <4>2. \A n \in 1 .. maxChunkSize : a[n] = b[n]
          <5>1. \A n \in 1 .. maxChunkSize : n \in 1 .. len
            BY ONLY <1>2, <1>6, <3>1
          <5> QED  BY <2>4, <5>1
        <4> QED  BY <2>2, <2>3, <4>1, <4>2, CutAgree
      <3>2. CASE e
        <4>1. Len(b) = len
          BY <1>3, <1>5, <2>3, <3>2
        <4>2. \A n \in 1 .. len : a[n] = b[0 + n]
          BY <2>4
        <4>3. Piece(Byte, a, b, 0, Len(b))
          BY <1>6, <2>2, <4>1, <4>2 DEF Piece
        <4>4. a = b
          BY <2>3, <4>3, PieceAll
        <4> QED  BY <4>4
      <3> QED  BY <2>5, <3>1, <3>2
    <2>7. len # 0
      <3>1. PICK l : l = Len(blk)
        OBVIOUS
      <3>2. l - loc = len /\ l \in Nat /\ loc \in Nat /\ (len >= maxChunkSize \/ loc < l)
        <4>1. Len(blk) \in Nat /\ loc \in Nat
          BY <1>4, <1>a
        <4> QED  BY ONLY <1>6, <2>5, <3>1, <4>1
      <3> QED  BY ONLY <1>2, <1>6, <3>2
    <2>8. CutPoint(a) \in 1 .. len
      <3>1. CutPoint(a) \in 0 .. Len(a) /\ (Len(a) # 0 => CutPoint(a) # 0)
        BY <2>2, CutBounds
      <3> QED  BY <1>6, <2>2, <2>7, <3>1
    <2>9. SizeIn(in, loc, blk) = CutPoint(a) /\ SizeAt(in, o) = CutPoint(b)
      BY <1>0, <1>7, <2>1 DEF SizeIn, SizeAt
    <2> QED  BY <1>4, <1>5, <2>6, <2>8, <2>9 DEF SameCut
  <1>8. CASE in.type = "FIXED_SIZE_CHUNKING"
    <2>1. loc < Len(blk) /\ len > 0
      <3>1. loc < Len(blk)
        BY <1>8 DEF MoreIn
      <3>2. PICK l : l = Len(blk)
        OBVIOUS
      <3>3. l - loc = len /\ l \in Nat /\ loc \in Nat /\ loc < l
        <4>1. Len(blk) \in Nat /\ loc \in Nat
          BY <1>4, <1>a
        <4> QED  BY ONLY <1>6, <3>1, <3>2, <4>1
      <3>4. len > 0
        BY ONLY <3>3
      <3> QED  BY <3>1, <3>4
    <2>2. PICK q \in Nat : tot = q * readSize
      BY <1>8, <1>a
    <2>3. loc < readSize
      BY <1>2, <1>3, <1>4, <1>a, <2>1
    <2>4. o % readSize = loc
      BY <1>2, <1>5, <1>a, <2>2, <2>3, ModIs
    <2>5. Least(readSize - loc, N - o) = len
      <3>1. readSize - loc \in Int /\ N - o \in Int /\ readSize - loc >= len /\ N - o >= len
            /\ (readSize - loc = len \/ N - o = len)
        <4>1. top \in Nat /\ tot \in Nat /\ loc \in Nat
          BY <1>a
        <4> QED  BY ONLY <1>1, <1>2, <1>3, <1>5, <1>6, <4>1
      <3> QED  BY <3>1 DEF Least
    <2>6. SizeAt(in, o) = Least(avgChunkSize, len)
      <3>1. in.type # "FAST_CDC"
        BY <1>8
      <3>2. SizeAt(in, o) = Least(avgChunkSize, Least(readSize - (o % readSize), Len(in.file) - o))
        BY <3>1 DEF SizeAt
      <3> QED  BY <1>0, <2>4, <2>5, <3>2
    <2>7. SizeIn(in, loc, blk) = IF len > avgChunkSize THEN avgChunkSize ELSE len
      BY <1>6, <1>8 DEF SizeIn
    <2>8. SizeIn(in, loc, blk) = SizeAt(in, o) /\ SizeIn(in, loc, blk) \in 1 .. len
      BY <1>2, <1>6, <2>1, <2>6, <2>7 DEF Least
    <2> QED  BY <1>4, <1>5, <2>8 DEF SameCut
  <1> QED  BY <1>1, <1>7, <1>8

(* What the chunker does to a file. *)
LEMMA CutStep ==
    ASSUME NEW in \in FileInputs, NEW L, NEW R, FileOf(in, L, R), NEW k, NEW tot \in 0 .. Len(in.file),
           NEW loc \in Nat, NEW blk, NEW e, NEW size, Cutting(in, R, k, "cut", tot, loc, blk, e, size),
           MoreIn(in, loc, blk, e), NEW z, z = SizeIn(in, loc, blk)
    PROVE  /\ k + 1 \in 1 .. Len(R) /\ k \in Nat /\ SubSeq(blk, loc + 1, loc + z) = R[k + 1]
           /\ loc + z \in 0 .. readSize /\ size + z \in Nat
           /\ Cutting(in, R, k + 1, "cut", tot, loc + z, blk, e, size + z)
  <1>0. PICK f, N, top, o, c : /\ f = in.file /\ N = Len(f) /\ top = Least(tot + readSize, N)
                               /\ o = tot + loc /\ c = Cuts(in)
    OBVIOUS
  <1>1. f \in Seq(Byte) /\ N \in Nat /\ in.type \in {"FAST_CDC", "FIXED_SIZE_CHUNKING"} /\ readSize \in Nat
    BY <1>0, FileInput, ClientAssumption
  <1>2. tot \in Nat /\ tot <= N /\ in.type # "TRACE"
    BY <1>0, <1>1
  <1>3. top \in Nat /\ tot <= top /\ top <= N /\ top <= tot + readSize
    BY <1>0, <1>1, <1>2 DEF Least
  <1>4. /\ k \in 0 .. Len(R) /\ c[k] = o /\ size = o
        /\ in.type = "FIXED_SIZE_CHUNKING" => \E q \in Nat : tot = q * readSize
        /\ blk = SubSeq(f, tot + 1, top) /\ e = (tot + readSize > N) /\ loc <= top - tot
    BY <1>0, <1>2 DEF Cutting
  <1>5. /\ z = SizeAt(in, o) /\ z \in 1 .. top - o
        /\ blk \in Seq(Byte) /\ Len(blk) = top - tot
    <2>1. BlockIs(in, tot, loc, top, blk, e)
      BY <1>0, <1>2, <1>3, <1>4 DEF BlockIs
    <2>2. SameCut(in, tot, loc, top, blk, z)
      BY <2>1, CutSame
    <2> QED  BY <1>0, <2>2 DEF SameCut
  <1>6. /\ L = Len(R) /\ L \in 0 .. N /\ (k \in 0 .. N => (k < L <=> c[k] < N))
        /\ \A n \in 1 .. L : R[n] = SubSeq(f, c[n - 1] + 1, c[n])
    BY <1>0 DEF FileOf
  <1>7. z \in Nat /\ 1 <= z /\ o \in Nat /\ o + z <= top /\ o < N /\ loc + z <= top - tot
    BY <1>0, <1>1, <1>2, <1>3, <1>5
  <1>8. k \in Nat /\ k + 1 \in 1 .. L /\ k + 1 \in 1 .. N /\ (k + 1) - 1 = k
    <2>1. k \in Nat /\ k \in 0 .. N
      BY <1>1, <1>4, <1>6
    <2>2. k < L
      BY <1>4, <1>6, <1>7, <2>1
    <2> QED  BY <1>1, <1>6, <2>1, <2>2
  <1>9. c[k + 1] = o + z
    <2>1. c[k + 1] = NextCut(in, c[(k + 1) - 1])
      BY <1>0, <1>8, CutsAre
    <2>2. c[k + 1] = NextCut(in, o)
      BY <1>4, <1>8, <2>1
    <2> QED  BY <1>5, <2>2 DEF NextCut
  <1>10. SubSeq(blk, loc + 1, loc + z) = R[k + 1]
    <2>1. R[k + 1] = SubSeq(f, c[(k + 1) - 1] + 1, c[k + 1])
      BY <1>6, <1>8
    <2>2. R[k + 1] = SubSeq(f, o + 1, o + z)
      BY <1>4, <1>8, <1>9, <2>1
    <2>3. PICK j, i, s, t : j = loc + z /\ i = o + z /\ s = SubSeq(blk, loc + 1, j) /\ t = SubSeq(f, o + 1, i)
      OBVIOUS
    <2>4. j \in Nat /\ i \in Nat /\ loc <= j /\ j <= Len(blk) /\ o <= i /\ i <= Len(f)
      <3>1. Len(blk) = top - tot /\ Len(f) = N /\ loc \in Nat
        BY <1>0, <1>5
      <3> QED  BY ONLY <1>1, <1>2, <1>3, <1>7, <2>3, <3>1
    <2>5. Piece(Byte, s, blk, loc, j)
      BY <1>5, <2>3, <2>4, PieceSubSeq
    <2>6. Piece(Byte, t, f, o, i)
      BY <1>1, <1>7, <2>3, <2>4, PieceSubSeq
    <2>7. Piece(Byte, blk, f, tot, top)
      BY <1>0, <1>1, <1>2, <1>3, <1>4, PieceSubSeq
    <2>8. s \in Seq(Byte) /\ Len(s) = z /\ t \in Seq(Byte) /\ Len(t) = z
      <3>1. s \in Seq(Byte) /\ Len(s) = j - loc /\ t \in Seq(Byte) /\ Len(t) = i - o
        BY <2>5, <2>6 DEF Piece
      <3>2. j - loc = z /\ i - o = z
        BY ONLY <1>7, <2>3, loc \in Nat
      <3> QED  BY <3>1, <3>2
    <2>9. ASSUME NEW n \in 1 .. z PROVE s[n] = t[0 + n]
      <3>1. loc + n \in 1 .. Len(blk) /\ tot + (loc + n) = o + n /\ 0 + n = n
        <4>1. n \in Nat /\ 1 <= n /\ n <= z
          BY <1>7
        <4> QED  BY ONLY <1>0, <1>2, <1>3, <1>5, <1>7, <4>1, loc \in Nat
      <3>2. s[n] = blk[loc + n]
        BY <2>5, <2>8 DEF Piece
      <3>3. blk[loc + n] = f[tot + (loc + n)]
        BY <2>7, <3>1 DEF Piece
      <3>4. t[n] = f[o + n]
        BY <2>6, <2>8 DEF Piece
      <3> QED  BY <3>1, <3>2, <3>3, <3>4
    <2>10. Piece(Byte, s, t, 0, Len(t))
      BY <1>7, <2>8, <2>9 DEF Piece
    <2>11. s = t
      BY <2>8, <2>10, PieceAll
    <2> QED  BY <2>2, <2>3, <2>11
  <1>11. loc + z \in 0 .. readSize /\ size + z \in Nat /\ size + z = tot + (loc + z)
    <2>1. o = tot + loc /\ size = o
      BY <1>0, <1>4
    <2> QED  BY ONLY <2>1, <1>1, <1>2, <1>3, <1>7, loc \in Nat
  <1>12. Cutting(in, R, k + 1, "cut", tot, loc + z, blk, e, size + z)
    <2>1. k + 1 \in 0 .. Len(R)
      BY <1>6, <1>8
    <2>2. Cuts(in)[k + 1] = tot + (loc + z) /\ size + z = tot + (loc + z)
      BY <1>0, <1>2, <1>4, <1>7, <1>9, <1>11
    <2>3. /\ blk = SubSeq(in.file, tot + 1, Least(tot + readSize, Len(in.file)))
          /\ e = (tot + readSize > Len(in.file)) /\ loc + z <= Least(tot + readSize, Len(in.file)) - tot
      BY <1>0, <1>4, <1>7
    <2>4. in.type # "TRACE" /\ (in.type = "FIXED_SIZE_CHUNKING" => \E q \in Nat : tot = q * readSize)
      BY <1>2, <1>4
    <2> QED  BY <2>1, <2>2, <2>3, <2>4 DEF Cutting
  <1> QED  BY <1>6, <1>8, <1>10, <1>11, <1>12

(* A block is cut to its end, or to what FastCDC has to read again. *)
LEMMA BlockStep ==
    ASSUME NEW in \in FileInputs, NEW L, NEW R, FileOf(in, L, R), NEW k, NEW tot \in 0 .. Len(in.file),
           NEW loc \in Nat, NEW blk, NEW e, NEW size, Cutting(in, R, k, "cut", tot, loc, blk, e, size),
           ~MoreIn(in, loc, blk, e)
    PROVE  /\ tot + loc \in 0 .. Len(in.file)
           /\ Cutting(in, R, k, IF e THEN "recipe" ELSE "read", tot + loc, loc, blk, e, size)
  <1>0. PICK f, N, top, o, c : /\ f = in.file /\ N = Len(f) /\ top = Least(tot + readSize, N)
                               /\ o = tot + loc /\ c = Cuts(in)
    OBVIOUS
  <1>1. f \in Seq(Byte) /\ N \in Nat /\ in.type \in {"FAST_CDC", "FIXED_SIZE_CHUNKING"} /\ readSize \in Nat
    BY <1>0, FileInput, ClientAssumption
  <1>2. tot \in Nat /\ tot <= N /\ in.type # "TRACE" /\ loc \in Nat
    BY <1>0, <1>1
  <1>3. /\ top \in Nat /\ tot <= top /\ top <= N /\ top <= tot + readSize
        /\ tot + readSize > N => top = N
        /\ ~(tot + readSize > N) => top = tot + readSize
    BY <1>0, <1>1, <1>2 DEF Least
  <1>4. /\ k \in 0 .. Len(R) /\ c[k] = o /\ size = o
        /\ in.type = "FIXED_SIZE_CHUNKING" => \E q \in Nat : tot = q * readSize
        /\ blk = SubSeq(f, tot + 1, top) /\ e = (tot + readSize > N) /\ loc <= top - tot
    BY <1>0, <1>2 DEF Cutting
  <1>5. Len(blk) = top - tot
    <2>1. Piece(Byte, blk, f, tot, top)
      BY <1>0, <1>1, <1>2, <1>3, <1>4, PieceSubSeq
    <2> QED  BY <2>1 DEF Piece
  <1>6. /\ L = Len(R) /\ L \in 0 .. N /\ (k \in 0 .. N => (k < L <=> c[k] < N))
    BY <1>0 DEF FileOf
  <1>7. o \in 0 .. N
    BY ONLY <1>0, <1>1, <1>2, <1>3, <1>4
  <1>8. CASE e
    <2>1. top = N
      BY <1>3, <1>4, <1>8
    <2>2. ~(loc < Len(blk))
      BY <1>1, <1>8 DEF MoreIn
    <2>3. o = N
      <3>1. ~(loc < top - tot) /\ loc <= top - tot
        BY <1>4, <1>5, <2>2
      <3> QED  BY ONLY <1>0, <1>1, <1>2, <1>3, <2>1, <3>1
    <2>4. k = Len(R)
      <3>1. k \in 0 .. N /\ k \in Nat /\ L \in Nat /\ k <= L
        BY <1>1, <1>4, <1>6
      <3>2. ~(k < L)
        BY <1>1, <1>4, <1>6, <2>3, <3>1
      <3> QED  BY <1>6, <3>1, <3>2
    <2>5. size = Len(in.file)
      BY <1>0, <1>4, <2>3
    <2>6. Cutting(in, R, k, "recipe", tot + loc, loc, blk, e, size)
      BY <1>4, <2>4, <2>5 DEF Cutting
    <2> QED  BY <1>0, <1>7, <1>8, <2>6
  <1>9. CASE ~e
    <2>1. top = tot + readSize
      BY <1>3, <1>4, <1>9
    <2>2. ASSUME in.type = "FIXED_SIZE_CHUNKING" PROVE \E q \in Nat : tot + loc = q * readSize
      <3>1. PICK q \in Nat : tot = q * readSize
        BY <1>4, <2>2
      <3>2. ~(loc < top - tot) /\ loc <= top - tot
        BY <1>4, <1>5, <2>2 DEF MoreIn
      <3>3. loc = readSize
        BY ONLY <1>1, <1>2, <1>3, <2>1, <3>2
      <3>4. tot + loc = (q + 1) * readSize /\ q + 1 \in Nat
        BY ONLY <1>1, <3>1, <3>3, q \in Nat
      <3> QED  BY <3>4
    <2>3. Cuts(in)[k] = tot + loc /\ size = tot + loc
      BY <1>0, <1>4
    <2>4. Cutting(in, R, k, "read", tot + loc, loc, blk, e, size)
      BY <1>2, <1>4, <2>2, <2>3 DEF Cutting
    <2> QED  BY <1>0, <1>7, <1>9, <2>4
  <1>10. e \in BOOLEAN
    BY <1>4
  <1> QED  BY <1>8, <1>9

LEMMA ReadStep ==
    ASSUME NEW in \in FileInputs, NEW L, NEW R, FileOf(in, L, R), NEW k, NEW tot \in 0 .. Len(in.file),
           NEW loc, NEW blk, NEW e, NEW size, Cutting(in, R, k, "read", tot, loc, blk, e, size),
           NEW b, b = SubSeq(in.file, tot + 1, Least(tot + readSize, Len(in.file))),
           NEW h, h = (tot + readSize > Len(in.file))
    PROVE  Cutting(in, R, k, IF b = <<>> THEN "recipe" ELSE "cut", tot, 0, b, h, size)
  <1>0. PICK f, N, top, c : /\ f = in.file /\ N = Len(f) /\ top = Least(tot + readSize, N) /\ c = Cuts(in)
    OBVIOUS
  <1>1. /\ f \in Seq(Byte) /\ N \in Nat /\ in.type \in {"FAST_CDC", "FIXED_SIZE_CHUNKING"}
        /\ readSize \in Nat /\ readSize > 0
    BY <1>0, FileInput, ClientAssumption
  <1>2. tot \in Nat /\ tot <= N /\ in.type # "TRACE"
    BY <1>0, <1>1
  <1>3. /\ top \in Nat /\ tot <= top /\ top <= N /\ (top = tot => tot = N)
    BY <1>0, <1>1, <1>2 DEF Least
  <1>4. /\ k \in 0 .. Len(R) /\ c[k] = tot /\ size = tot
        /\ in.type = "FIXED_SIZE_CHUNKING" => \E q \in Nat : tot = q * readSize
    BY <1>0, <1>2 DEF Cutting
  <1>5. Piece(Byte, b, f, tot, top)
    BY <1>0, <1>1, <1>2, <1>3, PieceSubSeq
  <1>6. /\ L = Len(R) /\ L \in 0 .. N /\ (k \in 0 .. N => (k < L <=> c[k] < N))
    BY <1>0 DEF FileOf
  <1>7. CASE b = <<>>
    <2>1. tot = N
      <3>1. Len(b) = top - tot
        BY <1>5 DEF Piece
      <3>2. Len(b) = 0
        BY ONLY <1>7
      <3> QED  BY ONLY <1>2, <1>3, <3>1, <3>2
    <2>2. k = Len(R)
      <3>1. k \in 0 .. N /\ k \in Nat /\ L \in Nat /\ k <= L
        BY <1>1, <1>4, <1>6
      <3>2. ~(k < L)
        BY <1>1, <1>4, <1>6, <2>1, <3>1
      <3> QED  BY <1>6, <3>1, <3>2
    <2>3. size = Len(in.file)
      BY <1>0, <1>4, <2>1
    <2>4. Cutting(in, R, k, "recipe", tot, 0, b, h, size)
      BY <1>4, <2>2, <2>3 DEF Cutting
    <2> QED  BY <1>7, <2>4
  <1>8. CASE b # <<>>
    <2>1. Cuts(in)[k] = tot + 0 /\ size = tot + 0
      BY <1>0, <1>2, <1>4
    <2>2. 0 <= Least(tot + readSize, Len(in.file)) - tot
      BY <1>0, <1>2, <1>3
    <2>3. Cutting(in, R, k, "cut", tot, 0, b, h, size)
      BY <1>2, <1>4, <2>1, <2>2 DEF Cutting
    <2> QED  BY <1>8, <2>3
  <1> QED  BY <1>7, <1>8

(* A line of a trace. *)
LEMMA LineStep ==
    ASSUME NEW in \in TraceInputs, NEW L, NEW R, TraceOf(in, L, R), NEW k, NEW tot,
           NEW loc, NEW blk, NEW e, NEW size, NEW size2, Cutting(in, R, k, "read", tot, loc, blk, e, size),
           NEW counts, counts = (/\ tot < Len(in.file) /\ in.file[tot + 1] # EmptyLine
                                 /\ tot + 1 = Len(in.file) => in.newline)
    PROVE  /\ counts => /\ tot + 1 \in 0 .. Len(in.file) /\ k + 1 \in 1 .. Len(R)
                        /\ R[k + 1] = <<in.file[tot + 1], Least(LineSize[in.file[tot + 1]], maxChunkSize)>>
                        /\ Cutting(in, R, k + 1, "read", tot + 1, loc, blk, e, size2)
           /\ ~counts => Cutting(in, R, k, "recipe", tot, loc, blk, e, size)
  <1>0. PICK N : N = Len(in.file)
    OBVIOUS
  <1>1. N \in Nat /\ in.type = "TRACE"
    BY <1>0, TraceInput DEF TraceInputs
  <1>2. k \in 0 .. Len(R) /\ tot = k
    BY <1>1 DEF Cutting
  <1>3. /\ L = Len(R) /\ L \in 0 .. N /\ (k \in 0 .. L => (k < L <=> counts))
        /\ \A n \in 1 .. L : R[n] = <<in.file[n], Least(LineSize[in.file[n]], maxChunkSize)>>
    BY <1>0, <1>2 DEF TraceOf
  <1>4. k \in Nat /\ L \in Nat /\ k <= L /\ (k < L <=> counts)
    BY <1>1, <1>2, <1>3
  <1>5. ASSUME counts
        PROVE  /\ tot + 1 \in 0 .. N /\ k + 1 \in 1 .. L /\ k + 1 \in 0 .. L
               /\ R[k + 1] = <<in.file[tot + 1], Least(LineSize[in.file[tot + 1]], maxChunkSize)>>
    <2>1. k + 1 \in 1 .. L /\ k + 1 \in 0 .. L /\ k + 1 \in 0 .. N
      <3>1. L \in 0 .. N /\ k < L
        BY <1>3, <1>4, <1>5
      <3> QED  BY ONLY <1>1, <1>4, <3>1
    <2> QED  BY <1>2, <1>3, <2>1
  <1>6. ASSUME counts PROVE Cutting(in, R, k + 1, "read", tot + 1, loc, blk, e, size2)
    BY <1>1, <1>2, <1>3, <1>5, <1>6 DEF Cutting
  <1>7. ASSUME ~counts PROVE Cutting(in, R, k, "recipe", tot, loc, blk, e, size)
    <2>1. k = Len(R)
      BY <1>3, <1>4, <1>7
    <2> QED  BY <1>1, <1>2, <2>1 DEF Cutting
  <1> QED  BY <1>0, <1>3, <1>5, <1>6, <1>7
-----------------------------------------------------------------------------
(* The invariant is inductive. *)

LEMMA InputIs ==
    ASSUME input \in Inputs
    PROVE  /\ Len(input.file) \in Nat /\ Reference \in Seq(Chunks) /\ Len(Reference) \in Nat
           /\ Trace => input \in TraceInputs
           /\ ~Trace => input \in FileInputs
  <1>1. Reference \in Seq(Chunks)
    BY RefIs
  <1>2. CASE Trace
    <2>1. input \in TraceInputs
      BY <1>2 DEF Trace, TraceInputs
    <2> QED  BY <1>1, <1>2, <2>1, TraceInput
  <1>3. CASE ~Trace
    <2>1. input \in FileInputs
      BY <1>3 DEF Trace, FileInputs
    <2> QED  BY <1>1, <1>3, <2>1, FileInput
  <1> QED  BY <1>2, <1>3

LEMMA InitInv == Init => Inv
  <1> SUFFICES ASSUME Init PROVE Inv
    OBVIOUS
  <1>1. input \in Inputs
    BY DEF Init
  <1>2. PICK R, N : R = Reference /\ N = Len(input.file)
    OBVIOUS
  <1>3. /\ N \in Nat /\ R \in Seq(Chunks) /\ Len(R) \in Nat
        /\ Trace => input \in TraceInputs
        /\ ~Trace => input \in FileInputs
    BY <1>1, <1>2, InputIs
  <1>4. Types
    <2>1. /\ chunker = "read" /\ totalOffset = 0 /\ localOffset = 0 /\ end = FALSE /\ chunkIDCnt = 0
          /\ fileSize = 0 /\ outputMQ = <<>> /\ done = FALSE /\ sender = "check" /\ jobDone = FALSE
          /\ sendChunkBuf = <<>> /\ sent = <<>>
      BY DEF Init
    <2>2. readSize \in Nat /\ SendChunkBatchSize \in Nat \ {0} /\ QueueSize \in Nat
      BY ClientAssumption
    <2>3. 0 \in 0 .. Len(input.file) /\ 0 \in 0 .. readSize
      BY <1>2, <1>3, <2>2
    <2>4. /\ outputMQ \in Seq(Elements) /\ Len(outputMQ) <= QueueSize
          /\ sendChunkBuf \in Seq(Chunks) /\ Len(sendChunkBuf) < SendChunkBatchSize
          /\ sent \in Seq(Messages)
      BY <2>1, <2>2
    <2> QED  BY <1>1, <2>1, <2>3, <2>4 DEF Types
  <1>5. Cutting(input, R, 0, "read", 0, 0, <<>>, FALSE, 0)
    <2>1. 0 \in 0 .. Len(R)
      BY <1>3
    <2>2. input.type # "TRACE" => Cuts(input)[0] = 0
      BY <1>3, CutsAre DEF Trace
    <2>3. \E q \in Nat : 0 = q * readSize
      <3>1. 0 = 0 * readSize
        BY ClientAssumption
      <3> QED  BY <3>1
    <2> QED  BY <2>1, <2>2, <2>3 DEF Cutting
  <1>6. ASSUME NEW F PROVE CarriedTo(R, F, 0, "read", <<>>, <<>>, <<>>, FALSE, 0, 0)
    <2>1. Len(<<>>) = 0 /\ 1 .. 0 = {} /\ 0 + 0 = 0 /\ <<>> \in Seq(Messages)
      OBVIOUS
    <2>2. SentIs(R, <<>>, 0)
      <3>1. PICK at : at = [n \in {0} |-> 0]
        OBVIOUS
      <3>2. at[0] = 0
        BY <3>1
      <3> QED  BY <2>1, <3>2 DEF SentIs
    <2>3. Piece(Chunks, <<>>, R, 0, 0)
      BY PieceEmpty
    <2>4. QueueIs(R, F, 0, <<>>, 0)
      BY <1>3, <2>1 DEF QueueIs
    <2>5. EndIs(R, F, <<>>, <<>>, <<>>, 0) /\ FullIs(<<>>, FALSE)
      BY <2>1 DEF EndIs, FullIs
    <2> QED  BY <2>1, <2>2, <2>3, <2>4, <2>5 DEF CarriedTo
  <1>7. Carried(R, Sizes, 0, "read", <<>>, <<>>, <<>>, FALSE)
    BY <1>6 DEF Carried
  <1>8. Cutting(input, Reference, chunkIDCnt, chunker, totalOffset, localOffset, block, end, fileSize)
    BY <1>2, <1>5 DEF Init
  <1>9. Carried(Reference, Sizes, chunkIDCnt, chunker, outputMQ, sendChunkBuf, sent, sender = "exit")
    <2>1. (sender = "exit") = FALSE
      BY DEF Init
    <2> QED  BY <1>2, <1>7, <2>1 DEF Init
  <1> QED  BY <1>4, <1>8, <1>9 DEF Inv

(* What the step lemmas start from. *)
LEMMA Holds ==
    ASSUME Inv
    PROVE  /\ Types /\ input \in Inputs
           /\ Cutting(input, Reference, chunkIDCnt, chunker, totalOffset, localOffset, block, end, fileSize)
           /\ Carried(Reference, Sizes, chunkIDCnt, chunker, outputMQ, sendChunkBuf, sent, sender = "exit")
  BY DEF Inv, Types

LEMMA ReadBlockInv == ASSUME Inv, ReadBlock PROVE Inv'
  <1>1. /\ Types /\ input \in Inputs /\ chunker = "read" /\ ~Trace
        /\ totalOffset \in 0 .. Len(input.file) /\ sender # "exit"
    BY Holds DEF ReadBlock, Types
  <1>2. input \in FileInputs
    BY <1>1, InputIs
  <1>3. PICK L : FileOf(input, L, Reference)
    BY <1>1, RefIs
  <1>4. PICK b, h : b = block' /\ h = end'
    OBVIOUS
  <1>5. /\ b = SubSeq(input.file, totalOffset + 1, Least(totalOffset + readSize, Len(input.file)))
        /\ h = (totalOffset + readSize > Len(input.file))
        /\ chunker' = IF b = <<>> THEN "recipe" ELSE "cut"
    BY <1>4 DEF ReadBlock, AtEnd
  <1>6. Cutting(input, Reference, chunkIDCnt, "read", totalOffset, localOffset, block, end, fileSize)
    BY <1>1, Holds
  <1>7. Cutting(input, Reference, chunkIDCnt, chunker', totalOffset, 0, b, h, fileSize)
    BY <1>1, <1>2, <1>3, <1>5, <1>6, ReadStep
  <1>8. Carried(Reference, Sizes, chunkIDCnt, "read", outputMQ, sendChunkBuf, sent, sender = "exit")
    BY <1>1, Holds
  <1>9. Carried(Reference, Sizes, chunkIDCnt, chunker', outputMQ, sendChunkBuf, sent, sender = "exit")
    <2>1. chunker' \in {"recipe", "cut"}
      BY <1>5
    <2> QED  BY <1>8, <2>1, CarryPlace
  <1>10. /\ input' = input /\ chunkIDCnt' = chunkIDCnt /\ totalOffset' = totalOffset /\ localOffset' = 0
         /\ fileSize' = fileSize /\ outputMQ' = outputMQ /\ sendChunkBuf' = sendChunkBuf /\ sent' = sent
         /\ sender' = sender /\ done' = done /\ jobDone' = jobDone
    BY DEF ReadBlock, senderVars
  <1>11. Types'
    <2>1. chunker' \in {"recipe", "cut"} /\ end' \in BOOLEAN /\ 0 \in 0 .. readSize
      BY <1>4, <1>5, ClientAssumption
    <2> QED  BY <1>1, <1>10, <2>1 DEF Types
  <1>12. Reference' = Reference /\ Sizes' = Sizes
    BY <1>10, RefSame
  <1>13. Cutting(input', Reference', chunkIDCnt', chunker', totalOffset', localOffset', block', end', fileSize')
    BY <1>4, <1>7, <1>10, <1>12
  <1>14. Carried(Reference', Sizes', chunkIDCnt', chunker', outputMQ', sendChunkBuf', sent', sender' = "exit")
    BY <1>9, <1>10, <1>12
  <1> QED  BY <1>11, <1>13, <1>14 DEF Inv

LEMMA CutChunkInv == ASSUME Inv, CutChunk PROVE Inv'
  <1>1. /\ Types /\ input \in Inputs /\ chunker = "cut" /\ sender # "exit" /\ outputMQ \in Seq(Elements)
        /\ totalOffset \in 0 .. Len(input.file) /\ localOffset \in Nat /\ Len(outputMQ) < QueueSize
    BY Holds, ClientAssumption DEF CutChunk, Push, Types
  <1>2. Cutting(input, Reference, chunkIDCnt, "cut", totalOffset, localOffset, block, end, fileSize)
    BY <1>1, Holds
  <1>3. ~Trace
    BY <1>2 DEF Cutting, Trace
  <1>4. input \in FileInputs /\ Reference \in Seq(Chunks)
    BY <1>1, <1>3, InputIs
  <1>5. PICK L : FileOf(input, L, Reference)
    BY <1>1, <1>3, RefIs
  <1>6. PICK z, k, R : z = CutSize /\ k = chunkIDCnt /\ R = Reference
    OBVIOUS
  <1>7. MoreIn(input, localOffset, block, end) /\ z = SizeIn(input, localOffset, block)
    BY <1>6 DEF CutChunk, MoreInBlock, MoreIn, SizeIn, CutSize, Remaining
  <1>8. /\ k + 1 \in 1 .. Len(R) /\ k \in Nat
        /\ SubSeq(block, localOffset + 1, localOffset + z) = R[k + 1]
        /\ localOffset + z \in 0 .. readSize /\ fileSize + z \in Nat
        /\ Cutting(input, R, k + 1, "cut", totalOffset, localOffset + z, block, end, fileSize + z)
    BY <1>1, <1>2, <1>4, <1>5, <1>6, <1>7, CutStep
  <1>9. R[k + 1] \in Chunks
    BY <1>4, <1>6, <1>8
  <1>10. PICK d, e : CarriedTo(R, Sizes, k, "cut", outputMQ, sendChunkBuf, sent, sender = "exit", d, e)
    BY <1>1, <1>6, Holds DEF Carried
  <1>11. PICK q : q = Append(outputMQ, Data(R[k + 1]))
    OBVIOUS
  <1>12. q \in Seq(Elements) /\ CarriedTo(R, Sizes, k + 1, "cut", q, sendChunkBuf, sent, sender = "exit", d, e)
    BY <1>1, <1>8, <1>9, <1>10, <1>11, CarryChunk
  <1>13. Len(q) <= QueueSize
    <2>1. Len(q) = Len(outputMQ) + 1 /\ Len(outputMQ) \in Nat
      BY <1>1, <1>11
    <2> QED  BY <1>1, <2>1, ClientAssumption
  <1>14. outputMQ' = q
    BY <1>6, <1>8, <1>11 DEF CutChunk, Push, Data
  <1>15. /\ input' = input /\ chunkIDCnt' = k + 1 /\ totalOffset' = totalOffset
         /\ localOffset' = localOffset + z /\ fileSize' = fileSize + z /\ chunker' = "cut"
         /\ sendChunkBuf' = sendChunkBuf /\ sent' = sent /\ block' = block /\ end' = end
         /\ sender' = sender /\ done' = done /\ jobDone' = jobDone
    BY <1>1, <1>6 DEF CutChunk, senderVars
  <1>16. Types'
    <2>1. k + 1 \in Nat
      BY <1>8
    <2> QED  BY <1>1, <1>8, <1>12, <1>13, <1>14, <1>15, <2>1 DEF Types
  <1>17. Reference' = R /\ Sizes' = Sizes
    BY <1>6, <1>15, RefSame
  <1>18. Cutting(input', Reference', chunkIDCnt', chunker', totalOffset', localOffset', block', end', fileSize')
    BY <1>8, <1>15, <1>17
  <1>19. Carried(Reference', Sizes', chunkIDCnt', chunker', outputMQ', sendChunkBuf', sent', sender' = "exit")
    <2>1. Carried(R, Sizes, k + 1, "cut", q, sendChunkBuf, sent, sender = "exit")
      BY <1>12 DEF Carried
    <2> QED  BY <1>14, <1>15, <1>17, <2>1
  <1> QED  BY <1>16, <1>18, <1>19 DEF Inv

LEMMA NextBlockInv == ASSUME Inv, NextBlock PROVE Inv'
  <1>1. /\ Types /\ input \in Inputs /\ chunker = "cut" /\ sender # "exit" /\ end \in BOOLEAN
        /\ totalOffset \in 0 .. Len(input.file) /\ localOffset \in Nat
    BY Holds, ClientAssumption DEF NextBlock, Types
  <1>2. Cutting(input, Reference, chunkIDCnt, "cut", totalOffset, localOffset, block, end, fileSize)
    BY <1>1, Holds
  <1>3. ~Trace
    BY <1>2 DEF Cutting, Trace
  <1>4. input \in FileInputs
    BY <1>1, <1>3, InputIs
  <1>5. PICK L : FileOf(input, L, Reference)
    BY <1>1, <1>3, RefIs
  <1>6. ~MoreIn(input, localOffset, block, end)
    BY DEF NextBlock, MoreInBlock, MoreIn, Remaining
  <1>7. /\ input' = input /\ chunkIDCnt' = chunkIDCnt /\ totalOffset' = totalOffset + localOffset
        /\ localOffset' = localOffset /\ fileSize' = fileSize /\ outputMQ' = outputMQ
        /\ chunker' = IF end THEN "recipe" ELSE "read"
        /\ sendChunkBuf' = sendChunkBuf /\ sent' = sent /\ block' = block /\ end' = end
        /\ sender' = sender /\ done' = done /\ jobDone' = jobDone
    BY DEF NextBlock, senderVars
  <1>8. /\ totalOffset' \in 0 .. Len(input.file)
        /\ Cutting(input, Reference, chunkIDCnt, chunker', totalOffset', localOffset, block, end, fileSize)
    BY <1>1, <1>2, <1>4, <1>5, <1>6, <1>7, BlockStep
  <1>9. chunker' \in {"read", "recipe"}
    BY <1>7
  <1>10. Carried(Reference, Sizes, chunkIDCnt, "cut", outputMQ, sendChunkBuf, sent, sender = "exit")
    BY <1>1, Holds
  <1>11. Carried(Reference, Sizes, chunkIDCnt, chunker', outputMQ, sendChunkBuf, sent, sender = "exit")
    BY <1>9, <1>10, CarryPlace
  <1>12. Types'
    BY <1>1, <1>7, <1>8, <1>9 DEF Types
  <1>13. Reference' = Reference /\ Sizes' = Sizes
    BY <1>7, RefSame
  <1>14. Cutting(input', Reference', chunkIDCnt', chunker', totalOffset', localOffset', block', end', fileSize')
    BY <1>7, <1>8, <1>13
  <1>15. Carried(Reference', Sizes', chunkIDCnt', chunker', outputMQ', sendChunkBuf', sent', sender' = "exit")
    BY <1>7, <1>11, <1>13
  <1> QED  BY <1>12, <1>14, <1>15 DEF Inv

LEMMA TraceChunkInv == ASSUME Inv, TraceChunk PROVE Inv'
  <1>1. /\ Types /\ input \in Inputs /\ chunker = "read" /\ Trace /\ sender # "exit"
        /\ outputMQ \in Seq(Elements) /\ Len(outputMQ) < QueueSize
        /\ totalOffset \in 0 .. Len(input.file) /\ fileSize \in Nat
    BY Holds DEF TraceChunk, Push, Types
  <1>2. Cutting(input, Reference, chunkIDCnt, "read", totalOffset, localOffset, block, end, fileSize)
    BY <1>1, Holds
  <1>3. input \in TraceInputs /\ Reference \in Seq(Chunks)
    BY <1>1, InputIs
  <1>4. PICK L : TraceOf(input, L, Reference)
    BY <1>1, RefIs
  <1>5. PICK z, k, R : z = fileSize' /\ k = chunkIDCnt /\ R = Reference
    OBVIOUS
  <1>6. /\ totalOffset < Len(input.file) /\ input.file[totalOffset + 1] # EmptyLine
        /\ totalOffset + 1 = Len(input.file) => input.newline
    BY DEF TraceChunk, LineCounts, Line
  <1>7. /\ totalOffset + 1 \in 0 .. Len(input.file) /\ k + 1 \in 1 .. Len(R)
        /\ R[k + 1] = <<input.file[totalOffset + 1], Least(LineSize[input.file[totalOffset + 1]], maxChunkSize)>>
        /\ Cutting(input, R, k + 1, "read", totalOffset + 1, localOffset, block, end, z)
    BY <1>2, <1>3, <1>4, <1>5, <1>6, LineStep
  <1>8. R[k + 1] \in Chunks
    BY <1>3, <1>5, <1>7
  <1>9. PICK d, e : CarriedTo(R, Sizes, k, "read", outputMQ, sendChunkBuf, sent, sender = "exit", d, e)
    BY <1>1, <1>5, Holds DEF Carried
  <1>10. PICK q : q = Append(outputMQ, Data(R[k + 1]))
    OBVIOUS
  <1>11. q \in Seq(Elements) /\ CarriedTo(R, Sizes, k + 1, "read", q, sendChunkBuf, sent, sender = "exit", d, e)
    BY <1>1, <1>7, <1>8, <1>9, <1>10, CarryChunk
  <1>12. Len(q) <= QueueSize
    <2>1. Len(q) = Len(outputMQ) + 1 /\ Len(outputMQ) \in Nat
      BY <1>1, <1>10
    <2> QED  BY <1>1, <2>1, ClientAssumption
  <1>13. outputMQ' = q
    BY <1>5, <1>7, <1>10 DEF TraceChunk, Push, Data, Line, TraceSize
  <1>14. /\ input' = input /\ chunkIDCnt' = k + 1 /\ totalOffset' = totalOffset + 1
         /\ localOffset' = localOffset /\ fileSize' = z /\ chunker' = "read"
         /\ sendChunkBuf' = sendChunkBuf /\ sent' = sent /\ block' = block /\ end' = end
         /\ sender' = sender /\ done' = done /\ jobDone' = jobDone
    BY <1>1, <1>5 DEF TraceChunk, senderVars
  <1>15. z \in Nat
    <2>1. PICK l : l = input.file[totalOffset + 1]
      OBVIOUS
    <2>2. l \in DOMAIN LineSize
      <3>1. input.file \in Seq(Lines) /\ totalOffset + 1 \in 1 .. Len(input.file)
        BY <1>1, <1>3, <1>6, TraceInput
      <3>2. input.file[totalOffset + 1] \in Lines
        BY <3>1
      <3> QED  BY <1>6, <2>1, <3>2 DEF Lines
    <2>3. LineSize[l] \in Nat /\ maxChunkSize \in Nat
      BY <2>2, ClientAssumption
    <2>4. z = fileSize + Least(LineSize[l], maxChunkSize)
      BY <1>5, <2>1 DEF TraceChunk, TraceSize, Line
    <2> QED  BY <1>1, <2>3, <2>4 DEF Least
  <1>16. Types'
    <2>1. k + 1 \in Nat
      <3>1. k \in Nat
        BY <1>1, <1>5 DEF Types
      <3> QED  BY <3>1
    <2> QED  BY <1>1, <1>7, <1>11, <1>12, <1>13, <1>14, <1>15, <2>1 DEF Types
  <1>17. Reference' = R /\ Sizes' = Sizes
    BY <1>5, <1>14, RefSame
  <1>18. Cutting(input', Reference', chunkIDCnt', chunker', totalOffset', localOffset', block', end', fileSize')
    BY <1>7, <1>14, <1>17
  <1>19. Carried(Reference', Sizes', chunkIDCnt', chunker', outputMQ', sendChunkBuf', sent', sender' = "exit")
    <2>1. Carried(R, Sizes, k + 1, "read", q, sendChunkBuf, sent, sender = "exit")
      BY <1>11 DEF Carried
    <2> QED  BY <1>13, <1>14, <1>17, <2>1
  <1> QED  BY <1>16, <1>18, <1>19 DEF Inv

LEMMA TraceEndInv == ASSUME Inv, TraceEnd PROVE Inv'
  <1>1. Types /\ input \in Inputs /\ chunker = "read" /\ Trace /\ sender # "exit"
    BY Holds DEF TraceEnd, Types
  <1>2. Cutting(input, Reference, chunkIDCnt, "read", totalOffset, localOffset, block, end, fileSize)
    BY <1>1, Holds
  <1>3. input \in TraceInputs
    BY <1>1, InputIs
  <1>4. PICK L : TraceOf(input, L, Reference)
    BY <1>1, RefIs
  <1>5. ~(/\ totalOffset < Len(input.file) /\ input.file[totalOffset + 1] # EmptyLine
          /\ totalOffset + 1 = Len(input.file) => input.newline)
    BY DEF TraceEnd, LineCounts, Line
  <1>6. Cutting(input, Reference, chunkIDCnt, "recipe", totalOffset, localOffset, block, end, fileSize)
    BY <1>2, <1>3, <1>4, <1>5, LineStep
  <1>7. /\ input' = input /\ chunkIDCnt' = chunkIDCnt /\ totalOffset' = totalOffset
        /\ localOffset' = localOffset /\ fileSize' = fileSize /\ outputMQ' = outputMQ /\ chunker' = "recipe"
        /\ sendChunkBuf' = sendChunkBuf /\ sent' = sent /\ block' = block /\ end' = end
        /\ sender' = sender /\ done' = done /\ jobDone' = jobDone
    BY DEF TraceEnd, senderVars
  <1>8. Carried(Reference, Sizes, chunkIDCnt, "read", outputMQ, sendChunkBuf, sent, sender = "exit")
    BY <1>1, Holds
  <1>9. Carried(Reference, Sizes, chunkIDCnt, "recipe", outputMQ, sendChunkBuf, sent, sender = "exit")
    BY <1>8, CarryPlace
  <1>10. Types'
    BY <1>1, <1>7 DEF Types
  <1>11. Reference' = Reference /\ Sizes' = Sizes
    BY <1>7, RefSame
  <1>12. Cutting(input', Reference', chunkIDCnt', chunker', totalOffset', localOffset', block', end', fileSize')
    BY <1>6, <1>7, <1>11
  <1>13. Carried(Reference', Sizes', chunkIDCnt', chunker', outputMQ', sendChunkBuf', sent', sender' = "exit")
    BY <1>7, <1>9, <1>11
  <1> QED  BY <1>10, <1>12, <1>13 DEF Inv

(* Once the file is cut, nothing is claimed of where the chunker stands. *)
LEMMA CutPlace ==
    ASSUME NEW in, NEW R, NEW k, NEW pc, NEW qc, NEW tot, NEW loc, NEW blk, NEW e, NEW size,
           Cutting(in, R, k, pc, tot, loc, blk, e, size),
           (pc \in {"recipe", "done"} /\ qc \in {"done", "off"}) \/ qc = "exit"
    PROVE  Cutting(in, R, k, qc, tot, loc, blk, e, size)
  BY DEF Cutting

LEMMA PushRecipeInv == ASSUME Inv, PushRecipe PROVE Inv'
  <1>1. /\ Types /\ input \in Inputs /\ chunker = "recipe" /\ sender # "exit" /\ outputMQ \in Seq(Elements)
        /\ Len(outputMQ) < QueueSize /\ chunkIDCnt \in Nat /\ fileSize \in Nat
    BY Holds DEF PushRecipe, Push, Types
  <1>2. Cutting(input, Reference, chunkIDCnt, "recipe", totalOffset, localOffset, block, end, fileSize)
    BY <1>1, Holds
  <1>3. PICK h, q, k, R : /\ h = [dataType |-> "RECIPE_END", totalChunkNum |-> chunkIDCnt, fileSize |-> fileSize]
                          /\ q = Append(outputMQ, h) /\ k = chunkIDCnt /\ R = Reference
    OBVIOUS
  <1>4. k = Len(R) /\ fileSize \in Sizes
    <2>1. k = Len(R) /\ (input.type # "TRACE" => fileSize = Len(input.file))
      BY <1>2, <1>3 DEF Cutting
    <2> QED  BY <1>1, <2>1 DEF Sizes, Trace
  <1>5. h \in Heads(R, Sizes) /\ h \in Elements
    BY <1>1, <1>3, <1>4 DEF Heads, Elements
  <1>6. PICK d, e : CarriedTo(R, Sizes, k, "recipe", outputMQ, sendChunkBuf, sent, sender = "exit", d, e)
    BY <1>1, <1>3, Holds DEF Carried
  <1>7. q \in Seq(Elements) /\ CarriedTo(R, Sizes, k, "done", q, sendChunkBuf, sent, sender = "exit", d, e)
    BY <1>1, <1>3, <1>4, <1>5, <1>6, CarryHead
  <1>8. Len(q) <= QueueSize
    <2>1. Len(q) = Len(outputMQ) + 1 /\ Len(outputMQ) \in Nat
      BY <1>1, <1>3
    <2> QED  BY <1>1, <2>1, ClientAssumption
  <1>9. /\ input' = input /\ chunkIDCnt' = k /\ totalOffset' = totalOffset /\ outputMQ' = q
        /\ localOffset' = localOffset /\ fileSize' = fileSize /\ chunker' = "done"
        /\ sendChunkBuf' = sendChunkBuf /\ sent' = sent /\ block' = block /\ end' = end
        /\ sender' = sender /\ done' = done /\ jobDone' = jobDone
    BY <1>3 DEF PushRecipe, Push, senderVars
  <1>10. Types'
    BY <1>1, <1>3, <1>7, <1>8, <1>9 DEF Types
  <1>11. Reference' = R /\ Sizes' = Sizes
    BY <1>3, <1>9, RefSame
  <1>12. Cutting(input', Reference', chunkIDCnt', chunker', totalOffset', localOffset', block', end', fileSize')
    <2>1. Cutting(input, Reference, chunkIDCnt, "done", totalOffset, localOffset, block, end, fileSize)
      BY <1>2, CutPlace
    <2> QED  BY <1>3, <1>9, <1>11, <2>1
  <1>13. Carried(Reference', Sizes', chunkIDCnt', chunker', outputMQ', sendChunkBuf', sent', sender' = "exit")
    <2>1. Carried(R, Sizes, k, "done", q, sendChunkBuf, sent, sender = "exit")
      BY <1>7 DEF Carried
    <2> QED  BY <1>9, <1>11, <2>1
  <1> QED  BY <1>10, <1>12, <1>13 DEF Inv

LEMMA SetDoneInv == ASSUME Inv, SetDone PROVE Inv'
  <1>1. Types /\ chunker = "done" /\ sender # "exit"
    BY Holds DEF SetDone, Types
  <1>2. /\ input' = input /\ chunkIDCnt' = chunkIDCnt /\ totalOffset' = totalOffset /\ outputMQ' = outputMQ
        /\ localOffset' = localOffset /\ fileSize' = fileSize /\ chunker' = "off"
        /\ sendChunkBuf' = sendChunkBuf /\ sent' = sent /\ block' = block /\ end' = end
        /\ sender' = sender /\ done' = TRUE /\ jobDone' = jobDone
    BY DEF SetDone, senderVars
  <1>3. Types'
    BY <1>1, <1>2 DEF Types
  <1>4. Cutting(input, Reference, chunkIDCnt, "off", totalOffset, localOffset, block, end, fileSize)
    <2>1. Cutting(input, Reference, chunkIDCnt, "done", totalOffset, localOffset, block, end, fileSize)
      BY <1>1, Holds
    <2> QED  BY <2>1, CutPlace
  <1>5. Carried(Reference, Sizes, chunkIDCnt, "off", outputMQ, sendChunkBuf, sent, sender = "exit")
    <2>1. Carried(Reference, Sizes, chunkIDCnt, "done", outputMQ, sendChunkBuf, sent, sender = "exit")
      BY <1>1, Holds
    <2> QED  BY <2>1, CarryPlace
  <1>6. Reference' = Reference /\ Sizes' = Sizes
    BY <1>2, RefSame
  <1>7. Cutting(input', Reference', chunkIDCnt', chunker', totalOffset', localOffset', block', end', fileSize')
    BY <1>2, <1>4, <1>6
  <1>8. Carried(Reference', Sizes', chunkIDCnt', chunker', outputMQ', sendChunkBuf', sent', sender' = "exit")
    BY <1>2, <1>5, <1>6
  <1> QED  BY <1>3, <1>7, <1>8 DEF Inv

(* Steps of the sender that only move it on, and stuttering. *)
LEMMA IdleInv == ASSUME Inv, CheckDone \/ PopNothing \/ UNCHANGED vars PROVE Inv'
  <1>1. Types /\ (CheckDone \/ PopNothing => sender # "exit")
    BY Holds DEF CheckDone, PopNothing
  <1>2. /\ input' = input /\ chunkIDCnt' = chunkIDCnt /\ totalOffset' = totalOffset /\ outputMQ' = outputMQ
        /\ localOffset' = localOffset /\ fileSize' = fileSize /\ chunker' = chunker
        /\ sendChunkBuf' = sendChunkBuf /\ sent' = sent /\ block' = block /\ end' = end /\ done' = done
    BY DEF CheckDone, PopNothing, vars, chunkerVars, senderVars
  <1>3. /\ (sender' = "exit") = (sender = "exit") /\ sender' \in {"check", "pop", "off", "exit"}
        /\ jobDone' \in BOOLEAN
    BY <1>1 DEF CheckDone, PopNothing, AfterPop, vars, senderVars, Types
  <1>4. Types'
    BY <1>1, <1>2, <1>3 DEF Types
  <1>5. Reference' = Reference /\ Sizes' = Sizes
    BY <1>2, RefSame
  <1>6. Cutting(input', Reference', chunkIDCnt', chunker', totalOffset', localOffset', block', end', fileSize')
    BY <1>2, <1>5, Holds
  <1>7. Carried(Reference', Sizes', chunkIDCnt', chunker', outputMQ', sendChunkBuf', sent', sender' = "exit")
    BY <1>2, <1>3, <1>5, Holds
  <1> QED  BY <1>4, <1>6, <1>7 DEF Inv

LEMMA ConcatOne ==
    ASSUME NEW S, NEW s \in Seq(S), NEW x \in S PROVE s \o <<x>> = Append(s, x) /\ s \o <<>> = s
  OBVIOUS

(* The message of the recipe head. *)
HeadOf(h) == [messageType |-> "CLIENT_UPLOAD_RECIPE_END", totalChunkNum |-> h.totalChunkNum,
              fileSize |-> h.fileSize]

LEMMA HeadIs ==
    ASSUME NEW h \in Elements, h.dataType # "DATA_CHUNK"
    PROVE  /\ HeadOf(h) \in Messages /\ ~IsBatch(HeadOf(h))
           /\ HeadOf(h).totalChunkNum = h.totalChunkNum /\ HeadOf(h).fileSize = h.fileSize
  <1>1. h.totalChunkNum \in Nat /\ h.fileSize \in Nat
    BY DEF Elements
  <1> QED  BY <1>1 DEF HeadOf, Messages, IsBatch

(* While the queue is not empty the head has not been sent. *)
LEMMA AllBatches ==
    ASSUME NEW R, NEW F, NEW k, NEW pc, NEW out, NEW buf, NEW msgs, NEW gone, NEW d, NEW e,
           CarriedTo(R, F, k, pc, out, buf, msgs, gone, d, e), out # <<>>
    PROVE  \A n \in 1 .. Len(msgs) : IsBatch(msgs[n])
  BY DEF CarriedTo, EndIs

(* What the sender makes of the element it popped. *)
LEMMA PopCarries ==
    ASSUME Inv, sender = "pop", outputMQ # <<>>,
           IF Head(outputMQ).dataType = "DATA_CHUNK"
           THEN ProcessChunk(Head(outputMQ).chunk) ELSE ProcessRecipeEnd(Head(outputMQ))
    PROVE  /\ sendChunkBuf' \in Seq(Chunks) /\ Len(sendChunkBuf') < SendChunkBatchSize
           /\ sent' \in Seq(Messages)
           /\ Tail(outputMQ) \in Seq(Elements) /\ Len(Tail(outputMQ)) <= QueueSize
           /\ Carried(Reference, Sizes, chunkIDCnt, chunker, Tail(outputMQ), sendChunkBuf', sent', FALSE)
  <1>1. /\ Types /\ input \in Inputs /\ sender = "pop" /\ chunker # "exit" /\ outputMQ # <<>>
        /\ outputMQ \in Seq(Elements) /\ sent \in Seq(Messages) /\ sendChunkBuf \in Seq(Chunks)
        /\ Len(sendChunkBuf) < SendChunkBatchSize
    BY Holds DEF Types
  <1>2. Reference \in Seq(Chunks) /\ SendChunkBatchSize \in Nat \ {0}
    BY <1>1, InputIs, ClientAssumption
  <1>3. PICK R, F, k, h, t, buf, msgs : /\ R = Reference /\ F = Sizes /\ k = chunkIDCnt
                                        /\ h = Head(outputMQ) /\ t = Tail(outputMQ)
                                        /\ buf = sendChunkBuf /\ msgs = sent
    OBVIOUS
  <1>4. PICK d, e : CarriedTo(R, F, k, chunker, outputMQ, buf, msgs, FALSE, d, e)
    <2>1. (sender = "exit") = FALSE
      BY <1>1
    <2>2. Carried(R, F, k, chunker, outputMQ, buf, msgs, FALSE)
      BY <1>3, <2>1, Holds
    <2> QED  BY <2>2 DEF Carried
  <1>5. \A n \in 1 .. Len(msgs) : IsBatch(msgs[n])
    BY <1>1, <1>4, AllBatches
  <1>6. h \in Elements /\ t \in Seq(Elements) /\ Len(t) <= Len(outputMQ)
    BY <1>1, <1>3
  <1>7. /\ sendChunkBuf' \in Seq(Chunks) /\ Len(sendChunkBuf') < SendChunkBatchSize
        /\ sent' \in Seq(Messages)
        /\ Carried(R, F, k, chunker, t, sendChunkBuf', sent', FALSE)
    <2>1. CASE h.dataType = "DATA_CHUNK"
      <3>1. PICK b : b = Append(buf, h.chunk)
        OBVIOUS
      <3>2. b \in Seq(Chunks) /\ Len(b) = Len(buf) + 1
        <4>1. h.chunk \in Chunks
          BY <1>6, <2>1 DEF Elements
        <4> QED  BY <1>1, <1>3, <3>1, <4>1, AppendIs
      <3>3. CarriedTo(R, F, k, chunker, t, b, msgs, FALSE, d, e + 1)
        BY <1>1, <1>2, <1>3, <1>4, <2>1, <3>1, CarryBuffer
      <3>4. ProcessChunk(h.chunk)
        BY <1>3, <2>1
      <3>5. Len(buf) \in Nat /\ Len(buf) + 1 <= SendChunkBatchSize
        BY <1>1, <1>2, <1>3
      <3>6. CASE Len(b) % SendChunkBatchSize = 0
        <4>1. Len(b) = SendChunkBatchSize
          <5>1. PICK l : l = Len(buf)
            OBVIOUS
          <5>2. l \in Nat /\ l + 1 <= SendChunkBatchSize /\ (l + 1) % SendChunkBatchSize = 0
            BY <3>2, <3>5, <3>6, <5>1
          <5>3. l + 1 < SendChunkBatchSize => (l + 1) % SendChunkBatchSize = l + 1
            BY ONLY <1>2, <5>2
          <5>4. l + 1 = SendChunkBatchSize
            BY ONLY <1>2, <5>2, <5>3
          <5> QED  BY <3>2, <5>1, <5>4
        <4>2. CarriedTo(R, F, k, chunker, t, <<>>, Append(msgs, Batch(b)), FALSE, e + 1, e + 1)
          BY <1>5, <3>3, <4>1, CarryBatch
        <4>3. sendChunkBuf' = <<>> /\ sent' = Append(msgs, Batch(b))
          BY <1>3, <3>1, <3>4, <3>6 DEF ProcessChunk
        <4>4. <<>> \in Seq(Chunks) /\ Len(<<>>) < SendChunkBatchSize
          BY <1>2
        <4>5. Append(msgs, Batch(b)) \in Seq(Messages)
          BY <1>1, <1>3, <3>2, BatchIs, AppendIs
        <4> QED  BY <4>2, <4>3, <4>4, <4>5 DEF Carried
      <3>7. CASE Len(b) % SendChunkBatchSize # 0
        <4>1. sendChunkBuf' = b /\ sent' = msgs
          BY <1>3, <3>1, <3>4, <3>7 DEF ProcessChunk
        <4>2. Len(b) < SendChunkBatchSize
          <5>1. PICK l : l = Len(b)
            OBVIOUS
          <5>2. l \in Nat /\ l <= SendChunkBatchSize /\ l % SendChunkBatchSize # 0
            BY <3>2, <3>5, <3>7, <5>1
          <5>3. SendChunkBatchSize % SendChunkBatchSize = 0
            BY <1>2
          <5>4. l # SendChunkBatchSize
            BY <5>2, <5>3
          <5>5. l < SendChunkBatchSize
            BY ONLY <1>2, <5>2, <5>4
          <5> QED  BY <5>1, <5>5
        <4> QED  BY <1>1, <1>3, <3>2, <3>3, <4>1, <4>2 DEF Carried
      <3> QED  BY <3>6, <3>7
    <2>2. CASE h.dataType # "DATA_CHUNK"
      <3>1. PICK x : x = HeadOf(h)
        OBVIOUS
      <3>2. /\ x \in Messages /\ ~IsBatch(x) /\ x.totalChunkNum = h.totalChunkNum /\ x.fileSize = h.fileSize
        BY <1>6, <2>2, <3>1, HeadIs
      <3>3. ProcessRecipeEnd(h)
        BY <1>3, <2>2
      <3>4. sendChunkBuf' = <<>> /\ sendChunkBuf' \in Seq(Chunks) /\ Len(sendChunkBuf') < SendChunkBatchSize
        BY <1>2, <3>3 DEF ProcessRecipeEnd
      <3>5. CASE buf = <<>>
        <4>1. CarriedTo(R, F, k, chunker, t, <<>>, Append(msgs, x), FALSE, d, e)
          BY <1>1, <1>3, <1>4, <2>2, <3>2, <3>5, CarryEnd
        <4>2. sent' = msgs \o <<>> \o <<x>>
          BY <1>3, <3>1, <3>3, <3>5 DEF ProcessRecipeEnd, HeadOf
        <4>3. sent' = Append(msgs, x)
          <5>1. msgs \o <<>> = msgs /\ msgs \o <<x>> = Append(msgs, x)
            BY <1>1, <1>3, <3>2, ConcatOne
          <5> QED  BY <4>2, <5>1
        <4>4. Append(msgs, x) \in Seq(Messages)
          BY <1>1, <1>3, <3>2, AppendIs
        <4> QED  BY <3>4, <4>1, <4>3, <4>4 DEF Carried
      <3>6. CASE buf # <<>>
        <4>1. PICK b, m : b = Batch(buf) /\ m = Append(msgs, b)
          OBVIOUS
        <4>2. CarriedTo(R, F, k, chunker, outputMQ, <<>>, m, TRUE, e, e)
          BY <1>4, <1>5, <4>1, CarryBatch
        <4>3. CarriedTo(R, F, k, chunker, t, <<>>, Append(m, x), FALSE, e, e)
          BY <1>1, <1>3, <2>2, <3>2, <4>2, CarryEnd
        <4>4. b \in Messages
          BY <1>1, <1>3, <4>1, BatchIs
        <4>5. m \in Seq(Messages)
          BY <1>1, <1>3, <4>1, <4>4, AppendIs
        <4>6. Append(m, x) \in Seq(Messages)
          BY <3>2, <4>5, AppendIs
        <4>7. sent' = msgs \o <<b>> \o <<x>>
          BY <1>3, <3>1, <3>3, <3>6, <4>1 DEF ProcessRecipeEnd, HeadOf
        <4>8. sent' = Append(m, x)
          <5>1. msgs \o <<b>> = m
            BY <1>1, <1>3, <4>1, <4>4, ConcatOne
          <5>2. m \o <<x>> = Append(m, x)
            BY <3>2, <4>5, ConcatOne
          <5> QED  BY <4>7, <5>1, <5>2
        <4> QED  BY <3>4, <4>3, <4>6, <4>8 DEF Carried
      <3> QED  BY <3>5, <3>6
    <2> QED  BY <2>1, <2>2
  <1>8. Len(t) <= QueueSize
    <2>1. Len(t) \in Nat /\ Len(outputMQ) \in Nat /\ Len(outputMQ) <= QueueSize /\ QueueSize \in Nat
      BY <1>1, <1>6, ClientAssumption DEF Types
    <2> QED  BY <1>6, <2>1
  <1> QED  BY <1>3, <1>6, <1>7, <1>8

LEMMA PopDataInv == ASSUME Inv, PopData PROVE Inv'
  <1>1. PICK t : t = Tail(outputMQ)
    OBVIOUS
  <1>2. /\ sendChunkBuf' \in Seq(Chunks) /\ Len(sendChunkBuf') < SendChunkBatchSize
        /\ sent' \in Seq(Messages) /\ t \in Seq(Elements) /\ Len(t) <= QueueSize
        /\ Carried(Reference, Sizes, chunkIDCnt, chunker, t, sendChunkBuf', sent', FALSE)
    BY <1>1, PopCarries DEF PopData
  <1>3. /\ input' = input /\ chunkIDCnt' = chunkIDCnt /\ totalOffset' = totalOffset /\ outputMQ' = t
        /\ localOffset' = localOffset /\ fileSize' = fileSize /\ chunker' = chunker
        /\ block' = block /\ end' = end /\ done' = done /\ jobDone' = jobDone
        /\ sender = "pop" /\ sender' \in {"off", "check"}
    BY <1>1 DEF PopData, AfterPop, chunkerVars
  <1>4. Types'
    BY <1>2, <1>3, Holds DEF Types
  <1>5. Reference' = Reference /\ Sizes' = Sizes
    BY <1>3, RefSame
  <1>6. Cutting(input', Reference', chunkIDCnt', chunker', totalOffset', localOffset', block', end', fileSize')
    BY <1>3, <1>5, Holds
  <1>7. Carried(Reference', Sizes', chunkIDCnt', chunker', outputMQ', sendChunkBuf', sent', sender' = "exit")
    <2>1. (sender' = "exit") = FALSE
      BY <1>3
    <2> QED  BY <1>2, <1>3, <1>5, <2>1
  <1> QED  BY <1>4, <1>6, <1>7 DEF Inv

LEMMA FinishFailsInv == ASSUME Inv, FinishFails PROVE Inv'
  <1>1. PICK t : t = Tail(outputMQ)
    OBVIOUS
  <1>2. /\ sendChunkBuf' \in Seq(Chunks) /\ Len(sendChunkBuf') < SendChunkBatchSize
        /\ sent' \in Seq(Messages) /\ t \in Seq(Elements) /\ Len(t) <= QueueSize
        /\ Carried(Reference, Sizes, chunkIDCnt, chunker, t, sendChunkBuf', sent', FALSE)
    BY <1>1, PopCarries DEF FinishFails
  <1>3. /\ input' = input /\ chunkIDCnt' = chunkIDCnt /\ totalOffset' = totalOffset /\ outputMQ' = t
        /\ localOffset' = localOffset /\ fileSize' = fileSize /\ chunker' = "exit"
        /\ block' = block /\ end' = end /\ done' = done /\ jobDone' = jobDone /\ sender' = "exit"
    BY <1>1 DEF FinishFails
  <1>4. Types'
    BY <1>2, <1>3, Holds DEF Types
  <1>5. Reference' = Reference /\ Sizes' = Sizes
    BY <1>3, RefSame
  <1>6. Cutting(input', Reference', chunkIDCnt', chunker', totalOffset', localOffset', block', end', fileSize')
    <2>1. Cutting(input, Reference, chunkIDCnt, "exit", totalOffset, localOffset, block, end, fileSize)
      BY Holds, CutPlace
    <2> QED  BY <1>3, <1>5, <2>1
  <1>7. Carried(Reference', Sizes', chunkIDCnt', chunker', outputMQ', sendChunkBuf', sent', sender' = "exit")
    <2>1. PICK b, m : b = sendChunkBuf' /\ m = sent'
      OBVIOUS
    <2>2. Carried(Reference, Sizes, chunkIDCnt, "exit", t, b, m, TRUE)
      BY <1>2, <2>1, CarryPlace
    <2>3. (sender' = "exit") = TRUE
      BY <1>3
    <2> QED  BY <1>3, <1>5, <2>1, <2>2, <2>3
  <1> QED  BY <1>4, <1>6, <1>7 DEF Inv

LEMMA SendFailsInv == ASSUME Inv, SendFails PROVE Inv'
  <1>1. /\ Types /\ input \in Inputs /\ sender = "pop" /\ outputMQ # <<>>
        /\ sent \in Seq(Messages) /\ sendChunkBuf \in Seq(Chunks) /\ SendChunkBatchSize \in Nat \ {0}
    BY Holds, ClientAssumption DEF SendFails, Types
  <1>2. /\ input' = input /\ chunkIDCnt' = chunkIDCnt /\ totalOffset' = totalOffset /\ outputMQ' = outputMQ
        /\ localOffset' = localOffset /\ fileSize' = fileSize /\ chunker' = "exit"
        /\ block' = block /\ end' = end /\ done' = done /\ jobDone' = jobDone /\ sender' = "exit"
    BY DEF SendFails
  <1>3. PICK d, e : CarriedTo(Reference, Sizes, chunkIDCnt, chunker, outputMQ, sendChunkBuf, sent, FALSE, d, e)
    <2>1. (sender = "exit") = FALSE
      BY <1>1
    <2>2. Carried(Reference, Sizes, chunkIDCnt, chunker, outputMQ, sendChunkBuf, sent, FALSE)
      BY <2>1, Holds
    <2> QED  BY <2>2 DEF Carried
  <1>4. /\ sendChunkBuf' \in Seq(Chunks) /\ Len(sendChunkBuf') < SendChunkBatchSize
        /\ sent' \in Seq(Messages)
        /\ Carried(Reference, Sizes, chunkIDCnt, chunker, outputMQ, sendChunkBuf', sent', TRUE)
    <2>1. CASE UNCHANGED <<sendChunkBuf, sent>>
      <3>1. Carried(Reference, Sizes, chunkIDCnt, chunker, outputMQ, sendChunkBuf, sent, FALSE)
        BY <1>3 DEF Carried
      <3>2. Carried(Reference, Sizes, chunkIDCnt, chunker, outputMQ, sendChunkBuf, sent, TRUE)
        BY <3>1, CarryPlace
      <3>3. Len(sendChunkBuf) < SendChunkBatchSize
        BY <1>1 DEF Types
      <3> QED  BY <1>1, <2>1, <3>2, <3>3
    <2>2. CASE sent' = Append(sent, Batch(sendChunkBuf)) /\ sendChunkBuf' = <<>>
      <3>1. PICK m : m = Append(sent, Batch(sendChunkBuf))
        OBVIOUS
      <3>2. \A n \in 1 .. Len(sent) : IsBatch(sent[n])
        BY <1>1, <1>3, AllBatches
      <3>3. CarriedTo(Reference, Sizes, chunkIDCnt, chunker, outputMQ, <<>>, m, TRUE, e, e)
        BY <1>3, <3>1, <3>2, CarryBatch
      <3>4. m \in Seq(Messages)
        BY <1>1, <3>1, BatchIs, AppendIs
      <3>5. <<>> \in Seq(Chunks) /\ Len(<<>>) < SendChunkBatchSize
        BY <1>1
      <3> QED  BY <2>2, <3>1, <3>3, <3>4, <3>5 DEF Carried
    <2> QED  BY <2>1, <2>2 DEF SendFails
  <1>5. Types'
    BY <1>1, <1>2, <1>4 DEF Types
  <1>6. Reference' = Reference /\ Sizes' = Sizes
    BY <1>2, RefSame
  <1>7. Cutting(input', Reference', chunkIDCnt', chunker', totalOffset', localOffset', block', end', fileSize')
    <2>1. Cutting(input, Reference, chunkIDCnt, "exit", totalOffset, localOffset, block, end, fileSize)
      BY Holds, CutPlace
    <2> QED  BY <1>2, <1>6, <2>1
  <1>8. Carried(Reference', Sizes', chunkIDCnt', chunker', outputMQ', sendChunkBuf', sent', sender' = "exit")
    <2>1. PICK b, m : b = sendChunkBuf' /\ m = sent'
      OBVIOUS
    <2>2. Carried(Reference, Sizes, chunkIDCnt, "exit", outputMQ, b, m, TRUE)
      BY <1>4, <2>1, CarryPlace
    <2>3. (sender' = "exit") = TRUE
      BY <1>2
    <2> QED  BY <1>2, <1>6, <2>1, <2>2, <2>3
  <1> QED  BY <1>5, <1>7, <1>8 DEF Inv
-----------------------------------------------------------------------------
LEMMA StepInv == Inv /\ [Next]_vars => Inv'
  <1> SUFFICES ASSUME Inv, [Next]_vars PROVE Inv'
    OBVIOUS
  <1>1. CASE ReadBlock    BY <1>1, ReadBlockInv
  <1>2. CASE CutChunk     BY <1>2, CutChunkInv
  <1>3. CASE NextBlock    BY <1>3, NextBlockInv
  <1>4. CASE TraceChunk   BY <1>4, TraceChunkInv
  <1>5. CASE TraceEnd     BY <1>5, TraceEndInv
  <1>6. CASE PushRecipe   BY <1>6, PushRecipeInv
  <1>7. CASE SetDone      BY <1>7, SetDoneInv
  <1>8. CASE PopData      BY <1>8, PopDataInv
  <1>9. CASE SendFails    BY <1>9, SendFailsInv
  <1>10. CASE FinishFails  BY <1>10, FinishFailsInv
  <1>11. CASE CheckDone \/ PopNothing \/ UNCHANGED vars
    BY <1>11, IdleInv
  <1> QED  BY <1>1, <1>2, <1>3, <1>4, <1>5, <1>6, <1>7, <1>8, <1>9, <1>10, <1>11 DEF Next, Chunker, DataSender

(* Every variable of the client keeps its type, the queue and the batch      *)
(* buffer stay within their sizes, and the chunker does not leave the file   *)
(* or its read buffer.                                                       *)
THEOREM UploadTypes == Spec => []TypeOK
  <1>1. Init => Inv
    BY InitInv
  <1>2. Inv /\ [Next]_vars => Inv'
    BY StepInv
  <1>3. Inv => TypeOK
    BY DEF Inv, Types, TypeOK
  <1> QED  BY <1>1, <1>2, <1>3, PTL DEF Spec

(* What the sender delivers is the file: its chunks as they are cut from the *)
(* whole file whatever the read buffer, each once and in order, in batches   *)
(* that are full but for the last, and then a head with the file's counts.   *)
THEOREM UploadsFaithful == Spec => []UploadFaithful
  <1>1. Init => Inv
    BY InitInv
  <1>2. Inv /\ [Next]_vars => Inv'
    BY StepInv
  <1>3. Inv => UploadFaithful
    BY Faithful
  <1> QED  BY <1>1, <1>2, <1>3, PTL DEF Spec
=============================================================================
