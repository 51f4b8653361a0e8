-------------------------- MODULE SecureChannelProofs --------------------------
(***************************************************************************)
(* ReceiveData returns what was given to SendData, for every sequence of    *)
(* messages and however the calls of SSL_write and SSL_read split them.     *)
(*                                                                          *)
(* The stream of a connection is, for each message, its length and its      *)
(* bytes.  What is under way is a window of that stream.  The invariant     *)
(* says where each message lies relative to the window: pos[m] is the index  *)
(* in wire at which the length of message m is, was or would be.            *)
(***************************************************************************)
EXTENDS SecureChannel, SequenceTheorems, TLAPS

Count == Len(Sizes)

Bytes  == [msg : Nat, offset : Nat]
Letter == [len : Nat] \cup Bytes

(* What stands at offset o of message m's part of the stream. *)
Item(m, o) == IF o = 0 THEN [len |-> Sizes[m]] ELSE Byte(m, o)

(* The first n bytes of message m. *)
Prefix(m, n) == [o \in 1 .. n |-> Byte(m, o)]

Positions == [Nat -> Int]

(* Messages 1 to t - 1 lie one after the other; message t, if there is one,  *)
(* is not yet in the stream as a whole.                                      *)
Laid(pos, t) ==
    /\ \A m \in 1 .. t - 1 : pos[m + 1] = pos[m] + Sizes[m] + 1
    /\ \A m \in 1 .. t - 1, k \in 1 .. t : m < k => pos[m] + Sizes[m] < pos[k]

Within(w, pos, t) ==
    /\ t <= Count => Len(w) < pos[t] + Sizes[t]
    /\ t = Count + 1 => Len(w) < pos[t]

Holds(w, pos, t) ==
    \A m \in 1 .. t : m <= Count =>
        \A o \in 0 .. Sizes[m] :
            pos[m] + o \in 1 .. Len(w) => w[pos[m] + o] = Item(m, o)

Window(w, pos, t) == Laid(pos, t) /\ Within(w, pos, t) /\ Holds(w, pos, t)

(* The sequence e is message t from offset k on. *)
Continues(e, t, k) == \A i \in 1 .. Len(e) : e[i] = Item(t, k + i - 1)

(* The receiver is at the start of the window. *)
ReceiverAt(pos, t) ==
    /\ Len(received) + 1 <= t
    /\ receiver # "body" => pos[Len(received) + 1] = 1
    /\ receiver = "body" => pos[Len(received) + 1] = -Len(data)

(* The sender is at its end, as long as the connection holds. *)
SenderAt(pos, t) ==
    /\ ~broken
    /\ t = msg
    /\ sender # "body" => pos[t] = Len(wire) + 1
    /\ sender = "body" => pos[t] + sendedSize = Len(wire)

Stream ==
    \E t \in 1 .. Count + 1, pos \in Positions :
        /\ Window(wire, pos, t)
        /\ ReceiverAt(pos, t)
        /\ up => SenderAt(pos, t)

SenderOK ==
    /\ sender = "end" <=> msg = Count + 1
    /\ sender = "body" => sendedSize \in Nat /\ sendedSize < Sizes[msg]

(* A read that failed is counted, but then nothing more can arrive. *)
ReceiverOK ==
    receiver = "body" =>
        /\ Len(received) + 1 <= Count
        /\ len = Sizes[Len(received) + 1]
        /\ Len(data) < len
        /\ data = Prefix(Len(received) + 1, Len(data))
        /\ receivedSize <= Len(data)
        /\ receivedSize = Len(data) \/ (~up /\ wire = <<>>)

(* The types, part by part. *)
ConnectionTypes == up \in BOOLEAN /\ broken \in BOOLEAN /\ lostReturn \in {0, -1}

SenderTypes ==
    /\ sender \in {"header", "body", "end"} /\ msg \in 1 .. Count + 1
    /\ sendedSize \in Int /\ accepted \in Nat
    /\ results \in Seq([ok : BOOLEAN, written : Nat])

ReceiverTypes ==
    /\ receiver \in {"header", "body", "failed"}
    /\ len \in Nat /\ receivedSize \in -MaxError .. len
    /\ data \in Seq(Bytes)
    /\ received \in Seq(Seq(Bytes))

Types == ConnectionTypes /\ wire \in Seq(Letter) /\ SenderTypes /\ ReceiverTypes

Inv == Types /\ SenderOK /\ ReceiverOK /\ Stream /\ Framing
-----------------------------------------------------------------------------
LEMMA SizesFacts ==
    /\ Sizes \in Seq(Nat)
    /\ Count \in Nat /\ Count >= 1
    /\ \A m \in 1 .. Count : Sizes[m] \in Nat /\ Sizes[m] > 0 /\ Sizes[m] < UintMod - 1
BY ChannelAssumption, EmptySeq DEF Count

LEMMA TypesImply == Types => TypeOK
<1> SUFFICES ASSUME Types PROVE TypeOK
  OBVIOUS
<1>1. \A n \in DOMAIN wire : wire[n] \in [len : Nat] \cup [msg : Nat, offset : Nat]
  <2>1. \A n \in 1 .. Len(wire) : wire[n] \in Letter
    BY ElementOfSeq DEF Types
  <2>2. DOMAIN wire = 1 .. Len(wire)
    BY LenProperties DEF Types
  <2> QED
    BY <2>1, <2>2 DEF Letter, Bytes
<1> QED
  BY <1>1 DEF TypeOK, Types, ConnectionTypes, SenderTypes, ReceiverTypes, Count, Bytes

(* The loop test of SendData, for the counts it can meet: a count of -1 is   *)
(* a large unsigned number and ends the loop.                                *)
LEMMA LoopTest ==
    ASSUME msg \in 1 .. Count
    PROVE  /\ \A s \in Nat : s <= Sizes[msg] => (MoreToSend(s) <=> s < Sizes[msg])
           /\ ~MoreToSend(-1)
<1>1. Sizes[msg] \in Nat /\ Sizes[msg] < UintMod - 1 /\ UintMod \in Nat
  BY SizesFacts, ChannelAssumption
<1>2. \A s \in Nat : s <= Sizes[msg] => s % UintMod = s
  BY <1>1
<1>3. (-1) % UintMod = UintMod - 1
  BY <1>1
<1> QED
  BY <1>1, <1>2, <1>3 DEF MoreToSend
-----------------------------------------------------------------------------
(* What a sequence is cut to, and what is left of it. *)
LEMMA CutSeq ==
    ASSUME NEW S, NEW w \in Seq(S), NEW n \in 0 .. Len(w)
    PROVE  /\ SubSeq(w, 1, n) \in Seq(S)
           /\ Len(SubSeq(w, 1, n)) = n
           /\ \A i \in 1 .. n : SubSeq(w, 1, n)[i] = w[i]
<1>1. Len(w) \in Nat /\ n \in Int /\ \A i \in 1 .. n : w[i] \in S
  BY ElementOfSeq, LenProperties
<1> QED
  BY <1>1, SubSeqProperties

LEMMA DropSeq ==
    ASSUME NEW S, NEW w \in Seq(S), NEW n \in 0 .. Len(w)
    PROVE  /\ SubSeq(w, n + 1, Len(w)) \in Seq(S)
           /\ Len(SubSeq(w, n + 1, Len(w))) = Len(w) - n
           /\ \A i \in 1 .. Len(w) - n : SubSeq(w, n + 1, Len(w))[i] = w[n + i]
<1>1. Len(w) \in Nat /\ n \in Int /\ n + 1 \in Int /\ \A i \in n + 1 .. Len(w) : w[i] \in S
  BY ElementOfSeq, LenProperties
<1>2. /\ SubSeq(w, n + 1, Len(w)) \in Seq(S)
      /\ Len(SubSeq(w, n + 1, Len(w))) = IF n + 1 <= Len(w) THEN Len(w) - (n + 1) + 1 ELSE 0
      /\ \A i \in 1 .. Len(w) - (n + 1) + 1 : SubSeq(w, n + 1, Len(w))[i] = w[n + 1 + i - 1]
  BY <1>1, SubSeqProperties
<1> QED
  BY <1>1, <1>2

(* The window under a loss, a read and a write. *)
LEMMA WindowCut ==
    ASSUME NEW w \in Seq(Letter), NEW pos \in Positions, NEW t \in 1 .. Count + 1,
           Window(w, pos, t), NEW n \in 0 .. Len(w)
    PROVE  Window(SubSeq(w, 1, n), pos, t)
<1> DEFINE v == SubSeq(w, 1, n)
<1>1. Count \in Nat /\ \A m \in 1 .. Count : Sizes[m] \in Nat
  BY SizesFacts
<1>2. Len(w) \in Nat /\ Len(v) = n /\ \A i \in 1 .. n : v[i] = w[i]
  BY CutSeq, LenProperties
<1> HIDE DEF v
<1>3. Within(v, pos, t)
  <2>1. pos[t] \in Int /\ (t <= Count => Sizes[t] \in Nat)
    BY <1>1 DEF Positions
  <2> QED
    BY <2>1, <1>1, <1>2 DEF Within, Window
<1>4. Holds(v, pos, t)
  <2> SUFFICES ASSUME NEW m \in 1 .. t, m <= Count, NEW o \in 0 .. Sizes[m],
                      pos[m] + o \in 1 .. Len(v)
               PROVE  v[pos[m] + o] = Item(m, o)
    BY DEF Holds
  <2>1. pos[m] + o \in 1 .. n /\ pos[m] + o \in 1 .. Len(w)
    BY <1>1, <1>2
  <2> QED
    BY <2>1, <1>2 DEF Holds, Window
<1> QED
  BY <1>3, <1>4 DEF Window, v

LEMMA WindowDrop ==
    ASSUME NEW w \in Seq(Letter), NEW pos \in Positions, NEW t \in 1 .. Count + 1,
           Window(w, pos, t), NEW n \in 0 .. Len(w)
    PROVE  Window(SubSeq(w, n + 1, Len(w)), [m \in Nat |-> pos[m] - n], t)
<1> DEFINE v == SubSeq(w, n + 1, Len(w))
           b == [m \in Nat |-> pos[m] - n]
<1>1. Count \in Nat /\ \A m \in 1 .. t : m \in Nat /\ (m <= Count => Sizes[m] \in Nat)
  BY SizesFacts
<1>2. Len(v) = Len(w) - n /\ \A i \in 1 .. Len(w) - n : v[i] = w[n + i]
  BY DropSeq
<1>3. \A m \in Nat : b[m] = pos[m] - n /\ pos[m] \in Int
  BY DEF Positions
<1>4. Len(w) \in Nat /\ n \in Nat
  BY LenProperties
<1> HIDE DEF v, b
<1>5. Laid(b, t)
  <2>1. \A m \in 1 .. t - 1 : b[m + 1] = b[m] + Sizes[m] + 1
    <3> TAKE m \in 1 .. t - 1
    <3>1. m \in Nat /\ m + 1 \in Nat /\ Sizes[m] \in Nat
      BY <1>1
    <3>2. pos[m + 1] = pos[m] + Sizes[m] + 1
      BY DEF Laid, Window
    <3>3. b[m + 1] = pos[m + 1] - n /\ b[m] = pos[m] - n /\ pos[m] \in Int
      BY <3>1, <1>3
    <3> QED
      BY <3>1, <3>2, <3>3, <1>4
  <2>2. \A m \in 1 .. t - 1, k \in 1 .. t : m < k => b[m] + Sizes[m] < b[k]
    <3> TAKE m \in 1 .. t - 1, k \in 1 .. t
    <3>1. m \in Nat /\ k \in Nat /\ Sizes[m] \in Nat
      BY <1>1
    <3>2. m < k => pos[m] + Sizes[m] < pos[k]
      BY DEF Laid, Window
    <3>3. b[m] = pos[m] - n /\ b[k] = pos[k] - n /\ pos[m] \in Int /\ pos[k] \in Int
      BY <3>1, <1>3
    <3> QED
      BY <3>1, <3>2, <3>3, <1>4
  <2> QED
    BY <2>1, <2>2 DEF Laid
<1>6. Within(v, b, t)
  <2>1. b[t] = pos[t] - n /\ pos[t] \in Int /\ (t <= Count => Sizes[t] \in Nat)
    BY <1>1, <1>3
  <2> QED
    BY <2>1, <1>2, <1>4 DEF Within, Window
<1>7. Holds(v, b, t)
  <2> SUFFICES ASSUME NEW m \in 1 .. t, m <= Count, NEW o \in 0 .. Sizes[m],
                      b[m] + o \in 1 .. Len(v)
               PROVE  v[b[m] + o] = Item(m, o)
    BY DEF Holds
  <2>1. b[m] = pos[m] - n /\ pos[m] \in Int /\ o \in Nat
    BY <1>1, <1>3
  <2>2. b[m] + o \in 1 .. Len(w) - n
    BY <1>2
  <2>3. \A x \in Int : x - n + o \in 1 .. Len(w) - n =>
           x + o \in 1 .. Len(w) /\ x + o = n + (x - n + o)
    BY <2>1, <1>4
  <2>4. pos[m] + o \in 1 .. Len(w) /\ pos[m] + o = n + (b[m] + o)
    BY <2>1, <2>2, <2>3
  <2>5. v[b[m] + o] = w[pos[m] + o]
    BY <2>2, <2>4, <1>2
  <2> QED
    BY <2>4, <2>5 DEF Holds, Window
<1> QED
  BY <1>5, <1>6, <1>7 DEF Window, v, b

(* What the concatenation of two sequences is. *)
Joined(v, w, e) ==
    /\ Len(v) = Len(w) + Len(e)
    /\ \A i \in 1 .. Len(w) + Len(e) : v[i] = IF i <= Len(w) THEN w[i] ELSE e[i - Len(w)]

(* What is written next goes to message t, which is the last. *)
LEMMA HoldsMore ==
    ASSUME NEW w \in Seq(Letter), NEW pos \in Positions, NEW t \in 1 .. Count,
           Window(w, pos, t), NEW e \in Seq(Letter), NEW k \in Nat,
           pos[t] + k = Len(w) + 1,
           Continues(e, t, k), NEW v, Joined(v, w, e)
    PROVE  Holds(v, pos, t)
<1> SUFFICES ASSUME NEW m \in 1 .. t, m <= Count, NEW o \in 0 .. Sizes[m],
                    pos[m] + o \in 1 .. Len(v)
             PROVE  v[pos[m] + o] = Item(m, o)
  BY DEF Holds
<1>0. Count \in Nat /\ \A j \in 1 .. Count : Sizes[j] \in Nat
  BY SizesFacts
<1>1. m \in Nat /\ t \in Nat /\ Sizes[m] \in Nat /\ o \in Nat
  BY <1>0
<1>2. Len(w) \in Nat /\ Len(e) \in Nat /\ pos[m] \in Int /\ pos[t] \in Int
  BY <1>1, LenProperties DEF Positions
<1>3. /\ Len(v) = Len(w) + Len(e)
      /\ \A i \in 1 .. Len(w) + Len(e) :
            v[i] = IF i <= Len(w) THEN w[i] ELSE e[i - Len(w)]
  BY DEF Joined
<1>4. pos[m] + o \in 1 .. Len(w) + Len(e) /\ pos[m] + o \in Int
  BY <1>1, <1>2, <1>3
<1>5. CASE pos[m] + o <= Len(w)
  <2>1. pos[m] + o \in 1 .. Len(w)
    BY <1>1, <1>2, <1>4, <1>5
  <2>2. w[pos[m] + o] = Item(m, o)
    BY <2>1 DEF Holds, Window
  <2> QED
    BY <2>2, <1>3, <1>4, <1>5
<1>6. CASE ~(pos[m] + o <= Len(w))
  <2>1. m = t
    <3> SUFFICES ASSUME m # t PROVE FALSE
      OBVIOUS
    <3>1. m \in 1 .. t - 1 /\ m < t /\ t \in 1 .. t
      BY <1>1
    <3>2. pos[m] + Sizes[m] < pos[t]
      BY <3>1 DEF Laid, Window
    <3>3. \A p, q, s, l \in Int : p + s < q /\ q + k = l + 1 => p + s <= l
      OBVIOUS
    <3>4. \A p, s, l \in Int : p + s <= l /\ o <= s => p + o <= l
      BY <1>1
    <3>5. pos[m] \in Int /\ pos[t] \in Int /\ Sizes[m] \in Int /\ Len(w) \in Int /\ o <= Sizes[m]
      BY <1>1, <1>2
    <3>6. pos[m] + Sizes[m] <= Len(w)
      BY <3>2, <3>3, <3>5, ZenonT(20)
    <3> QED
      BY <3>4, <3>5, <3>6, <1>6, ZenonT(20)
  <2>2. PICK j \in Int : j = pos[m] + o
    BY <1>4
  <2>3. j \in 1 .. Len(w) + Len(e) /\ ~(j <= Len(w))
    BY <2>2, <1>4, <1>6
  <2>4. j - Len(w) \in 1 .. Len(e)
    BY <2>3, <1>2
  <2>5. pos[m] + k = Len(w) + 1
    BY <2>1
  <2>6. o = k + (j - Len(w)) - 1
    <3>1. \A p, l, x \in Int : j = p + x /\ p + k = l + 1 => x = k + (j - l) - 1
      OBVIOUS
    <3>2. pos[m] \in Int /\ Len(w) \in Int /\ o \in Int
      BY <1>1, <1>2
    <3> QED
      BY <2>2, <2>5, <3>1, <3>2
  <2>7. v[j] = e[j - Len(w)]
    BY <2>3, <1>3
  <2>8. e[j - Len(w)] = Item(t, k + (j - Len(w)) - 1)
    BY <2>4 DEF Continues
  <2> QED
    BY <2>1, <2>2, <2>6, <2>7, <2>8
<1> QED
  BY <1>5, <1>6

LEMMA WindowMore ==
    ASSUME NEW w \in Seq(Letter), NEW pos \in Positions, NEW t \in 1 .. Count,
           Window(w, pos, t), NEW e \in Seq(Letter), NEW k \in Nat,
           pos[t] + k = Len(w) + 1, k + Len(e) <= Sizes[t],
           Continues(e, t, k), NEW v, Joined(v, w, e)
    PROVE  Window(v, pos, t)
<1>1. Count \in Nat /\ t \in Nat /\ Sizes[t] \in Nat
  BY SizesFacts
<1>2. Len(w) \in Nat /\ Len(e) \in Nat /\ pos[t] \in Int
  BY <1>1, LenProperties DEF Positions
<1>3. Len(v) = Len(w) + Len(e)
  BY DEF Joined
<1>4. Within(v, pos, t)
  BY <1>1, <1>2, <1>3 DEF Within
<1>5. Holds(v, pos, t)
  BY HoldsMore
<1> QED
  BY <1>4, <1>5 DEF Window

LEMMA WindowWhole ==
    ASSUME NEW w \in Seq(Letter), NEW pos \in Positions, NEW t \in 1 .. Count,
           Window(w, pos, t), NEW e \in Seq(Letter), NEW k \in Nat,
           pos[t] + k = Len(w) + 1, k + Len(e) = Sizes[t] + 1,
           Continues(e, t, k), NEW v, Joined(v, w, e)
    PROVE  Window(v, [pos EXCEPT ![t + 1] = Len(v) + 1], t + 1)
<1> DEFINE b == [pos EXCEPT ![t + 1] = Len(v) + 1]
<1>0. Count \in Nat /\ \A m \in 1 .. Count : Sizes[m] \in Nat /\ Sizes[m] > 0
  BY SizesFacts
<1>1. t \in Nat /\ Sizes[t] \in Nat
  BY <1>0
<1>2. Len(w) \in Nat /\ Len(e) \in Nat /\ pos[t] \in Int
  BY <1>1, LenProperties DEF Positions
<1>3. Len(v) = Len(w) + Len(e)
  BY DEF Joined
<1>4. Holds(v, pos, t)
  BY HoldsMore
<1>5. Len(v) + 1 = pos[t] + Sizes[t] + 1
  <2>1. \A l, x, p, s \in Int : p + k = l + 1 /\ k + x = s + 1 => l + x + 1 = p + s + 1
    OBVIOUS
  <2> QED
    BY <2>1, <1>1, <1>2, <1>3
<1>6. b[t + 1] = Len(v) + 1 /\ \A m \in 1 .. t : b[m] = pos[m] /\ pos[m] \in Int
  <2>1. t + 1 \in Nat /\ \A m \in 1 .. t : m \in Nat /\ m # t + 1
    BY <1>1
  <2> QED
    BY <2>1 DEF Positions
<1> HIDE DEF b
<1>7. Laid(b, t + 1)
  <2>1. ASSUME NEW m \in 1 .. t
        PROVE  b[m + 1] = b[m] + Sizes[m] + 1
    <3>1. CASE m = t
      BY <3>1, <1>1, <1>5, <1>6
    <3>2. CASE m # t
      <4>1. m \in 1 .. t - 1 /\ m + 1 \in 1 .. t
        BY <3>2, <1>1
      <4>2. pos[m + 1] = pos[m] + Sizes[m] + 1
        BY <4>1 DEF Laid, Window
      <4> QED
        BY <4>1, <4>2, <1>6
    <3> QED
      BY <3>1, <3>2
  <2>2. ASSUME NEW m \in 1 .. t, NEW j \in 1 .. t + 1, m < j
        PROVE  b[m] + Sizes[m] < b[j]
    <3>1. m \in Nat /\ j \in Nat /\ Sizes[m] \in Nat /\ pos[m] \in Int /\ b[m] = pos[m]
      BY <1>0, <1>1, <1>6
    <3>2. CASE j = t + 1 /\ m = t
      BY <3>1, <3>2, <1>1, <1>2, <1>5, <1>6
    <3>3. CASE j = t + 1 /\ m # t
      <4>1. m \in 1 .. t - 1 /\ t \in 1 .. t /\ m < t
        BY <3>1, <3>3, <1>1
      <4>2. pos[m] + Sizes[m] < pos[t]
        BY <4>1 DEF Laid, Window
      <4>3. pos[t] <= Len(v)
        BY <1>1, <1>2, <1>3, <1>5
      <4>4. pos[m] + Sizes[m] < Len(v) + 1
        BY <3>1, <4>2, <4>3, <1>2, <1>3
      <4> QED
        BY <3>1, <3>3, <4>4, <1>6
    <3>4. CASE j # t + 1
      <4>1. m \in 1 .. t - 1 /\ j \in 1 .. t
        BY <2>2, <3>1, <3>4, <1>1
      <4>2. pos[m] + Sizes[m] < pos[j]
        BY <2>2, <4>1 DEF Laid, Window
      <4> QED
        BY <3>1, <4>1, <4>2, <1>6
    <3> QED
      BY <3>2, <3>3, <3>4
  <2>3. t + 1 - 1 = t
    BY <1>1
  <2> QED
    BY <2>1, <2>2, <2>3 DEF Laid
<1>8. Within(v, b, t + 1)
  BY <1>0, <1>1, <1>2, <1>3, <1>6 DEF Within
<1>9. Holds(v, b, t + 1)
  <2> SUFFICES ASSUME NEW m \in 1 .. t + 1, m <= Count, NEW o \in 0 .. Sizes[m],
                      b[m] + o \in 1 .. Len(v)
               PROVE  v[b[m] + o] = Item(m, o)
    BY DEF Holds
  <2>1. m \in Nat /\ Sizes[m] \in Nat /\ o \in Nat
    BY <1>0, <1>1
  <2>2. m # t + 1
    BY <2>1, <1>2, <1>3, <1>6
  <2>3. m \in 1 .. t
    BY <2>1, <2>2, <1>1
  <2> QED
    BY <2>3, <1>4, <1>6 DEF Holds
<1> QED
  BY <1>7, <1>8, <1>9 DEF Window, b
-----------------------------------------------------------------------------
LEMMA InitInv == Init => Inv
<1> SUFFICES ASSUME Init PROVE Inv
  OBVIOUS
<1>1. Count \in Nat /\ Count >= 1 /\ \A m \in 1 .. Count : Sizes[m] \in Nat /\ Sizes[m] > 0
  BY SizesFacts
<1>2. Types
  <2>1. ConnectionTypes
    BY DEF Init, ConnectionTypes
  <2>4. wire \in Seq(Letter)
    BY DEF Init
  <2>2. SenderTypes
    BY <1>1 DEF Init, SenderTypes
  <2>3. ReceiverTypes
    BY ChannelAssumption DEF Init, ReceiverTypes
  <2> QED
    BY <2>1, <2>2, <2>3, <2>4 DEF Types
<1>3. SenderOK /\ ReceiverOK
  BY <1>1 DEF Init, SenderOK, ReceiverOK
<1>4. Stream
  <2> DEFINE pos == [m \in Nat |-> 1]
  <2>1. pos \in Positions /\ pos[1] = 1
    BY DEF Positions
  <2>2. 1 \in 1 .. Count + 1
    BY <1>1
  <2>3. Len(wire) = 0 /\ Len(received) = 0
    BY DEF Init
  <2> HIDE DEF pos
  <2>4. Laid(pos, 1)
    BY DEF Laid
  <2>5. Within(wire, pos, 1)
    BY <1>1, <2>1, <2>3 DEF Within
  <2>6. Holds(wire, pos, 1)
    BY <2>1, <2>3 DEF Holds
  <2>7. ReceiverAt(pos, 1)
    BY <2>1, <2>3 DEF Init, ReceiverAt
  <2>8. SenderAt(pos, 1)
    BY <2>1, <2>3 DEF Init, SenderAt
  <2> QED
    BY <2>1, <2>2, <2>4, <2>5, <2>6, <2>7, <2>8 DEF Stream, Window
<1>5. Framing
  BY <1>1 DEF Init, Framing, Count
<1> QED
  BY <1>2, <1>3, <1>4, <1>5 DEF Inv

(* A step that moves nothing leaves a broken connection's stream as it is. *)
LEMMA StreamKept ==
    ASSUME Stream, ~up', UNCHANGED <<wire, receiving>>
    PROVE  Stream'
BY DEF Stream, ReceiverAt, receiving

(* A loss cuts the stream. *)
LEMMA LoseInv ==
    ASSUME Inv, Lose
    PROVE  Inv'
<1>1. PICK n \in 0 .. Len(wire) : wire' = SubSeq(wire, 1, n)
  BY DEF Lose
<1>2. /\ up' = FALSE /\ UNCHANGED <<broken, lostReturn, sender, msg, sendedSize, accepted, results>>
      /\ UNCHANGED <<receiver, len, receivedSize, data, received>>
  BY DEF Lose, sending, receiving
<1>3. wire \in Seq(Letter)
  BY DEF Inv, Types
<1>4. wire' \in Seq(Letter)
  BY <1>1, <1>3, CutSeq
<1>5. Types'
  <2>1. ConnectionTypes' /\ SenderTypes' /\ ReceiverTypes'
    BY <1>2 DEF Inv, Types, ConnectionTypes, SenderTypes, ReceiverTypes
  <2> QED
    BY <1>4, <2>1 DEF Types
<1>6. SenderOK'
  BY <1>2 DEF Inv, SenderOK
<1>7. ReceiverOK'
  <2>1. ASSUME wire = <<>> PROVE wire' = <<>>
    <3>1. n = 0 /\ Len(wire') = 0
      BY <1>1, <1>3, <2>1, CutSeq
    <3> QED
      BY <1>4, <3>1, EmptySeq
  <2> QED
    BY <1>2, <2>1 DEF Inv, ReceiverOK
<1>8. Stream'
  <2>1. PICK t \in 1 .. Count + 1, pos \in Positions :
           Window(wire, pos, t) /\ ReceiverAt(pos, t)
    BY DEF Inv, Stream
  <2>2. Window(wire', pos, t)
    BY <1>1, <1>3, <2>1, WindowCut
  <2>3. ReceiverAt(pos, t)'
    BY <1>2, <2>1 DEF ReceiverAt
  <2> QED
    BY <1>2, <2>2, <2>3 DEF Stream
<1>9. Framing'
  BY <1>2 DEF Inv, Framing
<1> QED
  BY <1>5, <1>6, <1>7, <1>8, <1>9 DEF Inv
-----------------------------------------------------------------------------
(* The steps of the sender leave the receiver alone; what they add while     *)
(* the connection holds keeps the receiver where it is in the stream.        *)
LEMMA SenderKeeps ==
    ASSUME Inv, UNCHANGED <<up, receiving>>, up \/ UNCHANGED wire
    PROVE  ReceiverTypes' /\ ReceiverOK' /\ Framing'
<1>1. UNCHANGED <<up, receiver, len, receivedSize, data, received>>
  BY DEF receiving
<1>2. ReceiverTypes'
  BY <1>1 DEF Inv, Types, ReceiverTypes
<1>3. ReceiverOK'
  BY <1>1 DEF Inv, ReceiverOK
<1>4. Framing'
  BY <1>1 DEF Inv, Framing
<1> QED
  BY <1>2, <1>3, <1>4

LEMMA LengthLetter ==
    ASSUME NEW m \in 1 .. Count
    PROVE  /\ <<[len |-> Sizes[m]]>> \in Seq(Letter)
           /\ Len(<<[len |-> Sizes[m]]>>) = 1
           /\ Continues(<<[len |-> Sizes[m]]>>, m, 0)
<1> DEFINE x == [len |-> Sizes[m]]
<1>1. Sizes[m] \in Nat /\ m \in Nat
  BY SizesFacts
<1>2. x \in Letter /\ Item(m, 0) = x
  BY <1>1 DEF Letter, Item
<1> HIDE DEF x
<1>3. <<x>> \in Seq(Letter) /\ Len(<<x>>) = 1 /\ <<x>>[1] = x
  BY <1>2
<1>4. Continues(<<x>>, m, 0)
  BY <1>2, <1>3 DEF Continues
<1> QED
  BY <1>3, <1>4 DEF x

LEMMA ByteLetters ==
    ASSUME NEW m \in 1 .. Count, NEW s \in Nat, NEW n \in Nat
    PROVE  /\ [o \in 1 .. n |-> Byte(m, s + o)] \in Seq(Letter)
           /\ Len([o \in 1 .. n |-> Byte(m, s + o)]) = n
           /\ Continues([o \in 1 .. n |-> Byte(m, s + o)], m, s + 1)
<1> DEFINE b == [o \in 1 .. n |-> Byte(m, s + o)]
<1>1. m \in Nat
  BY SizesFacts
<1>2. \A o \in 1 .. n : Byte(m, s + o) \in Letter
  BY <1>1 DEF Letter, Bytes, Byte
<1>3. b \in Seq(Letter) /\ Len(b) = n /\ \A o \in 1 .. n : b[o] = Byte(m, s + o)
  BY <1>2, SeqDef
<1> HIDE DEF b
<1>4. Continues(b, m, s + 1)
  <2> SUFFICES ASSUME NEW i \in 1 .. n PROVE b[i] = Item(m, s + 1 + i - 1)
    BY <1>3 DEF Continues
  <2>1. s + 1 + i - 1 = s + i /\ s + i # 0
    OBVIOUS
  <2> QED
    BY <2>1, <1>3 DEF Item
<1> QED
  BY <1>3, <1>4 DEF b

LEMMA ConcatJoined ==
    ASSUME NEW w \in Seq(Letter), NEW e \in Seq(Letter)
    PROVE  w \o e \in Seq(Letter) /\ Joined(w \o e, w, e)
BY ConcatProperties DEF Joined

LEMMA SendHeaderInv ==
    ASSUME Inv, SendHeader
    PROVE  Inv'
<1>1. /\ UNCHANGED <<up, broken, lostReturn, msg, results>>
      /\ UNCHANGED receiving /\ UNCHANGED connection
      /\ sender = "header" /\ sender' = "body" /\ sendedSize' = 0 /\ accepted' = 0
      /\ Transfer(<<[len |-> Sizes[msg]]>>)
  BY DEF SendHeader, connection
<1>2. msg \in 1 .. Count
  BY <1>1, SizesFacts DEF Inv, Types, SenderTypes, SenderOK
<1> DEFINE e == <<[len |-> Sizes[msg]]>>
<1>3. e \in Seq(Letter) /\ Len(e) = 1 /\ Continues(e, msg, 0)
  BY <1>2, LengthLetter
<1>4. wire' = IF up THEN wire \o e ELSE wire
  BY <1>1 DEF Transfer
<1> HIDE DEF e
<1>5. wire \in Seq(Letter)
  BY DEF Inv, Types
<1>6. wire' \in Seq(Letter)
  BY <1>3, <1>4, <1>5, ConcatJoined
<1>7. ReceiverTypes' /\ ReceiverOK' /\ Framing'
  BY <1>1, <1>4, SenderKeeps
<1>8. ConnectionTypes' /\ SenderTypes'
  BY <1>1 DEF Inv, Types, ConnectionTypes, SenderTypes
<1>9. SenderOK'
  <2>1. Sizes[msg] \in Nat /\ Sizes[msg] > 0 /\ msg # Count + 1
    BY <1>2, SizesFacts
  <2> QED
    BY <1>1, <2>1 DEF SenderOK
<1>10. Stream'
  <2>1. CASE ~up
    BY <1>1, <1>4, <2>1, StreamKept DEF Inv
  <2>2. CASE up
    <3>1. PICK t \in 1 .. Count + 1, pos \in Positions :
             Window(wire, pos, t) /\ ReceiverAt(pos, t) /\ SenderAt(pos, t)
      BY <2>2 DEF Inv, Stream
    <3>2. t = msg /\ ~broken /\ pos[t] = Len(wire) + 1
      BY <1>1, <3>1 DEF SenderAt
    <3>3. Joined(wire', wire, e) /\ Len(wire') = Len(wire) + 1 /\ Len(wire) \in Nat
      BY <1>3, <1>4, <1>5, <2>2, ConcatJoined, LenProperties DEF Joined
    <3>4. pos[t] \in Int /\ pos[t] + 0 = Len(wire) + 1
      BY <3>2, <3>3
    <3>5. 0 + Len(e) <= Sizes[t]
      BY <1>2, <1>3, <3>2, SizesFacts
    <3>6. Window(wire', pos, t)
      BY <1>2, <1>3, <1>5, <3>1, <3>2, <3>3, <3>4, <3>5, WindowMore
    <3>7. ReceiverAt(pos, t)'
      BY <1>1, <3>1 DEF ReceiverAt, receiving
    <3>8. SenderAt(pos, t)'
      <4>1. pos[t] + 0 = Len(wire')
        BY <3>3, <3>4
      <4> QED
        BY <1>1, <3>2, <4>1 DEF SenderAt
    <3> QED
      BY <3>6, <3>7, <3>8 DEF Stream
  <2> QED
    BY <2>1, <2>2
<1> QED
  BY <1>6, <1>7, <1>8, <1>9, <1>10 DEF Inv, Types

LEMMA ReturnsTypes ==
    ASSUME Inv, msg \in 1 .. Count, NEW r \in BOOLEAN, SendReturns(r),
           accepted' \in Nat, sendedSize' \in Int
    PROVE  /\ SenderTypes' /\ SenderOK'
           /\ msg' = msg + 1 /\ sender' # "body"
<1>1. Count \in Nat /\ msg \in Nat
  BY SizesFacts
<1>2. /\ msg' = msg + 1
      /\ sender' = IF msg = Count THEN "end" ELSE "header"
      /\ results' = Append(results, [ok |-> r, written |-> accepted'])
  BY DEF SendReturns, Count
<1>3. results' \in Seq([ok : BOOLEAN, written : Nat])
  <2>1. [ok |-> r, written |-> accepted'] \in [ok : BOOLEAN, written : Nat]
    OBVIOUS
  <2>2. results \in Seq([ok : BOOLEAN, written : Nat])
    BY DEF Inv, Types, SenderTypes
  <2> QED
    BY <1>2, <2>1, <2>2, AppendProperties
<1>4. SenderTypes'
  BY <1>1, <1>2, <1>3 DEF SenderTypes
<1>5. SenderOK'
  BY <1>1, <1>2 DEF SenderOK
<1> QED
  BY <1>2, <1>4, <1>5

LEMMA SendHeaderFailsInv ==
    ASSUME Inv, SendHeaderFails
    PROVE  Inv'
<1>1. /\ UNCHANGED <<up, lostReturn, wire, sendedSize>> /\ UNCHANGED receiving
      /\ sender = "header" /\ ~up /\ broken' = TRUE /\ accepted' = 0
      /\ SendReturns(FALSE)
  BY DEF SendHeaderFails
<1>2. msg \in 1 .. Count
  BY <1>1, SizesFacts DEF Inv, Types, SenderTypes, SenderOK
<1>3. sendedSize' \in Int /\ accepted' \in Nat
  BY <1>1 DEF Inv, Types, SenderTypes
<1>4. SenderTypes' /\ SenderOK'
  BY <1>1, <1>2, <1>3, ReturnsTypes
<1>5. ReceiverTypes' /\ ReceiverOK' /\ Framing'
  BY <1>1, SenderKeeps
<1>6. ConnectionTypes' /\ wire' \in Seq(Letter)
  BY <1>1 DEF Inv, Types, ConnectionTypes
<1>7. Stream'
  BY <1>1, StreamKept DEF Inv
<1> QED
  BY <1>4, <1>5, <1>6, <1>7 DEF Inv, Types

(* The end of a turn: the loop goes on, or SendData returns. *)
LEMMA TurnTypes ==
    ASSUME Inv, sender = "body", msg \in 1 .. Count, NEW s \in Int, SendTurn(s),
           accepted' \in Nat, s \in Nat => s <= Sizes[msg], s \in Nat \/ s = -1
    PROVE  /\ SenderTypes' /\ SenderOK' /\ sendedSize' = s
           /\ s \in Nat /\ s < Sizes[msg] => UNCHANGED <<sender, msg>>
           /\ s = Sizes[msg] => msg' = msg + 1 /\ sender' # "body"
<1>1. Sizes[msg] \in Nat /\ Count \in Nat
  BY SizesFacts
<1>2. CASE MoreToSend(s)
  <2>1. s \in Nat /\ s < Sizes[msg]
    BY <1>2, LoopTest
  <2>2. UNCHANGED <<sender, msg, results>> /\ sendedSize' = s
    BY <1>2 DEF SendTurn
  <2>3. SenderTypes'
    BY <2>2 DEF Inv, Types, SenderTypes
  <2>4. SenderOK'
    BY <2>1, <2>2 DEF Inv, SenderOK
  <2> QED
    BY <1>1, <2>1, <2>2, <2>3, <2>4
<1>3. CASE ~MoreToSend(s)
  <2>1. ~(s \in Nat /\ s < Sizes[msg])
    BY <1>1, <1>3, LoopTest
  <2>2. SendReturns(TRUE) /\ sendedSize' = s
    BY <1>3 DEF SendTurn
  <2>3. SenderTypes' /\ SenderOK' /\ msg' = msg + 1 /\ sender' # "body"
    BY <2>2, ReturnsTypes
  <2> QED
    BY <2>1, <2>2, <2>3
<1> QED
  BY <1>2, <1>3

LEMMA SendBodyInv ==
    ASSUME Inv, SendBody
    PROVE  Inv'
<1>1. /\ UNCHANGED <<up, broken, lostReturn>> /\ UNCHANGED receiving
      /\ sender = "body" /\ ~broken
  BY DEF SendBody, connection
<1>2. msg \in 1 .. Count /\ sendedSize \in Nat /\ sendedSize < Sizes[msg] /\ accepted \in Nat
  BY <1>1, SizesFacts DEF Inv, Types, SenderTypes, SenderOK
<1>3. Sizes[msg] \in Nat /\ Count \in Nat /\ msg \in Nat
  BY <1>2, SizesFacts
<1>4. PICK n \in 1 .. Sizes[msg] - sendedSize :
         /\ Transfer(BytesToSend(n))
         /\ accepted' = accepted + n
         /\ SendTurn(sendedSize + n)
  BY DEF SendBody
<1>5. n \in Nat /\ n >= 1 /\ sendedSize + n \in Nat /\ sendedSize + n <= Sizes[msg]
  BY <1>2, <1>3
<1> DEFINE e == BytesToSend(n)
<1>6. e \in Seq(Letter) /\ Len(e) = n /\ Continues(e, msg, sendedSize + 1)
  BY <1>2, <1>5, ByteLetters DEF BytesToSend
<1>7. wire' = IF up THEN wire \o e ELSE wire
  BY <1>4 DEF Transfer
<1> HIDE DEF e
<1>8. wire \in Seq(Letter)
  BY DEF Inv, Types
<1>9. wire' \in Seq(Letter)
  BY <1>6, <1>7, <1>8, ConcatJoined
<1>10. ReceiverTypes' /\ ReceiverOK' /\ Framing'
  BY <1>1, <1>7, SenderKeeps
<1>11. ConnectionTypes'
  BY <1>1 DEF Inv, Types, ConnectionTypes
<1>12. accepted' \in Nat
  BY <1>2, <1>4, <1>5
<1>13. /\ SenderTypes' /\ SenderOK' /\ sendedSize' = sendedSize + n
       /\ sendedSize + n < Sizes[msg] => UNCHANGED <<sender, msg>>
       /\ sendedSize + n = Sizes[msg] => msg' = msg + 1 /\ sender' # "body"
  <2>1. sendedSize + n \in Int
    BY <1>5
  <2> QED
    BY <1>1, <1>2, <1>4, <1>5, <1>12, <2>1, TurnTypes
<1>14. Stream'
  <2>1. CASE ~up
    BY <1>1, <1>7, <2>1, StreamKept DEF Inv
  <2>2. CASE up
    <3>1. PICK t \in 1 .. Count + 1, pos \in Positions :
             Window(wire, pos, t) /\ ReceiverAt(pos, t) /\ SenderAt(pos, t)
      BY <2>2 DEF Inv, Stream
    <3>2. t = msg /\ pos[t] + sendedSize = Len(wire)
      BY <1>1, <3>1 DEF SenderAt
    <3>3. Joined(wire', wire, e) /\ Len(wire') = Len(wire) + n /\ Len(wire) \in Nat
      BY <1>6, <1>7, <1>8, <2>2, ConcatJoined, LenProperties DEF Joined
    <3>4. pos[t] \in Int
      BY <1>3, <3>2 DEF Positions
    <3>5. pos[t] + (sendedSize + 1) = Len(wire) + 1 /\ sendedSize + 1 \in Nat
      BY <1>2, <3>2, <3>3, <3>4
    <3>6. CASE sendedSize + n < Sizes[msg]
      <4>1. sendedSize + 1 + Len(e) <= Sizes[t]
        BY <1>2, <1>3, <1>5, <1>6, <3>2, <3>6
      <4>2. Window(wire', pos, t)
        BY <1>2, <1>6, <1>8, <3>1, <3>2, <3>3, <3>5, <4>1, WindowMore
      <4>3. ReceiverAt(pos, t)'
        BY <1>1, <3>1 DEF ReceiverAt, receiving
      <4>4. pos[t] + (sendedSize + n) = Len(wire')
        BY <1>2, <1>5, <3>2, <3>3, <3>4
      <4>5. SenderAt(pos, t)'
        BY <1>1, <1>13, <3>2, <3>6, <4>4 DEF SenderAt
      <4> QED
        BY <4>2, <4>3, <4>5 DEF Stream
    <3>7. CASE sendedSize + n = Sizes[msg]
      <4>1. sendedSize + 1 + Len(e) = Sizes[t] + 1
        BY <1>2, <1>3, <1>5, <1>6, <3>2, <3>7
      <4>2. [pos EXCEPT ![t + 1] = Len(wire') + 1] \in Positions
        BY <1>9, LenProperties DEF Positions
      <4>3. PICK b \in Positions : b = [pos EXCEPT ![t + 1] = Len(wire') + 1]
        BY <4>2
      <4>4. Window(wire', b, t + 1)
        BY <1>2, <1>6, <1>8, <3>1, <3>2, <3>3, <3>5, <4>1, <4>3, WindowWhole
      <4>8. b[t + 1] = Len(wire') + 1 /\ \A m \in 1 .. t : b[m] = pos[m]
        BY <1>3, <3>2, <4>3 DEF Positions
      <4>5. ReceiverAt(b, t + 1)'
        <5>1. received \in Seq(Seq(Bytes)) /\ UNCHANGED <<receiver, data, received>>
          BY <1>1 DEF Inv, Types, ReceiverTypes, receiving
        <5>2. Len(received) + 1 \in 1 .. t
          BY <1>3, <3>1, <3>2, <5>1, LenProperties DEF ReceiverAt
        <5>3. b[Len(received) + 1] = pos[Len(received) + 1]
          BY <4>8, <5>2
        <5>4. Len(received) + 1 <= t + 1
          BY <1>3, <3>2, <5>2
        <5> QED
          BY <3>1, <5>1, <5>3, <5>4 DEF ReceiverAt
      <4>6. SenderAt(b, t + 1)'
        BY <1>1, <1>13, <3>2, <3>7, <4>8 DEF SenderAt
      <4>7. t + 1 \in 1 .. Count + 1
        BY <1>2, <1>3, <3>2
      <4> QED
        BY <4>4, <4>5, <4>6, <4>7 DEF Stream
    <3> QED
      BY <1>3, <1>5, <3>6, <3>7
  <2> QED
    BY <2>1, <2>2
<1> QED
  BY <1>9, <1>10, <1>11, <1>13, <1>14 DEF Inv, Types

LEMMA SendBodyFailsInv ==
    ASSUME Inv, SendBodyFails
    PROVE  Inv'
<1>1. /\ UNCHANGED <<up, lostReturn, wire, accepted>> /\ UNCHANGED receiving
      /\ sender = "body" /\ ~up /\ broken' = TRUE
      /\ SendTurn(sendedSize + lostReturn)
  BY DEF SendBodyFails
<1>2. /\ msg \in 1 .. Count /\ sendedSize \in Nat /\ accepted \in Nat
      /\ sendedSize <= Sizes[msg] /\ lostReturn \in {0, -1}
  BY <1>1, SizesFacts DEF Inv, Types, SenderTypes, ConnectionTypes, SenderOK
<1>3. /\ sendedSize + lostReturn \in Int
      /\ sendedSize + lostReturn \in Nat => sendedSize + lostReturn <= Sizes[msg]
      /\ sendedSize + lostReturn \in Nat \/ sendedSize + lostReturn = -1
  BY <1>2, SizesFacts
<1>4. SenderTypes' /\ SenderOK'
  BY <1>1, <1>2, <1>3, TurnTypes
<1>5. ReceiverTypes' /\ ReceiverOK' /\ Framing'
  BY <1>1, SenderKeeps
<1>6. ConnectionTypes' /\ wire' \in Seq(Letter)
  BY <1>1 DEF Inv, Types, ConnectionTypes
<1>7. Stream'
  BY <1>1, StreamKept DEF Inv
<1> QED
  BY <1>4, <1>5, <1>6, <1>7 DEF Inv, Types
-----------------------------------------------------------------------------
(* The steps of the receiver leave the sender alone; when they take n        *)
(* letters, the window begins n letters later.                               *)
LEMMA ReceiverKeeps ==
    ASSUME Inv, UNCHANGED <<connection, sending>>
    PROVE  /\ ConnectionTypes' /\ SenderTypes' /\ SenderOK'
           /\ UNCHANGED <<up, broken, msg, sender, sendedSize>>
<1>1. /\ UNCHANGED <<up, broken, lostReturn>>
      /\ UNCHANGED <<sender, msg, sendedSize, accepted, results>>
  BY DEF connection, sending
<1>2. ConnectionTypes'
  BY <1>1 DEF Inv, Types, ConnectionTypes
<1>3. SenderTypes' /\ SenderOK'
  BY <1>1 DEF Inv, Types, SenderTypes, SenderOK
<1> QED
  BY <1>1, <1>2, <1>3

LEMMA WindowMoves ==
    ASSUME Inv, NEW t \in 1 .. Count + 1, NEW pos \in Positions, Window(wire, pos, t),
           up => SenderAt(pos, t), NEW n \in 0 .. Len(wire),
           wire' = SubSeq(wire, n + 1, Len(wire)),
           UNCHANGED <<up, broken, msg, sender, sendedSize>>
    PROVE  /\ wire' \in Seq(Letter)
           /\ \E b \in Positions :
                 /\ \A m \in Nat : b[m] = pos[m] - n
                 /\ Window(wire', b, t)
                 /\ up' => SenderAt(b, t)'
<1>1. wire \in Seq(Letter)
  BY DEF Inv, Types
<1>2. Len(wire) \in Nat /\ n \in Nat
  BY <1>1, LenProperties
<1>3. wire' \in Seq(Letter) /\ Len(wire') = Len(wire) - n
  BY <1>1, DropSeq
<1>4. [m \in Nat |-> pos[m] - n] \in Positions
  BY <1>2 DEF Positions
<1>5. PICK b \in Positions : b = [m \in Nat |-> pos[m] - n]
  BY <1>4
<1>6. \A m \in Nat : b[m] = pos[m] - n
  BY <1>5
<1>7. Window(wire', b, t)
  BY <1>1, <1>5, WindowDrop
<1>8. ASSUME up' PROVE SenderAt(b, t)'
  <2>1. SenderAt(pos, t)
    BY <1>8
  <2>2. t \in Nat /\ pos[t] \in Int /\ sendedSize \in Int
    BY SizesFacts DEF Positions, Inv, Types, SenderTypes
  <2>3. b[t] = pos[t] - n
    BY <1>6, <2>2
  <2>4. pos[t] = Len(wire) + 1 => b[t] = Len(wire') + 1
    BY <1>2, <1>3, <2>2, <2>3
  <2>5. pos[t] + sendedSize = Len(wire) => b[t] + sendedSize = Len(wire')
    BY <1>2, <1>3, <2>2, <2>3
  <2> QED
    BY <2>1, <2>4, <2>5 DEF SenderAt
<1> QED
  BY <1>3, <1>6, <1>7, <1>8

(* The receiver's message and what it is asked for next. *)
LEMMA ReceiverFacts ==
    ASSUME Inv
    PROVE  /\ Len(received) \in Nat /\ Len(data) \in Nat /\ len \in Nat /\ Len(wire) \in Nat
           /\ receivedSize \in Int /\ MaxError \in Nat /\ Count \in Nat
BY LenProperties, ChannelAssumption, SizesFacts DEF Inv, Types, ReceiverTypes

LEMMA RecvHeaderInv ==
    ASSUME Inv, RecvHeader
    PROVE  Inv'
<1> DEFINE M == Len(received) + 1
<1>1. /\ receiver = "header" /\ wire # <<>> /\ len' = Head(wire).len
      /\ wire' = Tail(wire) /\ receivedSize' = 0 /\ data' = <<>> /\ receiver' = "body"
      /\ UNCHANGED <<connection, sending>> /\ UNCHANGED received
  BY DEF RecvHeader
<1>2. /\ Len(received) \in Nat /\ Len(wire) \in Nat /\ Count \in Nat
      /\ wire \in Seq(Letter) /\ received \in Seq(Seq(Bytes))
  BY ReceiverFacts DEF Inv, Types, ReceiverTypes
<1>3. PICK t \in 1 .. Count + 1, pos \in Positions :
         /\ Window(wire, pos, t) /\ ReceiverAt(pos, t)
         /\ up => SenderAt(pos, t)
  BY DEF Inv, Stream
<1>4. M \in Nat /\ M <= t /\ t \in Nat /\ pos[M] = 1 /\ M' = M
  BY <1>1, <1>2, <1>3 DEF ReceiverAt
<1>5. Len(wire) >= 1
  BY <1>1, <1>2, EmptySeq
<1> HIDE DEF M
<1>6. M <= Count /\ M \in 1 .. Count
  <2>1. M # Count + 1
    BY <1>2, <1>3, <1>4, <1>5 DEF Window, Within
  <2> QED
    BY <2>1, <1>2, <1>4 DEF M
<1>7. len' = Sizes[M] /\ Sizes[M] \in Nat /\ Sizes[M] > 0
  <2>1. Sizes[M] \in Nat /\ Sizes[M] > 0
    BY <1>6, SizesFacts
  <2>2. M \in 1 .. t /\ 0 \in 0 .. Sizes[M] /\ pos[M] + 0 = 1 /\ 1 \in 1 .. Len(wire)
    BY <1>2, <1>4, <1>5, <1>6, <2>1
  <2>3. wire[1] = Item(M, 0)
    BY <1>3, <1>6, <2>2 DEF Window, Holds
  <2>4. Head(wire) = wire[1]
    BY <1>1, <1>2
  <2>5. Head(wire) = [len |-> Sizes[M]]
    BY <2>3, <2>4 DEF Item
  <2> QED
    BY <1>1, <2>1, <2>5
<1>8. wire' = SubSeq(wire, 1 + 1, Len(wire)) /\ 1 \in 0 .. Len(wire)
  BY <1>1, <1>2, <1>5, TailIsSubSeq
<1>9. /\ ConnectionTypes' /\ SenderTypes' /\ SenderOK'
      /\ UNCHANGED <<up, broken, msg, sender, sendedSize>>
  BY <1>1, ReceiverKeeps
<1>10. wire' \in Seq(Letter) /\ \E b \in Positions :
          /\ \A m \in Nat : b[m] = pos[m] - 1
          /\ Window(wire', b, t)
          /\ up' => SenderAt(b, t)'
  BY <1>3, <1>8, <1>9, WindowMoves
<1>11. Stream'
  <2>1. PICK b \in Positions :
          /\ \A m \in Nat : b[m] = pos[m] - 1
          /\ Window(wire', b, t)
          /\ up' => SenderAt(b, t)'
    BY <1>10
  <2>2. b[M] = 0 /\ Len(data') = 0 /\ Len(received') + 1 = M
    BY <1>1, <1>4, <2>1 DEF M
  <2>3. ReceiverAt(b, t)'
    BY <1>1, <1>4, <2>2 DEF ReceiverAt
  <2> QED
    BY <2>1, <2>3 DEF Stream
<1>12. ReceiverTypes'
  BY <1>1, <1>2, <1>7, ChannelAssumption DEF ReceiverTypes
<1>13. ReceiverOK'
  <2>1. data' = Prefix(M, Len(data'))
    BY <1>1 DEF Prefix
  <2>2. Len(data') = 0 /\ Len(received') + 1 = M
    BY <1>1 DEF M
  <2> QED
    BY <1>1, <1>6, <1>7, <2>1, <2>2 DEF ReceiverOK
<1>14. Framing'
  BY <1>1 DEF Inv, Framing
<1> QED
  BY <1>9, <1>10, <1>11, <1>12, <1>13, <1>14 DEF Inv, Types

LEMMA RecvHeaderFailsInv ==
    ASSUME Inv, RecvHeaderFails
    PROVE  Inv'
<1>1. /\ receiver = "header" /\ ~up /\ receiver' = "failed"
      /\ UNCHANGED <<connection, sending>> /\ UNCHANGED <<wire, len, receivedSize, data, received>>
  BY DEF RecvHeaderFails
<1>2. /\ ConnectionTypes' /\ SenderTypes' /\ SenderOK'
      /\ UNCHANGED <<up, broken, msg, sender, sendedSize>>
  BY <1>1, ReceiverKeeps
<1>3. Stream'
  <2>1. PICK t \in 1 .. Count + 1, pos \in Positions :
           Window(wire, pos, t) /\ ReceiverAt(pos, t)
    BY DEF Inv, Stream
  <2>2. ReceiverAt(pos, t)'
    BY <1>1, <2>1 DEF ReceiverAt
  <2> QED
    BY <1>1, <1>2, <2>1, <2>2 DEF Stream
<1>4. ReceiverTypes'
  BY <1>1 DEF Inv, Types, ReceiverTypes
<1>5. ReceiverOK'
  BY <1>1 DEF ReceiverOK
<1>6. Framing'
  BY <1>1 DEF Inv, Framing
<1>7. wire' \in Seq(Letter)
  BY <1>1 DEF Inv, Types
<1> QED
  BY <1>2, <1>3, <1>4, <1>5, <1>6, <1>7 DEF Inv, Types

(* A failed read adds no byte, and cannot complete the message. *)
LEMMA RecvBodyFailsInv ==
    ASSUME Inv, RecvBodyFails
    PROVE  Inv'
<1> DEFINE s == IF receivedSize > -MaxError THEN receivedSize + lostReturn ELSE receivedSize
<1>1. /\ receiver = "body" /\ ~up /\ wire = <<>> /\ RecvTurn(s, <<>>)
      /\ UNCHANGED <<connection, sending>> /\ UNCHANGED <<wire, len>>
  BY DEF RecvBodyFails
<1>2. /\ Len(data) \in Nat /\ len \in Nat /\ receivedSize \in -MaxError .. len
      /\ MaxError \in Nat /\ lostReturn \in {0, -1}
      /\ receivedSize <= Len(data) /\ Len(data) < len /\ data \in Seq(Bytes)
  BY <1>1, ReceiverFacts DEF Inv, Types, ReceiverTypes, ConnectionTypes, ReceiverOK
<1>3. s \in -MaxError .. len /\ s <= Len(data) /\ s < len
  BY <1>2
<1> HIDE DEF s
<1>4. receivedSize' = s /\ data' = data /\ UNCHANGED <<receiver, received>>
  <2>1. data \o <<>> = data
    BY <1>2, ConcatEmptySeq
  <2> QED
    BY <1>1, <1>3, <2>1 DEF RecvTurn
<1>5. /\ ConnectionTypes' /\ SenderTypes' /\ SenderOK'
      /\ UNCHANGED <<up, broken, msg, sender, sendedSize>>
  BY <1>1, ReceiverKeeps
<1>6. Stream'
  <2>1. PICK t \in 1 .. Count + 1, pos \in Positions :
           Window(wire, pos, t) /\ ReceiverAt(pos, t)
    BY DEF Inv, Stream
  <2>2. ReceiverAt(pos, t)'
    BY <1>4, <2>1 DEF ReceiverAt
  <2> QED
    BY <1>1, <1>5, <2>1, <2>2 DEF Stream
<1>7. ReceiverTypes'
  BY <1>1, <1>3, <1>4 DEF Inv, Types, ReceiverTypes
<1>8. ReceiverOK'
  BY <1>1, <1>3, <1>4, <1>5 DEF Inv, ReceiverOK
<1>9. Framing'
  BY <1>4 DEF Inv, Framing
<1>10. wire' \in Seq(Letter)
  BY <1>1 DEF Inv, Types
<1> QED
  BY <1>5, <1>6, <1>7, <1>8, <1>9, <1>10 DEF Inv, Types

(* Bytes that continue a prefix of a message give a longer prefix. *)
LEMMA LongerPrefix ==
    ASSUME NEW m \in Nat, NEW d \in Seq(Bytes), d = Prefix(m, Len(d)), NEW x \in Seq(Letter),
           \A i \in 1 .. Len(x) : x[i] = Byte(m, Len(d) + i)
    PROVE  /\ d \o x = Prefix(m, Len(d) + Len(x))
           /\ d \o x \in Seq(Bytes)
           /\ Len(d \o x) = Len(d) + Len(x)
<1>1. Len(d) \in Nat /\ Len(x) \in Nat
  BY LenProperties
<1>2. d \in Seq(Letter)
  <2>1. \A i \in 1 .. Len(d) : d[i] \in Letter
    BY ElementOfSeq DEF Letter
  <2> QED
    BY <2>1, <1>1, SeqDef, LenProperties
<1>3. /\ d \o x \in Seq(Letter) /\ Len(d \o x) = Len(d) + Len(x)
      /\ \A i \in 1 .. Len(d) + Len(x) : (d \o x)[i] = IF i <= Len(d) THEN d[i] ELSE x[i - Len(d)]
  BY <1>2, ConcatProperties
<1>4. \A i \in 1 .. Len(d) : d[i] = Byte(m, i)
  BY DEF Prefix
<1>5. ASSUME NEW i \in 1 .. Len(d) + Len(x)
      PROVE  (d \o x)[i] = Byte(m, i)
  <2>1. CASE i <= Len(d)
    <3>1. i \in 1 .. Len(d)
      BY <2>1, <1>1
    <3> QED
      BY <2>1, <3>1, <1>3, <1>4
  <2>2. CASE ~(i <= Len(d))
    <3>1. i - Len(d) \in 1 .. Len(x) /\ Len(d) + (i - Len(d)) = i
      BY <2>2, <1>1
    <3>2. x[i - Len(d)] = Byte(m, Len(d) + (i - Len(d)))
      BY <3>1
    <3> QED
      BY <2>2, <3>1, <3>2, <1>3
  <2> QED
    BY <2>1, <2>2
<1>6. Len(d) + Len(x) \in Nat
  BY <1>1
<1> DEFINE y == d \o x
           n == Len(d) + Len(x)
<1>7. y \in Seq(Letter) /\ Len(y) = n /\ n \in Nat /\ \A i \in 1 .. n : y[i] = Byte(m, i)
  BY <1>3, <1>5, <1>6
<1> HIDE DEF y, n
<1>8. DOMAIN y = 1 .. n /\ y = [i \in 1 .. n |-> y[i]]
  BY <1>7, LenProperties, SeqDef
<1>9. y = Prefix(m, n)
  BY <1>7, <1>8 DEF Prefix
<1>10. \A i \in 1 .. n : Byte(m, i) \in Bytes
  BY <1>7 DEF Byte, Bytes
<1>11. y \in Seq(Bytes)
  BY <1>7, <1>8, <1>10, SeqDef
<1> QED
  BY <1>7, <1>9, <1>11 DEF y, n

LEMMA RecvBodyInv ==
    ASSUME Inv, RecvBody
    PROVE  Inv'
<1> DEFINE M == Len(received) + 1
<1>1. receiver = "body" /\ UNCHANGED <<connection, sending>> /\ UNCHANGED len
  BY DEF RecvBody
<1>2. PICK n \in 1 .. Len(wire) :
         /\ n <= Wanted
         /\ RecvTurn(receivedSize + n, SubSeq(wire, 1, n))
         /\ wire' = SubSeq(wire, n + 1, Len(wire))
  BY DEF RecvBody
<1>3. /\ Len(received) \in Nat /\ Len(wire) \in Nat /\ Count \in Nat /\ Len(data) \in Nat
      /\ len \in Nat /\ wire \in Seq(Letter) /\ received \in Seq(Seq(Bytes)) /\ data \in Seq(Bytes)
      /\ MaxError \in Nat
  BY ReceiverFacts DEF Inv, Types, ReceiverTypes
<1>4. n \in Nat /\ n >= 1 /\ n \in 0 .. Len(wire)
  BY <1>3
<1>5. /\ M \in 1 .. Count /\ M <= Count /\ len = Sizes[M] /\ Len(data) < len
      /\ data = Prefix(M, Len(data)) /\ receivedSize = Len(data)
  <2>1. wire # <<>>
    BY <1>3, <1>4, EmptySeq
  <2> QED
    BY <1>1, <1>3, <2>1 DEF Inv, ReceiverOK
<1>6. PICK t \in 1 .. Count + 1, pos \in Positions :
         /\ Window(wire, pos, t) /\ ReceiverAt(pos, t)
         /\ up => SenderAt(pos, t)
  BY DEF Inv, Stream
<1>7. M \in Nat /\ M <= t /\ t \in Nat /\ pos[M] = -Len(data)
  BY <1>1, <1>3, <1>6 DEF ReceiverAt
<1> DEFINE x == SubSeq(wire, 1, n)
<1>8. x \in Seq(Letter) /\ Len(x) = n /\ \A i \in 1 .. n : x[i] = wire[i]
  BY <1>3, <1>4, CutSeq
<1>9. Len(data) + n <= len
  <2>1. n <= len - Len(data)
    BY <1>2, <1>5 DEF Wanted
  <2> QED
    BY <2>1, <1>3, <1>4
<1> HIDE DEF x, M
<1>10. \A i \in 1 .. Len(x) : x[i] = Byte(M, Len(data) + i)
  <2> SUFFICES ASSUME NEW i \in 1 .. n PROVE x[i] = Byte(M, Len(data) + i)
    BY <1>8
  <2>1. Len(data) + i \in 0 .. Sizes[M] /\ Len(data) + i # 0
    BY <1>3, <1>4, <1>5, <1>9
  <2>2. pos[M] + (Len(data) + i) = i /\ i \in 1 .. Len(wire) /\ M \in 1 .. t
    BY <1>3, <1>4, <1>5, <1>7
  <2>3. wire[i] = Item(M, Len(data) + i)
    BY <1>5, <1>6, <2>1, <2>2 DEF Window, Holds
  <2> QED
    BY <1>8, <2>1, <2>3 DEF Item
<1>11. /\ data \o x = Prefix(M, Len(data) + n) /\ data \o x \in Seq(Bytes)
       /\ Len(data \o x) = Len(data) + n
  BY <1>3, <1>5, <1>7, <1>8, <1>10, LongerPrefix
<1>12. RecvTurn(Len(data) + n, x)
  BY <1>2, <1>5 DEF x
<1>13. /\ data' = Prefix(M, Len(data) + n) /\ data' \in Seq(Bytes)
       /\ Len(data') = Len(data) + n /\ receivedSize' = Len(data) + n
  BY <1>11, <1>12 DEF RecvTurn
<1>14. /\ ConnectionTypes' /\ SenderTypes' /\ SenderOK'
       /\ UNCHANGED <<up, broken, msg, sender, sendedSize>>
  BY <1>1, ReceiverKeeps
<1>15. wire' \in Seq(Letter) /\ \E b \in Positions :
          /\ \A m \in Nat : b[m] = pos[m] - n
          /\ Window(wire', b, t)
          /\ up' => SenderAt(b, t)'
  BY <1>2, <1>4, <1>6, <1>14, WindowMoves
<1>16. PICK b \in Positions :
          /\ \A m \in Nat : b[m] = pos[m] - n
          /\ Window(wire', b, t)
          /\ up' => SenderAt(b, t)'
  BY <1>15
<1>17. CASE Len(data) + n < len
  <2>1. UNCHANGED <<receiver, received, len>>
    BY <1>1, <1>12, <1>17 DEF RecvTurn
  <2>2. Len(received') + 1 = M
    BY <2>1 DEF M
  <2>3. b[M] = -Len(data')
    <3>1. b[M] = pos[M] - n
      BY <1>7, <1>16
    <3>2. Len(data) \in Int /\ n \in Int
      BY <1>3, <1>4
    <3>3. \A d \in Int : -d - n = -(d + n)
      BY <3>2
    <3> QED
      BY <1>7, <1>13, <3>1, <3>2, <3>3
  <2>4. ReceiverAt(b, t)'
    BY <1>1, <1>7, <2>1, <2>2, <2>3 DEF ReceiverAt
  <2>5. Stream'
    BY <1>16, <2>4 DEF Stream
  <2>6. ReceiverOK'
    BY <1>5, <1>13, <1>17, <2>1, <2>2 DEF ReceiverOK
  <2>7. ReceiverTypes'
    <3>1. Len(data) + n \in -MaxError .. len
      BY <1>3, <1>4, <1>9
    <3> QED
      BY <1>13, <2>1, <3>1 DEF Inv, Types, ReceiverTypes
  <2>8. Framing'
    BY <2>1 DEF Inv, Framing
  <2> QED
    BY <1>14, <1>15, <2>5, <2>6, <2>7, <2>8 DEF Inv, Types
<1>18. CASE Len(data) + n = len
  <2>1. receiver' = "header" /\ received' = Append(received, data')
    BY <1>3, <1>12, <1>18 DEF RecvTurn
  <2>2. /\ received' \in Seq(Seq(Bytes)) /\ Len(received') = M
        /\ received'[M] = data' /\ \A m \in 1 .. Len(received) : received'[m] = received[m]
    BY <1>3, <1>13, <2>1, AppendProperties DEF M
  <2>3. M # t
    <3> SUFFICES ASSUME M = t PROVE FALSE
      OBVIOUS
    <3>1. Len(wire) < pos[M] + Sizes[M]
      BY <1>5, <1>6 DEF Window, Within
    <3> QED
      BY <3>1, <1>3, <1>4, <1>5, <1>7, <1>18
  <2>4. M + 1 <= t /\ M \in 1 .. t - 1
    BY <1>5, <1>7, <2>3
  <2>5. b[M + 1] = 1
    <3>1. pos[M + 1] = pos[M] + Sizes[M] + 1
      BY <1>6, <2>4 DEF Window, Laid
    <3>2. b[M + 1] = pos[M + 1] - n
      BY <1>7, <1>16
    <3> QED
      BY <3>1, <3>2, <1>3, <1>4, <1>5, <1>7, <1>18
  <2>6. ReceiverAt(b, t)'
    BY <2>1, <2>2, <2>4, <2>5 DEF ReceiverAt
  <2>7. Stream'
    BY <1>16, <2>6 DEF Stream
  <2>8. ReceiverOK'
    BY <2>1 DEF ReceiverOK
  <2>9. ReceiverTypes'
    <3>1. Len(data) + n \in -MaxError .. len
      BY <1>3, <1>4, <1>9
    <3> QED
      BY <1>1, <1>3, <1>13, <2>1, <2>2, <3>1 DEF ReceiverTypes
  <2>10. Framing'
    <3>1. data' = Message(M)
      BY <1>5, <1>13, <1>18 DEF Message, Prefix
    <3>2. DOMAIN received' = 1 .. M /\ DOMAIN received = 1 .. Len(received) /\ M = Len(received) + 1
      BY <1>3, <2>2, LenProperties DEF M
    <3>3. ASSUME NEW m \in 1 .. M PROVE received'[m] = Message(m)
      <4>1. CASE m = M
        BY <2>2, <3>1, <4>1
      <4>2. CASE m # M
        <5>1. m \in 1 .. Len(received)
          BY <1>3, <3>2, <4>2
        <5> QED
          BY <2>2, <3>2, <5>1 DEF Inv, Framing
      <4> QED
        BY <4>1, <4>2
    <3>4. Len(received') <= Len(Sizes)
      BY <1>5, <2>2 DEF Count
    <3> QED
      BY <3>2, <3>3, <3>4 DEF Framing, Message
  <2> QED
    BY <1>14, <1>15, <2>7, <2>8, <2>9, <2>10 DEF Inv, Types
<1>19. Len(data) \in Int /\ n \in Int /\ len \in Int
  BY <1>3, <1>4
<1>20. \A d, l \in Int : d + n <= l => d + n < l \/ d + n = l
  BY <1>19
<1> QED
  BY <1>9, <1>17, <1>18, <1>19, <1>20
-----------------------------------------------------------------------------
LEMMA NextInv == Inv /\ [Next]_vars => Inv'
<1> SUFFICES ASSUME Inv, [Next]_vars PROVE Inv'
  OBVIOUS
<1>1. CASE Lose
  BY <1>1, LoseInv
<1>2. CASE SendHeader
  BY <1>2, SendHeaderInv
<1>3. CASE SendHeaderFails
  BY <1>3, SendHeaderFailsInv
<1>4. CASE SendBody
  BY <1>4, SendBodyInv
<1>5. CASE SendBodyFails
  BY <1>5, SendBodyFailsInv
<1>6. CASE RecvHeader
  BY <1>6, RecvHeaderInv
<1>7. CASE RecvHeaderFails
  BY <1>7, RecvHeaderFailsInv
<1>8. CASE RecvBody
  BY <1>8, RecvBodyInv
<1>9. CASE RecvBodyFails
  BY <1>9, RecvBodyFailsInv
<1>10. CASE UNCHANGED vars
  <2>1. /\ UNCHANGED <<up, broken, lostReturn, wire>>
        /\ UNCHANGED <<sender, msg, sendedSize, accepted, results>>
        /\ UNCHANGED <<receiver, len, receivedSize, data, received>>
    BY <1>10 DEF vars, connection, sending, receiving
  <2>2. Types'
    BY <2>1 DEF Inv, Types, ConnectionTypes, SenderTypes, ReceiverTypes
  <2>3. SenderOK' /\ ReceiverOK' /\ Framing'
    BY <2>1 DEF Inv, SenderOK, ReceiverOK, Framing
  <2>4. Stream'
    BY <2>1 DEF Inv, Stream, ReceiverAt, SenderAt
  <2> QED
    BY <2>2, <2>3, <2>4 DEF Inv
<1> QED
  BY <1>1, <1>2, <1>3, <1>4, <1>5, <1>6, <1>7, <1>8, <1>9, <1>10 DEF Next, Sender, Receiver, Idle

(* Every variable of the connection has its type; in particular SendData's   *)
(* count stays a number that its loop test understands, and ReceiveData's    *)
(* never passes the announced length, also when failed calls are counted.    *)
THEOREM ChannelTypes == Spec => []TypeOK
<1>1. Spec => []Inv
  BY InitInv, NextInv, PTL DEF Spec
<1>2. Inv => TypeOK
  BY TypesImply DEF Inv
<1> QED
  BY <1>1, <1>2, PTL

(* Framing of SSLConnection: for every list of messages, every way in which  *)
(* SSL_write and SSL_read split them and every moment at which the           *)
(* connection is lost, ReceiveData returns a prefix of the messages given    *)
(* to SendData, each of them whole and unchanged.                            *)
THEOREM MessagesFramed == Spec => []Framing
<1>1. Spec => []Inv
  BY InitInv, NextInv, PTL DEF Spec
<1>2. Inv => Framing
  BY DEF Inv
<1> QED
  BY <1>1, <1>2, PTL
=============================================================================
