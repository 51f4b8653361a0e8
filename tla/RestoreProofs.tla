---------------------------- MODULE RestoreProofs ----------------------------
(***************************************************************************)
(* Proofs about Restore and ReadCache, for every recipe, every set of       *)
(* containers and every batch, group and cache size.                        *)
(*                                                                         *)
(* The inductive invariant has a server and a client part.  ServerInv ties  *)
(* the decoder's buffers to its place in the recipe: the rest of the batch   *)
(* is the part of the recipe before the cursor, the map and the buffered     *)
(* entries lead to the IDs of the current group, and the containers fetched  *)
(* so far are in the buffers of their IDs.  ClientInv orders the login       *)
(* response, the go-ahead and the first message, and bounds the messages.    *)
(* Pipeline says that output, queue, message, network and server buffer are  *)
(* consecutive pieces of the file, EndInv and FinishInv how a restore ends.  *)
(***************************************************************************)
EXTENDS Restore, SequenceTheorems, WellFoundedInduction, TLAPS

(* The buffer begins with the chunks of container c. *)
Holds(buffer, c) == \A o \in 1 .. Len(Body[c]) : buffer[o] = Body[c][o]

CacheInv == CacheTypeOK /\ CacheSound /\ KeysMatch

(* A buffer holds a container once it has been copied into it. *)
LEMMA CopyHolds ==
    ASSUME NEW b \in Buffer, NEW c \in ContainerID
    PROVE  CopyTo(b, Body[c]) \in Buffer /\ Holds(CopyTo(b, Body[c]), c)
  <1>1. Body[c] \in Seq(Chunk) /\ Len(Body[c]) <= SlotNum /\ SlotNum \in Nat
    BY CacheAssumption
  <1>2. \A o \in 1 .. Len(Body[c]) : o \in 1 .. SlotNum /\ Body[c][o] \in Chunk
    BY <1>1
  <1>3. \A o \in 1 .. SlotNum : b[o] \in Chunk \cup {NoChunk}
    BY DEF Buffer
  <1>4. \A o \in 1 .. SlotNum : o <= Len(Body[c]) => o \in 1 .. Len(Body[c])
    BY <1>1
  <1>5. CopyTo(b, Body[c]) \in Buffer
    BY <1>1, <1>2, <1>3, <1>4 DEF CopyTo, Buffer
  <1> QED  BY <1>1, <1>2, <1>5 DEF CopyTo, Holds

(* The empty cache, *)
LEMMA CacheStart == CacheInit => CacheInv
  <1> SUFFICES ASSUME CacheInit PROVE CacheInv
    OBVIOUS
  <1> USE CacheAssumption DEF CacheInit
  <1>1. EmptyBuffer \in Buffer
    BY DEF EmptyBuffer, Buffer
  <1>2. CacheTypeOK
    BY <1>1 DEF CacheTypeOK
  <1> QED  BY <1>2 DEF CacheInv, CacheSound, KeysMatch

(* a hit, which reorders the list, *)
LEMMA CacheRead ==
    ASSUME CacheInv, NEW c \in DOMAIN slotOf, ReadFromCache(c)
    PROVE  CacheInv'
  <1> DEFINE p == CHOOSE n \in DOMAIN keys : keys[n] = c
  <1> USE CacheAssumption
  <1>1. c \in ContainerID /\ keys \in Seq(ContainerID) /\ Len(keys) \in Nat
        /\ DOMAIN keys = 1 .. Len(keys)
    BY DEF CacheInv, CacheTypeOK
  <1>2. p \in 1 .. Len(keys) /\ keys[p] = c
    BY <1>1 DEF CacheInv, KeysMatch
  <1> HIDE DEF p
  <1>3. keys' = [n \in 1 .. Len(keys) |-> IF n = 1 THEN c
                                ELSE IF n <= p THEN keys[n - 1] ELSE keys[n]]
    BY DEF ReadFromCache, ToFront, p
  <1>4. keys' \in Seq(ContainerID) /\ Len(keys') = Len(keys) /\ DOMAIN keys' = 1 .. Len(keys)
    BY <1>1, <1>2, <1>3
  <1>5. slotOf' = slotOf /\ pool' = pool /\ currentIndex' = currentIndex
    BY DEF ReadFromCache
  <1>6. \A m, n \in 1 .. Len(keys) : keys[m] = keys[n] => m = n
    BY <1>1 DEF CacheInv, KeysMatch
  <1>7. \A m, n \in 1 .. Len(keys) : keys'[m] = keys'[n] => m = n
    <2> DEFINE from(n) == IF n = 1 THEN p ELSE IF n <= p THEN n - 1 ELSE n
    <2>1. \A n \in 1 .. Len(keys) : from(n) \in 1 .. Len(keys) /\ keys'[n] = keys[from(n)]
      BY <1>1, <1>2, <1>3
    <2>2. \A m, n \in 1 .. Len(keys) : from(m) = from(n) => m = n
      BY <1>1, <1>2
    <2> HIDE DEF from
    <2> QED  BY <1>6, <2>1, <2>2
  <1>8. ASSUME NEW d \in ContainerID
        PROVE  (\E n \in 1 .. Len(keys) : keys'[n] = d) <=> (\E n \in 1 .. Len(keys) : keys[n] = d)
    <2>1. ASSUME NEW n \in 1 .. Len(keys), keys'[n] = d
          PROVE  \E m \in 1 .. Len(keys) : keys[m] = d
      <3>1. CASE n = 1  BY <1>1, <1>2, <1>3, <2>1, <3>1
      <3>2. CASE n # 1 /\ n <= p
        <4>1. n - 1 \in 1 .. Len(keys) /\ keys[n - 1] = d
          BY <1>1, <1>2, <1>3, <2>1, <3>2
        <4> QED  BY <4>1
      <3>3. CASE n # 1 /\ ~(n <= p)  BY <1>1, <1>2, <1>3, <2>1, <3>3
      <3> QED  BY <3>1, <3>2, <3>3
    <2>2. ASSUME NEW n \in 1 .. Len(keys), keys[n] = d
          PROVE  \E m \in 1 .. Len(keys) : keys'[m] = d
      <3>1. CASE n = p
        <4>1. 1 \in 1 .. Len(keys) /\ keys'[1] = d
          BY <1>1, <1>2, <1>3, <2>2, <3>1
        <4> QED  BY <4>1
      <3>2. CASE n < p
        <4>1. n + 1 \in 1 .. Len(keys) /\ keys'[n + 1] = d
          BY <1>1, <1>2, <1>3, <2>2, <3>2
        <4> QED  BY <4>1
      <3>3. CASE n > p
        <4>1. keys'[n] = d
          BY <1>1, <1>2, <1>3, <2>2, <3>3
        <4> QED  BY <4>1
      <3> QED  BY <1>1, <1>2, <3>1, <3>2, <3>3
    <2> QED  BY <2>1, <2>2
  <1>9. KeysMatch'
    BY <1>1, <1>4, <1>5, <1>7, <1>8 DEF CacheInv, KeysMatch
  <1>10. CacheTypeOK' /\ CacheSound'
    BY <1>4, <1>5 DEF CacheInv, CacheTypeOK, CacheSound
  <1> QED  BY <1>9, <1>10 DEF CacheInv

(* and an insertion, with and without a victim, keep the cache invariant. *)
LEMMA CacheInsert ==
    ASSUME CacheInv, NEW c \in ContainerID \ DOMAIN slotOf, InsertToCache(c)
    PROVE  CacheInv'
  <1> USE CacheAssumption
  <1>1. keys \in Seq(ContainerID) /\ Len(keys) \in Nat /\ DOMAIN keys = 1 .. Len(keys)
        /\ currentIndex = Len(keys) /\ Len(keys) <= CacheSize
        /\ CacheSize \in Nat \ {0}
    BY DEF CacheInv, CacheTypeOK, KeysMatch
  <1>2. /\ \A m, n \in 1 .. Len(keys) : keys[m] = keys[n] => m = n
        /\ \A d \in ContainerID : d \in DOMAIN slotOf <=> \E n \in 1 .. Len(keys) : keys[n] = d
        /\ \A d \in DOMAIN slotOf : slotOf[d] \in 0 .. CacheSize - 1 /\ slotOf[d] < currentIndex
        /\ DOMAIN slotOf \subseteq ContainerID
        /\ pool \in [0 .. CacheSize - 1 -> Buffer]
    BY <1>1 DEF CacheInv, CacheTypeOK, KeysMatch
  <1>3. /\ \A d \in DOMAIN slotOf : Holds(pool[slotOf[d]], d)
        /\ \A d, e \in DOMAIN slotOf : slotOf[d] = slotOf[e] => d = e
    BY DEF CacheInv, CacheSound, Holds
  <1>4. \A n \in 1 .. Len(keys) : keys[n] \in DOMAIN slotOf /\ keys[n] # c
    <2> TAKE n \in 1 .. Len(keys)
    <2>1. keys[n] \in ContainerID  BY <1>1
    <2>2. keys[n] \in DOMAIN slotOf  BY <1>2, <2>1
    <2> QED  BY <2>2
  <1>5. CASE Len(keys) + 1 > CacheSize
    <2> DEFINE size == Len(keys)
    <2> DEFINE r == PruneValue
    <2>1. size = CacheSize /\ LastKey = keys[size] /\ LastKey \in DOMAIN slotOf
          /\ r = slotOf[LastKey] /\ r \in 0 .. CacheSize - 1
      <3>1. size = CacheSize /\ size \in 1 .. Len(keys)
        <4>1. Len(keys) \in Nat /\ CacheSize \in Nat /\ CacheSize # 0 /\ Len(keys) <= CacheSize
          BY <1>1
        <4>2. Len(keys) = CacheSize  BY <1>5, <4>1
        <4> QED  BY <4>1, <4>2
      <3>2. LastKey = keys[size]  BY DEF LastKey
      <3>3. LastKey \in DOMAIN slotOf  BY <1>4, <3>1, <3>2
      <3>4. r = slotOf[LastKey]  BY DEF PruneValue
      <3> QED  BY <1>2, <3>1, <3>2, <3>3, <3>4
    <2>2. /\ pool' = [pool EXCEPT ![r] = CopyTo(@, Body[c])]
          /\ keys' = [n \in 1 .. size |-> IF n = 1 THEN c ELSE keys[n - 1]]
          /\ slotOf' = [d \in (DOMAIN slotOf \ {LastKey}) \cup {c} |->
                          IF d = c THEN r ELSE slotOf[d]]
          /\ currentIndex' = currentIndex
      BY <1>5 DEF InsertToCache, InsertAndPrune, Prepend
    <2> HIDE DEF r
    <2>3. keys' \in Seq(ContainerID) /\ Len(keys') = size /\ DOMAIN keys' = 1 .. size
      BY <1>1, <2>2
    <2>4. \A m, n \in 1 .. size : keys'[m] = keys'[n] => m = n
      <3> TAKE m, n \in 1 .. size
      <3>1. \A j \in 1 .. size : j # 1 => j - 1 \in 1 .. size /\ keys'[j] = keys[j - 1] /\ keys'[j] # c
        BY <1>1, <1>4, <2>2
      <3>2. \A j \in 1 .. size : j = 1 => keys'[j] = c
        BY <1>1, <2>2
      <3>3. CASE m = 1 \/ n = 1  BY <3>1, <3>2, <3>3
      <3>4. CASE m # 1 /\ n # 1
        <4>1. m - 1 \in 1 .. size /\ n - 1 \in 1 .. size /\ keys'[m] = keys[m - 1] /\ keys'[n] = keys[n - 1]
          BY <3>1, <3>4
        <4>2. keys[m - 1] = keys[n - 1] => m - 1 = n - 1
          BY <1>2, <4>1
        <4> QED  BY <1>1, <4>1, <4>2
      <3> QED  BY <3>3, <3>4
    <2>5. ASSUME NEW d \in ContainerID
          PROVE  d \in DOMAIN slotOf' <=> \E n \in 1 .. size : keys'[n] = d
      <3>1. ASSUME d \in DOMAIN slotOf' PROVE \E n \in 1 .. size : keys'[n] = d
        <4>1. CASE d = c
          <5>1. 1 \in 1 .. size /\ keys'[1] = c  BY <1>1, <2>1, <2>2
          <5> QED  BY <4>1, <5>1
        <4>2. CASE d # c
          <5>1. d \in DOMAIN slotOf /\ d # keys[size]  BY <2>1, <2>2, <3>1, <4>2
          <5>2. PICK n \in 1 .. size : keys[n] = d  BY <1>2, <5>1
          <5>3. n + 1 \in 1 .. size /\ keys'[n + 1] = d  BY <1>1, <2>2, <5>1, <5>2
          <5> QED  BY <5>3
        <4> QED  BY <4>1, <4>2
      <3>2. ASSUME NEW n \in 1 .. size, keys'[n] = d PROVE d \in DOMAIN slotOf'
        <4>1. CASE n = 1  BY <2>2, <3>2, <4>1
        <4>2. CASE n # 1
          <5>1. n - 1 \in 1 .. size /\ d = keys[n - 1] /\ n - 1 # size  BY <1>1, <2>2, <3>2, <4>2
          <5>2. d \in DOMAIN slotOf /\ d # LastKey
            <6> size \in 1 .. Len(keys)  BY <1>1, <2>1
            <6> QED  BY <1>2, <1>4, <2>1, <5>1
          <5> QED  BY <2>2, <5>2
        <4> QED  BY <4>1, <4>2
      <3> QED  BY <3>1, <3>2
    <2>6. /\ \A d \in DOMAIN slotOf' : slotOf'[d] \in 0 .. CacheSize - 1 /\ slotOf'[d] < currentIndex'
          /\ DOMAIN slotOf' \subseteq ContainerID
      BY <1>2, <2>1, <2>2
    <2>7. \A d \in DOMAIN slotOf' : d # c => d \in DOMAIN slotOf /\ slotOf'[d] = slotOf[d] /\ slotOf[d] # r
      BY <1>3, <2>1, <2>2
    <2>8. pool[r] \in Buffer
      BY <1>2, <2>1
    <2>9. /\ pool' \in [0 .. CacheSize - 1 -> Buffer]
          /\ Holds(pool'[r], c)
          /\ \A n \in 0 .. CacheSize - 1 : n # r => pool'[n] = pool[n]
      BY <1>2, <2>1, <2>2, <2>8, CopyHolds
    <2>10. \A d \in DOMAIN slotOf' : Holds(pool'[slotOf'[d]], d)
      <3> TAKE d \in DOMAIN slotOf'
      <3>1. CASE d = c  BY <2>2, <2>9, <3>1
      <3>2. CASE d # c
        <4>1. pool'[slotOf'[d]] = pool[slotOf[d]]  BY <1>2, <2>7, <2>9, <3>2
        <4> QED  BY <1>3, <2>7, <3>2, <4>1
      <3> QED  BY <3>1, <3>2
    <2>11. \A d, e \in DOMAIN slotOf' : slotOf'[d] = slotOf'[e] => d = e
      <3>1. c \in DOMAIN slotOf' /\ slotOf'[c] = r  BY <2>2
      <3> QED  BY <1>3, <2>7, <3>1
    <2>12. CacheTypeOK'
      <3>1. currentIndex' \in 0 .. CacheSize  BY <1>1, <2>2
      <3> QED  BY <2>3, <2>6, <2>9, <3>1 DEF CacheTypeOK
    <2>13. CacheSound'
      BY <2>10, <2>11 DEF CacheSound, Holds
    <2>14. KeysMatch'
      <3>1. Len(keys') = currentIndex' /\ currentIndex' <= CacheSize
        BY <1>1, <2>2, <2>3
      <3>2. \A m, n \in DOMAIN keys' : keys'[m] = keys'[n] => m = n
        BY <2>3, <2>4
      <3>3. \A d \in ContainerID : d \in DOMAIN slotOf' <=> \E n \in DOMAIN keys' : keys'[n] = d
        BY <2>3, <2>5
      <3> QED  BY <2>6, <3>1, <3>2, <3>3 DEF KeysMatch
    <2> QED  BY <2>12, <2>13, <2>14 DEF CacheInv
  <1>6. CASE ~(Len(keys) + 1 > CacheSize)
    <2> DEFINE size == Len(keys)
    <2>1. /\ pool' = [pool EXCEPT ![currentIndex] = CopyTo(@, Body[c])]
          /\ keys' = [n \in 1 .. size + 1 |-> IF n = 1 THEN c ELSE keys[n - 1]]
          /\ slotOf' = [d \in DOMAIN slotOf \cup {c} |->
                          IF d = c THEN currentIndex ELSE slotOf[d]]
          /\ currentIndex' = currentIndex + 1
      BY <1>6 DEF InsertToCache, InsertOnly, Prepend
    <2>2. currentIndex \in 0 .. CacheSize - 1 /\ currentIndex = size
      BY <1>1, <1>6
    <2>3. keys' \in Seq(ContainerID) /\ Len(keys') = size + 1 /\ DOMAIN keys' = 1 .. size + 1
      BY <1>1, <2>1
    <2>4. \A m, n \in 1 .. size + 1 : keys'[m] = keys'[n] => m = n
      <3> TAKE m, n \in 1 .. size + 1
      <3>1. \A j \in 1 .. size + 1 : j # 1 => j - 1 \in 1 .. size /\ keys'[j] = keys[j - 1] /\ keys'[j] # c
        BY <1>1, <1>4, <2>1
      <3>2. \A j \in 1 .. size + 1 : j = 1 => keys'[j] = c
        BY <1>1, <2>1
      <3>3. CASE m = 1 \/ n = 1  BY <3>1, <3>2, <3>3
      <3>4. CASE m # 1 /\ n # 1
        <4>1. m - 1 \in 1 .. size /\ n - 1 \in 1 .. size /\ keys'[m] = keys[m - 1] /\ keys'[n] = keys[n - 1]
          BY <3>1, <3>4
        <4>2. keys[m - 1] = keys[n - 1] => m - 1 = n - 1
          BY <1>2, <4>1
        <4> QED  BY <1>1, <4>1, <4>2
      <3> QED  BY <3>3, <3>4
    <2>5. ASSUME NEW d \in ContainerID
          PROVE  d \in DOMAIN slotOf' <=> \E n \in 1 .. size + 1 : keys'[n] = d
      <3>1. ASSUME d \in DOMAIN slotOf' PROVE \E n \in 1 .. size + 1 : keys'[n] = d
        <4>1. CASE d = c
          <5>1. 1 \in 1 .. size + 1 /\ keys'[1] = c  BY <1>1, <2>1
          <5> QED  BY <4>1, <5>1
        <4>2. CASE d # c
          <5>1. d \in DOMAIN slotOf  BY <2>1, <3>1, <4>2
          <5>2. PICK n \in 1 .. size : keys[n] = d  BY <1>2, <5>1
          <5>3. n + 1 \in 1 .. size + 1 /\ keys'[n + 1] = d  BY <1>1, <2>1, <5>2
          <5> QED  BY <5>3
        <4> QED  BY <4>1, <4>2
      <3>2. ASSUME NEW n \in 1 .. size + 1, keys'[n] = d PROVE d \in DOMAIN slotOf'
        <4>1. CASE n = 1  BY <2>1, <3>2, <4>1
        <4>2. CASE n # 1
          <5>1. n - 1 \in 1 .. size /\ d = keys[n - 1]  BY <1>1, <2>1, <3>2, <4>2
          <5> QED  BY <1>4, <2>1, <5>1
        <4> QED  BY <4>1, <4>2
      <3> QED  BY <3>1, <3>2
    <2>6. /\ \A d \in DOMAIN slotOf' : slotOf'[d] \in 0 .. CacheSize - 1 /\ slotOf'[d] < currentIndex'
          /\ DOMAIN slotOf' \subseteq ContainerID
      BY <1>1, <1>2, <2>1, <2>2
    <2>7. \A d \in DOMAIN slotOf' : d # c => d \in DOMAIN slotOf /\ slotOf'[d] = slotOf[d] /\ slotOf[d] # currentIndex
      BY <1>1, <1>2, <2>1
    <2>8. pool[currentIndex] \in Buffer
      BY <1>2, <2>2
    <2>9. /\ pool' \in [0 .. CacheSize - 1 -> Buffer]
          /\ Holds(pool'[currentIndex], c)
          /\ \A n \in 0 .. CacheSize - 1 : n # currentIndex => pool'[n] = pool[n]
      BY <1>2, <2>1, <2>2, <2>8, CopyHolds
    <2>10. \A d \in DOMAIN slotOf' : Holds(pool'[slotOf'[d]], d)
      <3> TAKE d \in DOMAIN slotOf'
      <3>1. CASE d = c  BY <2>1, <2>9, <3>1
      <3>2. CASE d # c
        <4>1. pool'[slotOf'[d]] = pool[slotOf[d]]  BY <1>2, <2>7, <2>9, <3>2
        <4> QED  BY <1>3, <2>7, <3>2, <4>1
      <3> QED  BY <3>1, <3>2
    <2>11. \A d, e \in DOMAIN slotOf' : slotOf'[d] = slotOf'[e] => d = e
      <3>1. c \in DOMAIN slotOf' /\ slotOf'[c] = currentIndex  BY <2>1
      <3> QED  BY <1>3, <2>7, <3>1
    <2>12. CacheTypeOK'
      <3>1. currentIndex' \in 0 .. CacheSize  BY <1>1, <2>1, <2>2
      <3> QED  BY <2>3, <2>6, <2>9, <3>1 DEF CacheTypeOK
    <2>13. CacheSound'
      BY <2>10, <2>11 DEF CacheSound, Holds
    <2>14. KeysMatch'
      <3>1. Len(keys') = currentIndex' /\ currentIndex' <= CacheSize
        BY <1>1, <1>6, <2>1, <2>2, <2>3
      <3>2. \A m, n \in DOMAIN keys' : keys'[m] = keys'[n] => m = n
        BY <2>3, <2>4
      <3>3. \A d \in ContainerID : d \in DOMAIN slotOf' <=> \E n \in DOMAIN keys' : keys'[n] = d
        BY <2>3, <2>5
      <3> QED  BY <2>6, <3>1, <3>2, <3>3 DEF KeysMatch
    <2> QED  BY <2>12, <2>13, <2>14 DEF CacheInv
  <1> QED  BY <1>5, <1>6
-----------------------------------------------------------------------------
(* Where the decoder stands, and what that says of its buffers. *)
Position ==
    /\ decoder \in {"ready", "read", "tail"} => batch = <<>> /\ ~tail
    /\ decoder = "ready" => recipeBuffer = <<>>
    /\ decoder = "parse" => batch # <<>>
    /\ tail => batch = <<>>
    /\ decoder \in {"fetch", "recover"} => recipeBuffer # <<>> /\ (~tail => batch # <<>>)
    /\ decoder = "fetch" => k \in 1 .. Len(idBuffer)
    /\ decoder = "recover" => k \in 1 .. Len(recipeBuffer)

(* The rest of the batch is the part of the recipe before the cursor. *)
BatchInv ==
    /\ Len(batch) <= cursor
    /\ \A n \in 1 .. Len(batch) : batch[n] = recipe.entries[cursor - Len(batch) + n]

(* The IDs in the map are those of the current group. *)
MapInv ==
    \A c \in DOMAIN tmpContainerMap :
        tmpContainerMap[c] \in 1 .. Len(idBuffer) /\ idBuffer[tmpContainerMap[c]] = c

Active == {"ready", "read", "parse", "fetch", "recover", "tail"}

GroupInv ==
    /\ Len(idBuffer) <= Capping
    /\ decoder \in Active \ {"fetch", "recover"} => Len(idBuffer) < Capping
    /\ decoder \in Active => Len(recipeBuffer) <= Parsed

(* The containers fetched so far are in their buffers. *)
ArrayInv ==
    /\ decoder = "fetch" => \A n \in 1 .. k - 1 : Holds(containerArray[n], idBuffer[n])
    /\ decoder = "recover" => \A n \in 1 .. Len(idBuffer) : Holds(containerArray[n], idBuffer[n])

ChunksBounded == Len(chunkBuffer) < SendChunkBatchSize

ServerInv ==
    /\ CacheInv /\ ServerTypeOK
    /\ Position /\ BatchInv /\ MapInv /\ GroupInv /\ IdsResolve /\ ArrayInv
    /\ ChunksBounded

(* The server starts only when the client has its login response. *)
LoginInv ==
    /\ ~headRead => toClient = <<>> /\ retriever = "login"
    /\ retriever \in {"login", "start"} => ~ready /\ decoder \in {"ready", "exit"}
    /\ retriever = "login" => Len(toClient) <= 1

MessagesBounded ==
    retriever # "login" =>
        \A n \in 1 .. Len(toClient) : Len(toClient[n].chunks) <= SendChunkBatchSize

ClientInv == ClientTypeOK /\ LoginInv /\ MessagesBounded

serverSide == <<cacheVars, recipe, cursor, end, decoder, idBuffer, containerArray, enclave>>

(* What a recipe entry is. *)
LEMMA EntryFacts ==
    ASSUME NEW e \in RecipeEntry
    PROVE  /\ e.containerName \in ContainerID /\ e.offset \in 1 .. SlotNum
           /\ e.offset \in 1 .. Len(Body[e.containerName])
           /\ Body[e.containerName] \in Seq(Chunk)
  <1>1. e.containerName \in ContainerID /\ e.offset \in 1 .. SlotNum
        /\ e.offset <= Len(Body[e.containerName])
    BY DEF RecipeEntry
  <1>2. Body[e.containerName] \in Seq(Chunk) /\ SlotNum \in Nat
    BY <1>1, CacheAssumption
  <1>3. Len(Body[e.containerName]) \in Nat
    BY <1>2
  <1> QED  BY <1>1, <1>2, <1>3

(* Steps of the client, and the login response, leave the decoder alone. *)
LEMMA ServerUnchanged ==
    ASSUME ServerInv, UNCHANGED serverSide, headRead' \in BOOLEAN
    PROVE  ServerInv'
  <1> USE DEF serverSide, cacheVars, enclave
  <1>1. CacheInv'
    BY DEF ServerInv, CacheInv, CacheTypeOK, CacheSound, KeysMatch
  <1>2. ServerTypeOK'
    BY DEF ServerInv, ServerTypeOK
  <1>3. Parsed' = Parsed
    BY DEF Parsed
  <1>4. Position' /\ BatchInv' /\ MapInv' /\ ArrayInv' /\ ChunksBounded'
    BY DEF ServerInv, Position, BatchInv, MapInv, ArrayInv, ChunksBounded, Holds
  <1>5. GroupInv' /\ IdsResolve'
    BY <1>3 DEF ServerInv, GroupInv, IdsResolve
  <1> QED  BY <1>1, <1>2, <1>4, <1>5 DEF ServerInv

(* So do an exit and the end of the session. *)
LEMMA ServerLeaves ==
    ASSUME ServerInv, decoder' \in {"exit", "done"}, headRead' \in BOOLEAN,
           UNCHANGED <<cacheVars, recipe, cursor, end, idBuffer, containerArray, enclave>>
    PROVE  ServerInv'
  <1> USE DEF cacheVars, enclave
  <1>1. CacheInv'
    BY DEF ServerInv, CacheInv, CacheTypeOK, CacheSound, KeysMatch
  <1>2. ServerTypeOK'
    BY DEF ServerInv, ServerTypeOK
  <1>4. Position' /\ BatchInv' /\ MapInv' /\ ArrayInv' /\ ChunksBounded'
    BY DEF ServerInv, Position, BatchInv, MapInv, ArrayInv, ChunksBounded
  <1>5. GroupInv' /\ IdsResolve'
    BY DEF ServerInv, GroupInv, IdsResolve, Active
  <1> QED  BY <1>1, <1>2, <1>4, <1>5 DEF ServerInv

(* What the recover loops read. *)
LEMMA RecoverRight ==
    ASSUME ServerInv, decoder = "recover"
    PROVE  /\ RecoversRight
           /\ containerArray[recipeBuffer[k].containerID][recipeBuffer[k].offset] \in Chunk
  <1> DEFINE id  == recipeBuffer[k].containerID
             off == recipeBuffer[k].offset
             pos == Parsed - Len(recipeBuffer) + k
             entry == recipe.entries[pos]
  <1> USE CacheAssumption, RestoreAssumption
  <1>1. /\ k \in 1 .. Len(recipeBuffer) /\ recipeBuffer \in Seq(BufferedEntry)
        /\ idBuffer \in Seq(ContainerID) /\ recipe.entries \in Seq(RecipeEntry)
        /\ cursor \in 0 .. Len(recipe.entries) /\ batch \in Seq(RecipeEntry)
        /\ tail \in BOOLEAN
    BY DEF ServerInv, ServerTypeOK, Position
  <1>2. recipeBuffer[k] \in BufferedEntry
    BY <1>1
  <1>3. /\ id \in 1 .. Len(idBuffer) /\ idBuffer[id] = entry.containerName
        /\ off = entry.offset
    BY <1>1, <1>2 DEF ServerInv, IdsResolve, BufferedEntry
  <1>4. /\ Parsed \in Int /\ Len(recipeBuffer) <= Parsed /\ Parsed <= Len(recipe.entries)
    <2>1. tail => batch = <<>>
      BY DEF ServerInv, Position
    <2>2. ~tail => Len(batch) > 0
      BY <1>1 DEF ServerInv, Position
    <2>3. Len(recipeBuffer) <= Parsed
      BY DEF ServerInv, GroupInv, Active
    <2> QED  BY <1>1, <2>1, <2>2, <2>3 DEF Parsed
  <1>5. pos \in 1 .. Len(recipe.entries)
    BY <1>1, <1>4
  <1>6. entry \in RecipeEntry
    BY <1>1, <1>5
  <1>7. entry.containerName \in ContainerID /\ entry.offset \in 1 .. Len(Body[entry.containerName])
        /\ Body[entry.containerName] \in Seq(Chunk)
    BY <1>6, EntryFacts
  <1>8. Holds(containerArray[id], idBuffer[id])
    BY <1>3 DEF ServerInv, ArrayInv
  <1>9. containerArray[id][off] = Body[entry.containerName][entry.offset]
    <2> DEFINE c == entry.containerName
    <2>1. idBuffer[id] = c /\ off = entry.offset /\ off \in 1 .. Len(Body[c])
      BY <1>3, <1>7
    <2>2. Holds(containerArray[id], c)
      BY <1>8, <2>1
    <2> HIDE DEF c, id, off
    <2>3. containerArray[id][off] = Body[c][off]
      BY <2>1, <2>2 DEF Holds
    <2> QED  BY <2>1, <2>3 DEF c
  <1>10. File[pos] = Body[entry.containerName][entry.offset]
    BY <1>5 DEF File, Content
  <1> QED  BY <1>7, <1>9, <1>10 DEF RecoversRight
-----------------------------------------------------------------------------
(* A step that leaves the cache alone. *)
LEMMA CacheSame ==
    ASSUME CacheInv, UNCHANGED cacheVars
    PROVE  CacheInv'
  BY DEF cacheVars, CacheInv, CacheTypeOK, CacheSound, KeysMatch

(* The types that the steps of the decoder need. *)
LEMMA ServerFacts ==
    ASSUME ServerInv
    PROVE  /\ recipe.entries \in Seq(RecipeEntry) /\ Len(recipe.entries) \in Nat
           /\ cursor \in Nat /\ cursor <= Len(recipe.entries)
           /\ batch \in Seq(RecipeEntry) /\ Len(batch) \in Nat /\ Len(batch) <= cursor
           /\ idBuffer \in Seq(ContainerID) /\ Len(idBuffer) \in Nat
           /\ recipeBuffer \in Seq(BufferedEntry) /\ Len(recipeBuffer) \in Nat
           /\ chunkBuffer \in Seq(Chunk) /\ Len(chunkBuffer) \in Nat
           /\ containerArray \in [1 .. Capping -> Buffer]
           /\ k \in Nat \ {0} /\ tail \in BOOLEAN /\ end \in BOOLEAN /\ headRead \in BOOLEAN
           /\ Capping \in Nat \ {0} /\ SendRecipeBatchSize \in Nat \ {0}
           /\ SendChunkBatchSize \in Nat \ {0}
  <1>1. /\ recipe.entries \in Seq(RecipeEntry)
        /\ cursor \in 0 .. Len(recipe.entries)
        /\ batch \in Seq(RecipeEntry)
        /\ idBuffer \in Seq(ContainerID) /\ recipeBuffer \in Seq(BufferedEntry)
        /\ chunkBuffer \in Seq(Chunk) /\ containerArray \in [1 .. Capping -> Buffer]
        /\ k \in Nat \ {0} /\ tail \in BOOLEAN /\ end \in BOOLEAN /\ headRead \in BOOLEAN
    BY DEF ServerInv, ServerTypeOK
  <1>2. Len(batch) <= cursor
    BY DEF ServerInv, BatchInv
  <1>3. /\ Capping \in Nat \ {0} /\ SendRecipeBatchSize \in Nat \ {0}
        /\ SendChunkBatchSize \in Nat \ {0}
    BY RestoreAssumption
  <1>4. Len(recipe.entries) \in Nat
    BY <1>1
  <1> QED  BY <1>1, <1>2, <1>3, <1>4

(* The library's facts about Tail and SubSeq, in the form used below. *)
LEMMA TailFacts ==
    ASSUME NEW S, NEW s \in Seq(S), s # <<>>
    PROVE  /\ Tail(s) \in Seq(S) /\ Len(s) \in Nat /\ Len(s) > 0
           /\ Len(Tail(s)) = Len(s) - 1
           /\ \A n \in 1 .. Len(s) - 1 : Tail(s)[n] = s[n + 1]
  OBVIOUS

LEMMA SubSeqFacts ==
    ASSUME NEW S, NEW s \in Seq(S), NEW i \in Nat, NEW n \in Nat, i + n <= Len(s)
    PROVE  /\ SubSeq(s, i + 1, i + n) \in Seq(S)
           /\ Len(SubSeq(s, i + 1, i + n)) = n
           /\ \A m \in 1 .. n : SubSeq(s, i + 1, i + n)[m] = s[i + m]
  <1>1. \A m \in (i + 1) .. (i + n) : s[m] \in S
    OBVIOUS
  <1>2. Len(SubSeq(s, i + 1, i + n)) = n
    OBVIOUS
  <1>3. \A m \in 1 .. n : SubSeq(s, i + 1, i + n)[m] = s[i + m]
    OBVIOUS
  <1> QED  BY <1>1, <1>2, <1>3

(* The decoder's steps, one by one: the client's go-ahead, *)
LEMMA RecvReadyServer ==
    ASSUME ServerInv, RecvReady
    PROVE  ServerInv'
  <1> USE DEF RecvReady, enclave
  <1>1. CacheInv'
    BY CacheSame DEF ServerInv
  <1>2. ServerTypeOK'
    BY DEF ServerInv, ServerTypeOK
  <1>3. Parsed' = Parsed
    BY DEF Parsed
  <1>4. Position' /\ BatchInv' /\ MapInv' /\ ArrayInv' /\ ChunksBounded'
    BY DEF ServerInv, Position, BatchInv, MapInv, ArrayInv, ChunksBounded
  <1>5. recipeBuffer = <<>>
    BY DEF ServerInv, Position
  <1>6. GroupInv' /\ IdsResolve'
    BY <1>3, <1>5 DEF ServerInv, GroupInv, IdsResolve, Active
  <1> QED  BY <1>1, <1>2, <1>4, <1>6 DEF ServerInv

(* the next batch of entries from the file, *)
LEMMA ReadRecipeServer ==
    ASSUME ServerInv, ReadRecipe
    PROVE  ServerInv'
  <1> DEFINE left == Len(recipe.entries) - cursor
             n    == IF left < SendRecipeBatchSize THEN left ELSE SendRecipeBatchSize
  <1>1. /\ decoder = "read" /\ cursor' = cursor + n /\ end' = (n < SendRecipeBatchSize)
        /\ n = 0 => decoder' = "tail" /\ batch' = batch /\ tmpContainerMap' = tmpContainerMap
        /\ n # 0 => /\ decoder' = "parse" /\ tmpContainerMap' = <<>>
                    /\ batch' = SubSeq(recipe.entries, cursor + 1, cursor + n)
        /\ UNCHANGED <<cacheVars, recipe, headRead, idBuffer, containerArray,
                       recipeBuffer, k, tail, chunkBuffer>>
    BY DEF ReadRecipe, ReadSome
  <1>2. batch = <<>> /\ tail = FALSE
    BY <1>1, ServerFacts DEF ServerInv, Position
  <1>3. n \in Nat /\ cursor + n <= Len(recipe.entries) /\ cursor' \in Nat /\ cursor \in Nat
    <2>1. left \in Nat /\ Len(recipe.entries) \in Nat /\ cursor \in Nat
          /\ SendRecipeBatchSize \in Nat
      BY ServerFacts
    <2>2. n \in Nat /\ n <= left
      BY <2>1
    <2>3. cursor' = cursor + n
      BY <1>1
    <2> HIDE DEF n
    <2> QED  BY <2>1, <2>2, <2>3
  <1> HIDE DEF n, left
  <1>4. /\ batch' \in Seq(RecipeEntry) /\ Len(batch') = n
        /\ \A m \in 1 .. n : batch'[m] = recipe.entries[cursor + m]
    <2>1. CASE n = 0
      <3>1. batch' = <<>> /\ 1 .. n = {}
        BY <1>1, <1>2, <2>1
      <3> QED  BY <2>1, <3>1
    <2>2. CASE n # 0
      <3>1. batch' = SubSeq(recipe.entries, cursor + 1, cursor + n)
        BY <1>1, <2>2
      <3>2. recipe.entries \in Seq(RecipeEntry)
        BY ServerFacts
      <3> QED  BY <1>3, <3>1, <3>2, SubSeqFacts
    <2> QED  BY <2>1, <2>2
  <1>5. Parsed = cursor /\ Parsed' = cursor
    <2>1. Parsed = cursor
      BY <1>1, <1>2, <1>3 DEF Parsed
    <2>2. decoder' \notin {"fetch", "recover"}
      BY <1>1
    <2>3. Parsed' = cursor' - Len(batch')
      BY <2>2 DEF Parsed
    <2> QED  BY <1>1, <1>3, <1>4, <2>1, <2>3
  <1>6. CacheInv'
    BY <1>1, CacheSame DEF ServerInv
  <1>7. ServerTypeOK'
    <2>1. cursor' \in 0 .. Len(recipe'.entries)
      BY <1>1, <1>3, ServerFacts
    <2>2. decoder' \in {"parse", "tail"} /\ end' \in BOOLEAN
      BY <1>1
    <2>3. /\ DOMAIN tmpContainerMap' \subseteq ContainerID
          /\ \A c \in DOMAIN tmpContainerMap' : tmpContainerMap'[c] \in 1 .. Capping
      BY <1>1 DEF ServerInv, ServerTypeOK
    <2> QED  BY <1>1, <1>4, <2>1, <2>2, <2>3 DEF ServerInv, ServerTypeOK
  <1>8. Position'
    <2>1. tail' = FALSE /\ recipeBuffer' = recipeBuffer
      BY <1>1, <1>2
    <2>2. CASE n = 0
      BY <1>1, <1>2, <2>1, <2>2 DEF Position
    <2>3. CASE n # 0
      <3>1. batch' # <<>>
        BY <1>4, <2>3
      <3> QED  BY <1>1, <2>1, <2>3, <3>1 DEF Position
    <2> QED  BY <2>2, <2>3
  <1>9. BatchInv'
    <2>1. recipe' = recipe /\ cursor' - Len(batch') = cursor /\ Len(batch') <= cursor'
      BY <1>1, <1>3, <1>4
    <2> QED  BY <1>4, <2>1 DEF BatchInv
  <1>10. MapInv' /\ ArrayInv' /\ ChunksBounded'
    BY <1>1 DEF ServerInv, MapInv, ArrayInv, ChunksBounded
  <1>11. GroupInv'
    BY <1>1, <1>5 DEF ServerInv, GroupInv, Active
  <1>12. IdsResolve'
    BY <1>1, <1>5 DEF ServerInv, IdsResolve
  <1> QED  BY <1>6, <1>7, <1>8, <1>9, <1>10, <1>11, <1>12 DEF ServerInv

(* The entry joins the group, under the ID that its container has. *)
LEMMA ParseEntryServer ==
    ASSUME ServerInv, ParseEntry
    PROVE  ServerInv'
  <1> DEFINE name  == batch[1].containerName
             known == name \in DOMAIN tmpContainerMap
             id    == IF known THEN tmpContainerMap[name] ELSE Len(idBuffer) + 1
             item  == [containerID |-> id, offset |-> batch[1].offset]
             full  == Len(idBuffer') = Capping
  <1>1. /\ decoder = "parse"
        /\ idBuffer' = IF known THEN idBuffer ELSE Append(idBuffer, name)
        /\ tmpContainerMap' = [c \in DOMAIN tmpContainerMap \cup {name} |->
                                 IF c = name THEN id ELSE tmpContainerMap[c]]
        /\ recipeBuffer' = Append(recipeBuffer, item)
        /\ full => decoder' = "fetch" /\ k' = 1 /\ batch' = batch
        /\ ~full => decoder' = AfterEntry /\ batch' = Tail(batch) /\ k' = k
        /\ UNCHANGED <<cacheVars, recipe, headRead, cursor, end, containerArray,
                       tail, chunkBuffer>>
    BY DEF ParseEntry
  <1>2. /\ batch # <<>> /\ tail = FALSE /\ Len(batch) > 0 /\ Len(idBuffer) < Capping
        /\ Len(recipeBuffer) <= Parsed
    <2>1. batch # <<>> /\ ~tail
      BY <1>1 DEF ServerInv, Position
    <2>2. Len(batch) > 0
      BY <2>1, ServerFacts
    <2>3. Len(idBuffer) < Capping /\ Len(recipeBuffer) <= Parsed
      BY <1>1 DEF ServerInv, GroupInv, Active
    <2> QED  BY <2>1, <2>2, <2>3, ServerFacts
  <1>3. batch[1] \in RecipeEntry /\ batch[1] = recipe.entries[cursor - Len(batch) + 1]
    <2>1. 1 \in 1 .. Len(batch)
      BY <1>2, ServerFacts
    <2>2. batch[1] \in RecipeEntry
      BY <2>1, ServerFacts
    <2>3. batch[1] = recipe.entries[cursor - Len(batch) + 1]
      BY <2>1 DEF ServerInv, BatchInv
    <2> QED  BY <2>2, <2>3
  <1>4. name \in ContainerID /\ batch[1].offset \in 1 .. SlotNum
    BY <1>3, EntryFacts
  <1>5. /\ idBuffer' \in Seq(ContainerID) /\ Len(idBuffer') \in Nat
        /\ Len(idBuffer) <= Len(idBuffer') /\ Len(idBuffer') <= Capping
        /\ \A n \in 1 .. Len(idBuffer) : idBuffer'[n] = idBuffer[n]
    <2>1. idBuffer \in Seq(ContainerID) /\ Len(idBuffer) \in Nat /\ Capping \in Nat
          /\ Len(idBuffer) < Capping
      BY <1>2, ServerFacts
    <2>2. CASE idBuffer' = idBuffer
      BY <2>1, <2>2
    <2>3. CASE idBuffer' = Append(idBuffer, name)
      <3>1. idBuffer' \in Seq(ContainerID) /\ Len(idBuffer') = Len(idBuffer) + 1
        BY <1>4, <2>1, <2>3
      <3>2. \A n \in 1 .. Len(idBuffer) : idBuffer'[n] = idBuffer[n]
        BY <1>4, <2>1, <2>3
      <3> QED  BY <2>1, <3>1, <3>2
    <2> QED  BY <1>1, <2>2, <2>3
  <1>6. /\ id \in 1 .. Len(idBuffer') /\ idBuffer'[id] = name
    <2>1. CASE known
      <3>1. id \in 1 .. Len(idBuffer) /\ idBuffer[id] = name
        BY <2>1 DEF ServerInv, MapInv
      <3> QED  BY <1>1, <2>1, <3>1
    <2>2. CASE ~known
      BY <1>1, <1>4, <2>2, ServerFacts
    <2> QED  BY <2>1, <2>2
  <1>7. id \in 1 .. Capping
    <2>1. id \in 1 .. Len(idBuffer')
      BY <1>6
    <2>2. Len(idBuffer') \in Nat /\ Len(idBuffer') <= Capping /\ Capping \in Nat
      BY <1>5, RestoreAssumption
    <2> HIDE DEF id
    <2> QED  BY <2>1, <2>2
  <1>8. item \in BufferedEntry /\ item.containerID = id /\ item.offset = batch[1].offset
    BY <1>4, <1>7 DEF BufferedEntry
  <1> DEFINE size == Len(recipeBuffer)
  <1> HIDE DEF id, item, known, full
  <1>9. /\ recipeBuffer' \in Seq(BufferedEntry) /\ Len(recipeBuffer') = size + 1
        /\ recipeBuffer'[size + 1] = item
        /\ \A n \in 1 .. size : recipeBuffer'[n] = recipeBuffer[n]
    BY <1>1, <1>8, ServerFacts
  <1>10. /\ batch' \in Seq(RecipeEntry)
         /\ full => Len(batch') = Len(batch)
         /\ ~full => Len(batch') = Len(batch) - 1 /\ \A n \in 1 .. Len(batch) - 1 : batch'[n] = batch[n + 1]
    <2>1. batch \in Seq(RecipeEntry)
      BY ServerFacts
    <2>2. CASE full
      BY <1>1, <2>1, <2>2
    <2>3. CASE ~full
      <3>1. batch' = Tail(batch)
        BY <1>1, <2>3
      <3> QED  BY <1>2, <2>1, <2>3, <3>1, TailFacts
    <2> QED  BY <2>2, <2>3
  <1>11. Parsed = cursor - Len(batch) /\ Parsed' = Parsed + 1
    <2>1. Parsed = cursor - Len(batch)
      BY <1>1 DEF Parsed
    <2>2. CASE full
      <3>1. decoder' = "fetch" /\ tail' = FALSE /\ cursor' = cursor /\ batch' = batch
        BY <1>1, <1>2, <2>2
      <3>2. Parsed' = cursor' - Len(batch') + 1
        BY <3>1 DEF Parsed
      <3> QED  BY <2>1, <3>1, <3>2, ServerFacts
    <2>3. CASE ~full
      <3>1. decoder' \notin {"fetch", "recover"} /\ cursor' = cursor
        BY <1>1, <2>3 DEF AfterEntry
      <3>2. Parsed' = cursor' - Len(batch')
        BY <3>1 DEF Parsed
      <3>3. Len(batch') = Len(batch) - 1 /\ Len(batch) \in Nat /\ cursor \in Nat
        BY <1>10, <2>3, ServerFacts
      <3> QED  BY <2>1, <3>1, <3>2, <3>3
    <2> QED  BY <2>2, <2>3, <2>1
  <1>12. CacheInv'
    BY <1>1, CacheSame DEF ServerInv
  <1>13. MapInv' /\ DOMAIN tmpContainerMap' \subseteq ContainerID
         /\ \A c \in DOMAIN tmpContainerMap' : tmpContainerMap'[c] \in 1 .. Capping
    <2>1. ASSUME NEW c \in DOMAIN tmpContainerMap'
          PROVE  /\ tmpContainerMap'[c] \in 1 .. Len(idBuffer') /\ idBuffer'[tmpContainerMap'[c]] = c
                 /\ c \in ContainerID
      <3>1. CASE c = name
        BY <1>1, <1>4, <1>6, <3>1
      <3>2. CASE c # name
        <4>1. c \in DOMAIN tmpContainerMap /\ tmpContainerMap'[c] = tmpContainerMap[c]
          BY <1>1, <2>1, <3>2
        <4>2. tmpContainerMap[c] \in 1 .. Len(idBuffer) /\ idBuffer[tmpContainerMap[c]] = c /\ c \in ContainerID
          BY <4>1 DEF ServerInv, MapInv, ServerTypeOK
        <4>3. tmpContainerMap[c] \in 1 .. Len(idBuffer')
          BY <1>5, <4>2, ServerFacts
        <4> QED  BY <1>5, <4>1, <4>2, <4>3
      <3> QED  BY <3>1, <3>2
    <2>2. \A m \in 1 .. Len(idBuffer') : m \in 1 .. Capping
      BY <1>5, ServerFacts
    <2> QED  BY <2>1, <2>2 DEF MapInv
  <1>14. ServerTypeOK'
    <2>1. decoder' \in {"fetch", "parse", "tail", "read"} /\ k' \in Nat \ {0}
      BY <1>1, ServerFacts DEF AfterEntry
    <2> QED  BY <1>1, <1>5, <1>9, <1>10, <1>13, <2>1 DEF ServerInv, ServerTypeOK
  <1>15. Position'
    <2>1. recipeBuffer' # <<>> /\ tail' = FALSE
      BY <1>1, <1>2, <1>9, ServerFacts
    <2>2. CASE full
      <3>1. 1 \in 1 .. Len(idBuffer')
        BY <2>2, ServerFacts DEF full
      <3> QED  BY <1>1, <1>2, <2>1, <2>2, <3>1 DEF Position
    <2>3. CASE ~full
      <3>1. Len(batch) > 1 => batch' # <<>> /\ decoder' = "parse"
        BY <1>1, <1>10, <2>3, ServerFacts DEF AfterEntry
      <3>2. ~(Len(batch) > 1) => batch' = <<>> /\ decoder' \in {"read", "tail"}
        <4>1. ~(Len(batch) > 1) => Len(batch') = 0
          BY <1>2, <1>10, <2>3, ServerFacts
        <4> QED  BY <1>1, <1>10, <2>3, <4>1 DEF AfterEntry
      <3> QED  BY <2>1, <3>1, <3>2 DEF Position
    <2> QED  BY <2>2, <2>3
  <1>16. BatchInv'
    <2>1. CASE full
      BY <1>1, <2>1 DEF ServerInv, BatchInv
    <2>2. CASE ~full
      <3>1. Len(batch') <= cursor' /\ recipe' = recipe /\ cursor' = cursor
        BY <1>1, <1>10, <2>2, ServerFacts
      <3>2. ASSUME NEW n \in 1 .. Len(batch')
            PROVE  batch'[n] = recipe.entries[cursor - Len(batch') + n]
        <4>1. n + 1 \in 1 .. Len(batch) /\ batch'[n] = batch[n + 1]
              /\ cursor - Len(batch) + (n + 1) = cursor - Len(batch') + n
          <5>1. Len(batch') = Len(batch) - 1 /\ Len(batch) \in Nat /\ cursor \in Nat
            BY <1>10, <2>2, ServerFacts
          <5>2. n \in 1 .. Len(batch) - 1
            BY <5>1
          <5>3. batch'[n] = batch[n + 1]
            BY <1>10, <2>2, <5>2
          <5> QED  BY <5>1, <5>2, <5>3
        <4>2. batch[n + 1] = recipe.entries[cursor - Len(batch) + (n + 1)]
          BY <4>1 DEF ServerInv, BatchInv
        <4> QED  BY <4>1, <4>2
      <3> QED  BY <3>1, <3>2 DEF BatchInv
    <2> QED  BY <2>1, <2>2
  <1>17. GroupInv'
    <2>1. Len(recipeBuffer') <= Parsed'
      BY <1>2, <1>9, <1>11, ServerFacts
    <2>2. decoder' # "fetch" => Len(idBuffer') < Capping
      BY <1>1, <1>5, ServerFacts DEF full
    <2> QED  BY <1>5, <2>1, <2>2 DEF GroupInv
  <1>18. IdsResolve'
    <2>1. ASSUME NEW n \in 1 .. size + 1
          PROVE  LET entry == recipe.entries[Parsed - size + n]
                 IN  /\ recipeBuffer'[n].containerID <= Len(idBuffer')
                     /\ idBuffer'[recipeBuffer'[n].containerID] = entry.containerName
                     /\ recipeBuffer'[n].offset = entry.offset
      <3>1. CASE n = size + 1
        <4>1. Parsed - size + n = cursor - Len(batch) + 1
          BY <1>11, <3>1, ServerFacts
        <4>2. recipeBuffer'[n] = item
          BY <1>9, <3>1
        <4>3. id <= Len(idBuffer')
          BY <1>5, <1>6
        <4> QED  BY <1>3, <1>6, <1>8, <4>1, <4>2, <4>3
      <3>2. CASE n # size + 1
        <4>1. n \in 1 .. size /\ n \in DOMAIN recipeBuffer /\ recipeBuffer'[n] = recipeBuffer[n]
          BY <1>9, <3>2, ServerFacts
        <4> DEFINE entry == recipe.entries[Parsed - size + n]
        <4>2. /\ recipeBuffer[n].containerID <= Len(idBuffer)
              /\ idBuffer[recipeBuffer[n].containerID] = entry.containerName
              /\ recipeBuffer[n].offset = entry.offset
          BY <1>1, <4>1 DEF ServerInv, IdsResolve
        <4>3. recipeBuffer[n] \in BufferedEntry
          BY <4>1, ServerFacts
        <4>4. recipeBuffer[n].containerID \in 1 .. Len(idBuffer)
          BY <4>2, <4>3, ServerFacts DEF BufferedEntry
        <4>5. /\ recipeBuffer[n].containerID <= Len(idBuffer')
              /\ idBuffer'[recipeBuffer[n].containerID] = idBuffer[recipeBuffer[n].containerID]
          <5> DEFINE m == recipeBuffer[n].containerID
          <5> HIDE DEF m
          <5>1. m \in 1 .. Len(idBuffer)
            BY <4>4 DEF m
          <5>2. idBuffer'[m] = idBuffer[m]
            BY <1>5, <5>1
          <5>3. Len(idBuffer) \in Nat /\ Len(idBuffer') \in Nat /\ Len(idBuffer) <= Len(idBuffer')
            BY <1>5, ServerFacts
          <5>4. m <= Len(idBuffer')
            BY <5>1, <5>3
          <5> QED  BY <5>2, <5>4 DEF m
        <4> QED  BY <4>1, <4>2, <4>5
      <3> QED  BY <3>1, <3>2
    <2>2. DOMAIN recipeBuffer' = 1 .. size + 1 /\ recipe' = recipe
      BY <1>1, <1>9
    <2>3. \A n \in 1 .. size + 1 : Parsed' - Len(recipeBuffer') + n = Parsed - size + n
      BY <1>9, <1>11, ServerFacts
    <2> QED  BY <2>1, <2>2, <2>3 DEF IdsResolve
  <1>19. ArrayInv' /\ ChunksBounded'
    <2>1. decoder' # "recover" /\ (decoder' = "fetch" => k' = 1)
      BY <1>1 DEF AfterEntry
    <2> QED  BY <1>1, <2>1 DEF ServerInv, ArrayInv, ChunksBounded
  <1> QED  BY <1>12, <1>13, <1>14, <1>15, <1>16, <1>17, <1>18, <1>19 DEF ServerInv

(* A turn of the loop of GetReqContainers that puts the container into its  *)
(* buffer.                                                                  *)
LEMMA FetchStep ==
    ASSUME ServerInv, decoder = "fetch", CacheInv', NextContainer,
           NEW b \in Buffer, Holds(b, idBuffer[k]),
           containerArray' = [containerArray EXCEPT ![k] = b],
           UNCHANGED <<recipe, headRead, cursor, end, idBuffer, batch,
                       tmpContainerMap, recipeBuffer, tail, chunkBuffer>>
    PROVE  ServerInv'
  <1>1. /\ k \in 1 .. Len(idBuffer) /\ Len(idBuffer) <= Capping
        /\ recipeBuffer # <<>> /\ (~tail => batch # <<>>) /\ (tail => batch = <<>>)
    BY DEF ServerInv, Position, GroupInv
  <1>2. k \in 1 .. Capping
    BY <1>1, ServerFacts
  <1>3. /\ containerArray' \in [1 .. Capping -> Buffer] /\ containerArray'[k] = b
        /\ \A n \in 1 .. Capping : n # k => containerArray'[n] = containerArray[n]
    BY <1>2, ServerFacts
  <1>4. \A n \in 1 .. k : Holds(containerArray'[n], idBuffer[n])
    <2> TAKE n \in 1 .. k
    <2>1. CASE n = k
      BY <1>3, <2>1
    <2>2. CASE n # k
      <3>1. n \in 1 .. k - 1 /\ n \in 1 .. Capping
        BY <1>1, <2>2, ServerFacts
      <3>2. Holds(containerArray[n], idBuffer[n])
        BY <3>1 DEF ServerInv, ArrayInv
      <3> QED  BY <1>3, <2>2, <3>1, <3>2
    <2> QED  BY <2>1, <2>2
  <1>5. \/ k = Len(idBuffer) /\ decoder' = "recover" /\ k' = 1
        \/ k < Len(idBuffer) /\ decoder' = "fetch" /\ k' = k + 1
    BY <1>1, ServerFacts DEF NextContainer
  <1>6. Parsed' = Parsed
    BY <1>5 DEF Parsed
  <1>7. ServerTypeOK'
    <2>1. k' \in Nat \ {0} /\ decoder' \in {"recover", "fetch"}
      BY <1>1, <1>5, ServerFacts
    <2> QED  BY <1>3, <2>1 DEF ServerInv, ServerTypeOK
  <1>8. Position'
    <2>1. k \in Nat /\ Len(idBuffer) \in Nat /\ Len(recipeBuffer) \in Nat /\ Len(recipeBuffer) > 0
      BY <1>1, ServerFacts
    <2>2. decoder' = "fetch" => k' \in 1 .. Len(idBuffer')
      BY <1>5, <2>1
    <2>3. decoder' = "recover" => k' \in 1 .. Len(recipeBuffer')
      BY <1>5, <2>1
    <2> QED  BY <1>1, <1>5, <2>2, <2>3 DEF Position
  <1>9. BatchInv' /\ MapInv' /\ ChunksBounded'
    BY DEF ServerInv, BatchInv, MapInv, ChunksBounded
  <1>10. GroupInv' /\ IdsResolve'
    BY <1>5, <1>6 DEF ServerInv, GroupInv, IdsResolve, Active
  <1>11. ArrayInv'
    <2>1. CASE k = Len(idBuffer) /\ decoder' = "recover" /\ k' = 1
      BY <1>4, <2>1 DEF ArrayInv
    <2>2. CASE k < Len(idBuffer) /\ decoder' = "fetch" /\ k' = k + 1
      <3>1. k' - 1 = k
        BY <2>2, ServerFacts
      <3> QED  BY <1>4, <2>2, <3>1 DEF ArrayInv
    <2> QED  BY <1>5, <2>1, <2>2
  <1> QED  BY <1>7, <1>8, <1>9, <1>10, <1>11 DEF ServerInv

(* A container that the cache has, *)
LEMMA FetchFromCacheServer ==
    ASSUME ServerInv, FetchFromCache
    PROVE  ServerInv'
  <1> DEFINE c == idBuffer[k]
  <1>1. c \in DOMAIN slotOf
    BY DEF FetchFromCache, ExistsInCache
  <1>2. CacheInv'
    BY <1>1, CacheRead DEF FetchFromCache, ServerInv
  <1>3. pool[slotOf[c]] \in Buffer /\ Holds(pool[slotOf[c]], c)
    BY <1>1 DEF ServerInv, CacheInv, CacheTypeOK, CacheSound, Holds
  <1> QED  BY <1>2, <1>3, FetchStep DEF FetchFromCache

(* and one that is read from its file and inserted into the cache. *)
LEMMA FetchFromFileServer ==
    ASSUME ServerInv, FetchFromFile
    PROVE  ServerInv'
  <1> DEFINE c == idBuffer[k]
             b == CopyTo(containerArray[k], Body[c])
  <1>1. k \in 1 .. Len(idBuffer) /\ Len(idBuffer) <= Capping
    BY DEF ServerInv, Position, GroupInv, FetchFromFile
  <1>2. c \in ContainerID
    BY <1>1, ServerFacts
  <1>3. k \in 1 .. Capping
    BY <1>1, ServerFacts
  <1>4. containerArray[k] \in Buffer
    BY <1>3, ServerFacts
  <1>5. b \in Buffer /\ Holds(b, c)
    BY <1>2, <1>4, CopyHolds
  <1>6. CacheInv'
    BY <1>2, CacheInsert DEF FetchFromFile, ExistsInCache, ServerInv
  <1>7. containerArray' = [containerArray EXCEPT ![k] = b]
    BY DEF FetchFromFile
  <1> HIDE DEF b
  <1> QED  BY <1>5, <1>6, <1>7, FetchStep DEF FetchFromFile

(* The end of a turn of a recover loop, whatever becomes of the chunk. *)
LEMMA RecoverStep ==
    ASSUME ServerInv, decoder = "recover", NextRecovered,
           chunkBuffer' \in Seq(Chunk), Len(chunkBuffer') < SendChunkBatchSize,
           UNCHANGED <<cacheVars, recipe, headRead, cursor, end, containerArray, tail>>
    PROVE  ServerInv'
  <1>1. /\ k \in 1 .. Len(recipeBuffer) /\ recipeBuffer # <<>>
        /\ (~tail => batch # <<>>) /\ (tail => batch = <<>>)
        /\ Len(recipeBuffer) <= Parsed
    BY DEF ServerInv, Position, GroupInv, Active
  <1>2. CacheInv'
    BY CacheSame DEF ServerInv
  <1>3. ChunksBounded'
    BY DEF ChunksBounded
  <1>4. CASE k < Len(recipeBuffer)
    <2>1. k' = k + 1 /\ UNCHANGED <<decoder, batch, idBuffer, recipeBuffer, tmpContainerMap>>
      BY <1>4 DEF NextRecovered
    <2>2. Parsed' = Parsed
      BY <2>1 DEF Parsed
    <2>3. k' \in 1 .. Len(recipeBuffer) /\ k' \in Nat \ {0}
      BY <1>1, <1>4, <2>1, ServerFacts
    <2>4. ServerTypeOK'
      BY <2>1, <2>3 DEF ServerInv, ServerTypeOK
    <2>5. Position'
      BY <1>1, <2>1, <2>3 DEF Position
    <2>6. BatchInv' /\ MapInv' /\ ArrayInv'
      BY <2>1 DEF ServerInv, BatchInv, MapInv, ArrayInv, Holds
    <2>7. GroupInv' /\ IdsResolve'
      BY <2>1, <2>2 DEF ServerInv, GroupInv, IdsResolve
    <2> QED  BY <1>2, <1>3, <2>4, <2>5, <2>6, <2>7 DEF ServerInv
  <1>5. CASE ~(k < Len(recipeBuffer)) /\ tail
    <2>1. k' = 1 /\ decoder' = "close" /\ UNCHANGED <<batch, idBuffer, recipeBuffer, tmpContainerMap>>
      BY <1>5 DEF NextRecovered
    <2>2. ServerTypeOK'
      BY <2>1 DEF ServerInv, ServerTypeOK
    <2>3. Position' /\ BatchInv' /\ MapInv' /\ ArrayInv'
      BY <1>1, <2>1 DEF ServerInv, Position, BatchInv, MapInv, ArrayInv
    <2>4. GroupInv' /\ IdsResolve'
      BY <2>1 DEF ServerInv, GroupInv, IdsResolve, Active
    <2> QED  BY <1>2, <1>3, <2>2, <2>3, <2>4 DEF ServerInv
  <1>6. CASE ~(k < Len(recipeBuffer)) /\ ~tail
    <2>1. /\ k' = 1 /\ decoder' = AfterEntry /\ batch' = Tail(batch)
          /\ idBuffer' = <<>> /\ recipeBuffer' = <<>> /\ tmpContainerMap' = <<>>
      BY <1>6 DEF NextRecovered, Reset
    <2>2. batch \in Seq(RecipeEntry) /\ batch # <<>> /\ tail = FALSE
      BY <1>1, <1>6, ServerFacts
    <2>3. /\ batch' \in Seq(RecipeEntry) /\ Len(batch') = Len(batch) - 1
          /\ Len(batch) > 0
          /\ \A n \in 1 .. Len(batch) - 1 : batch'[n] = batch[n + 1]
      BY <2>1, <2>2, TailFacts
    <2>4. Len(batch) > 1 => decoder' = "parse" /\ batch' # <<>>
      <3>1. Len(batch') = Len(batch) - 1 /\ Len(batch) \in Nat
        BY <2>3, ServerFacts
      <3>2. \A i \in Nat : i > 1 => i - 1 # 0
        OBVIOUS
      <3>3. Len(batch) > 1 => Len(batch') # 0
        BY <3>1, <3>2
      <3>4. batch' = <<>> => Len(batch') = 0
        OBVIOUS
      <3> QED  BY <2>1, <3>3, <3>4 DEF AfterEntry
    <2>5. ~(Len(batch) > 1) => decoder' \in {"read", "tail"} /\ batch' = <<>>
      <3>1. ~(Len(batch) > 1) => Len(batch') = 0
        BY <2>3, ServerFacts
      <3> QED  BY <2>1, <2>3, <3>1 DEF AfterEntry
    <2>6. decoder' \in {"parse", "read", "tail"}
      BY <2>4, <2>5
    <2>7. ServerTypeOK'
      <3>1. /\ idBuffer' \in Seq(ContainerID) /\ recipeBuffer' \in Seq(BufferedEntry)
            /\ DOMAIN tmpContainerMap' = {} /\ k' \in Nat \ {0}
        BY <2>1
      <3> QED  BY <2>3, <2>6, <3>1 DEF ServerInv, ServerTypeOK
    <2>8. Position'
      BY <2>1, <2>2, <2>4, <2>5 DEF Position
    <2>9. BatchInv'
      <3>1. Len(batch') <= cursor' /\ recipe' = recipe /\ cursor' = cursor
        BY <2>3, ServerFacts
      <3>2. ASSUME NEW n \in 1 .. Len(batch')
            PROVE  batch'[n] = recipe.entries[cursor - Len(batch') + n]
        <4>1. Len(batch') = Len(batch) - 1 /\ Len(batch) \in Nat /\ cursor \in Nat
          BY <2>3, ServerFacts
        <4>2. n \in 1 .. Len(batch) - 1
          BY <4>1
        <4>3. batch'[n] = batch[n + 1]
          BY <2>3, <4>2
        <4>4. n + 1 \in 1 .. Len(batch) /\ cursor - Len(batch) + (n + 1) = cursor - Len(batch') + n
          BY <4>1, <4>2
        <4>5. batch[n + 1] = recipe.entries[cursor - Len(batch) + (n + 1)]
          BY <4>4 DEF ServerInv, BatchInv
        <4> QED  BY <4>3, <4>4, <4>5
      <3> QED  BY <3>1, <3>2 DEF BatchInv
    <2>10. MapInv' /\ ArrayInv'
      BY <2>1, <2>6 DEF MapInv, ArrayInv
    <2>11. GroupInv'
      <3>1. Parsed' = cursor' - Len(batch')
        BY <2>6 DEF Parsed
      <3>2. Len(idBuffer') = 0 /\ Len(recipeBuffer') = 0
        BY <2>1
      <3>3. 0 <= Parsed'
        <4>1. Len(batch') = Len(batch) - 1 /\ Len(batch) \in Nat /\ cursor \in Nat
              /\ Len(batch) <= cursor /\ cursor' = cursor
          BY <2>3, ServerFacts
        <4> QED  BY <3>1, <4>1
      <3>4. 0 <= Capping /\ 0 < Capping
        BY ServerFacts
      <3>5. Len(idBuffer') <= Capping /\ Len(idBuffer') < Capping /\ Len(recipeBuffer') <= Parsed'
        BY <3>2, <3>3, <3>4
      <3> QED  BY <3>5 DEF GroupInv
    <2>12. IdsResolve'
      BY <2>1 DEF IdsResolve
    <2> QED  BY <1>2, <1>3, <2>7, <2>8, <2>9, <2>10, <2>11, <2>12 DEF ServerInv
  <1> QED  BY <1>4, <1>5, <1>6

(* The chunk that is recovered, and the room for it in a message. *)
LEMMA RecoverOneChunkFacts ==
    ASSUME ServerInv, decoder = "recover"
    PROVE  /\ RecoverOneChunk \in Seq(Chunk)
           /\ Len(RecoverOneChunk) = Len(chunkBuffer) + 1
           /\ Len(RecoverOneChunk) <= SendChunkBatchSize
           /\ ~FlushNow => Len(RecoverOneChunk) < SendChunkBatchSize
  <1>1. containerArray[recipeBuffer[k].containerID][recipeBuffer[k].offset] \in Chunk
    BY RecoverRight
  <1>2. RecoverOneChunk \in Seq(Chunk) /\ Len(RecoverOneChunk) = Len(chunkBuffer) + 1
    BY <1>1, ServerFacts DEF RecoverOneChunk
  <1>3. Len(chunkBuffer) \in Nat /\ SendChunkBatchSize \in Nat \ {0}
        /\ Len(chunkBuffer) < SendChunkBatchSize
    BY ServerFacts DEF ServerInv, ChunksBounded
  <1>4. Len(chunkBuffer) + 1 <= SendChunkBatchSize
    BY <1>3
  <1>5. (Len(chunkBuffer) + 1) % SendChunkBatchSize # 0 => Len(chunkBuffer) + 1 < SendChunkBatchSize
    <2>1. SendChunkBatchSize % SendChunkBatchSize = 0
      BY <1>3
    <2> QED  BY <1>3, <1>4, <2>1
  <1> QED  BY <1>2, <1>4, <1>5 DEF FlushNow

(* A chunk that stays in the message buffer, *)
LEMMA RecoverKeepServer ==
    ASSUME ServerInv, RecoverKeep
    PROVE  ServerInv'
  <1>1. decoder = "recover" /\ ~FlushNow /\ chunkBuffer' = RecoverOneChunk
    BY DEF RecoverKeep
  <1>2. chunkBuffer' \in Seq(Chunk) /\ Len(chunkBuffer') < SendChunkBatchSize
    BY <1>1, RecoverOneChunkFacts
  <1> QED  BY <1>1, <1>2, RecoverStep DEF RecoverKeep

(* and one that completes a message. *)
LEMMA RecoverSendServer ==
    ASSUME ServerInv, RecoverSend
    PROVE  ServerInv'
  <1>1. decoder = "recover" /\ chunkBuffer' = <<>>
    BY DEF RecoverSend, RecoverAndSend
  <1>2. chunkBuffer' \in Seq(Chunk) /\ Len(chunkBuffer') < SendChunkBatchSize
    BY <1>1, ServerFacts
  <1> QED  BY <1>1, <1>2, RecoverStep DEF RecoverSend

(* The group left at the end of the recipe has at least one container. *)
LEMMA TailFetchServer ==
    ASSUME ServerInv, TailFetch
    PROVE  ServerInv'
  <1> USE DEF TailFetch
  <1>1. CacheInv'
    BY CacheSame DEF ServerInv
  <1>2. ServerTypeOK'
    BY DEF ServerInv, ServerTypeOK
  <1>3. batch = <<>>
    BY DEF ServerInv, Position
  <1>4. 1 \in 1 .. Len(idBuffer)
    <2>1. Len(recipeBuffer) > 0 /\ 1 \in DOMAIN recipeBuffer
      BY ServerFacts
    <2>2. recipeBuffer[1].containerID <= Len(idBuffer)
      BY <2>1 DEF ServerInv, IdsResolve
    <2>3. recipeBuffer[1] \in BufferedEntry
      BY <2>1, ServerFacts
    <2>4. recipeBuffer[1].containerID \in 1 .. Capping
      BY <2>3 DEF BufferedEntry
    <2> QED  BY <2>2, <2>4, ServerFacts
  <1>5. Position'
    BY <1>3, <1>4 DEF Position
  <1>6. BatchInv' /\ MapInv' /\ ArrayInv' /\ ChunksBounded'
    BY DEF ServerInv, BatchInv, MapInv, ArrayInv, ChunksBounded
  <1>7. Parsed' = Parsed
    BY DEF Parsed
  <1>8. GroupInv' /\ IdsResolve'
    BY <1>7 DEF ServerInv, GroupInv, IdsResolve, Active
  <1> QED  BY <1>1, <1>2, <1>5, <1>6, <1>8 DEF ServerInv

(* Nothing is left to recover: the last message is what the buffer holds. *)
LEMMA TailSendServer ==
    ASSUME ServerInv, TailSend
    PROVE  ServerInv'
  <1> USE DEF TailSend
  <1>1. CacheInv'
    BY CacheSame DEF ServerInv
  <1>2. ServerTypeOK'
    BY DEF ServerInv, ServerTypeOK
  <1>3. ChunksBounded'
    BY ServerFacts DEF ChunksBounded
  <1>4. Position' /\ BatchInv' /\ MapInv' /\ ArrayInv'
    BY DEF ServerInv, Position, BatchInv, MapInv, ArrayInv
  <1>5. GroupInv' /\ IdsResolve'
    BY DEF ServerInv, GroupInv, IdsResolve, Active
  <1> QED  BY <1>1, <1>2, <1>3, <1>4, <1>5 DEF ServerInv

(* The decoder's side of every step. *)
LEMMA ServerNext ==
    ASSUME ServerInv, [Next]_vars
    PROVE  ServerInv'
  <1>1. headRead \in BOOLEAN
    BY DEF ServerInv, ServerTypeOK
  <1>2. CASE OptThread
    <2>1. CASE SendLoginResponse
      <3>1. headRead' \in BOOLEAN /\ UNCHANGED serverSide
        BY <2>1 DEF SendLoginResponse, serverSide, enclave
      <3> QED  BY <3>1, ServerUnchanged
    <2>2. CASE SendLoginResponseFails
      <3>1. headRead' \in BOOLEAN /\ decoder' = "exit"
            /\ UNCHANGED <<cacheVars, recipe, cursor, end, idBuffer, containerArray, enclave>>
        BY <2>2 DEF SendLoginResponseFails, Exit
      <3> QED  BY <3>1, ServerLeaves
    <2> QED  BY <1>2, <2>1, <2>2 DEF OptThread
  <1>3. CASE RecvReadyFails \/ FetchFails \/ SendFails \/ WaitClose \/ ServerStops
    <2>1. decoder' \in {"exit", "done"} /\ headRead' = headRead
          /\ UNCHANGED <<cacheVars, recipe, cursor, end, idBuffer, containerArray, enclave>>
      BY <1>3 DEF RecvReadyFails, FetchFails, SendFails, WaitClose, ServerStops, Exit
    <2> QED  BY <1>1, <2>1, ServerLeaves
  <1>4. CASE RecvReady \/ ReadRecipe \/ ParseEntry \/ FetchFromCache \/ FetchFromFile
             \/ RecoverKeep \/ RecoverSend \/ TailFetch \/ TailSend
    BY <1>4, RecvReadyServer, ReadRecipeServer, ParseEntryServer, FetchFromCacheServer,
       FetchFromFileServer, RecoverKeepServer, RecoverSendServer, TailFetchServer, TailSendServer
  <1>5. CASE Retriever \/ Writer \/ ClientStops \/ Ended \/ UNCHANGED vars
    <2>1. UNCHANGED <<cacheVars, server, enclave>>
      <3>1. CASE Retriever
        BY <3>1 DEF Retriever, RestoreLogin, SendReady, RecvMessage, ConnectionFails, PushChunk,
           NextMessage, Finish, FinishReturns, SetDone, CompareCount, JoinThreads
      <3>2. CASE Writer \/ ClientStops
        BY <3>2 DEF Writer, WriterCheck, WriterPop, ClientStops
      <3>3. CASE Ended \/ UNCHANGED vars
        BY <3>3 DEF Ended, vars
      <3> QED  BY <1>5, <3>1, <3>2, <3>3
    <2>2. headRead' = headRead /\ UNCHANGED serverSide
      BY <2>1 DEF server, enclave, serverSide
    <2> QED  BY <1>1, <2>2, ServerUnchanged
  <1> QED  BY <1>2, <1>3, <1>4, <1>5 DEF Next, Decoder
-----------------------------------------------------------------------------
(* Steps of the server that send nothing. *)
LEMMA ClientUnmoved ==
    ASSUME ClientInv, UNCHANGED <<toClient, closed, client>>,
           headRead => headRead', ready' \in BOOLEAN, ready' => ready,
           decoder' \in {"exit", decoder} \/ decoder \notin {"ready", "exit"} \/ ready
    PROVE  ClientInv'
  <1> USE DEF client
  <1>1. ClientTypeOK'
    BY DEF ClientInv, ClientTypeOK
  <1>2. LoginInv'
    BY DEF ClientInv, LoginInv
  <1>3. MessagesBounded'
    BY DEF ClientInv, MessagesBounded
  <1> QED  BY <1>1, <1>2, <1>3 DEF ClientInv

(* A message that is sent, or lost because the client is gone. *)
LEMMA ClientSent ==
    ASSUME ClientInv, decoder \notin {"ready", "exit"},
           NEW type \in {"SERVER_RESTORE_CHUNK", "SERVER_RESTORE_FINAL"},
           NEW chunks \in Seq(Chunk), Len(chunks) <= SendChunkBatchSize,
           Send(type, chunks), UNCHANGED <<headRead, ready, closed, client>>
    PROVE  ClientInv'
  <1> DEFINE msg == [messageType |-> type, chunks |-> chunks]
  <1>1. retriever \notin {"login", "start"} /\ retriever' = retriever /\ headRead
    BY DEF client, ClientInv, LoginInv
  <1>2. toClient \in Seq(Message)
    BY <1>1 DEF ClientInv, ClientTypeOK
  <1>3. msg \in Message /\ msg.chunks = chunks
    BY DEF Message
  <1> HIDE DEF msg
  <1>4. /\ toClient' \in Seq(Message)
        /\ \A n \in 1 .. Len(toClient') : Len(toClient'[n].chunks) <= SendChunkBatchSize
    <2>1. \A n \in 1 .. Len(toClient) : Len(toClient[n].chunks) <= SendChunkBatchSize
      BY <1>1 DEF ClientInv, MessagesBounded
    <2>2. CASE toClient' = toClient
      BY <1>2, <2>1, <2>2
    <2>3. CASE toClient' = Append(toClient, msg)
      <3>1. toClient' \in Seq(Message) /\ Len(toClient') = Len(toClient) + 1
        BY <1>2, <1>3, <2>3
      <3>2. ASSUME NEW n \in 1 .. Len(toClient')
            PROVE  Len(toClient'[n].chunks) <= SendChunkBatchSize
        <4>1. CASE n = Len(toClient) + 1
          <5>1. toClient'[n] = msg
            BY <1>2, <1>3, <2>3, <4>1
          <5> QED  BY <1>3, <5>1
        <4>2. CASE n # Len(toClient) + 1
          <5>1. n \in 1 .. Len(toClient) /\ toClient'[n] = toClient[n]
            BY <1>2, <1>3, <2>3, <3>1, <4>2
          <5> QED  BY <2>1, <5>1
        <4> QED  BY <4>1, <4>2
      <3> QED  BY <3>1, <3>2
    <2> QED  BY <2>2, <2>3 DEF Send, msg
  <1>5. ClientTypeOK'
    BY <1>1, <1>4 DEF client, ClientInv, ClientTypeOK
  <1>6. LoginInv' /\ MessagesBounded'
    BY <1>1, <1>4 DEF LoginInv, MessagesBounded
  <1> QED  BY <1>5, <1>6 DEF ClientInv

(* The login response is the only message before the session starts. *)
LEMMA ClientLoginAnswered ==
    ASSUME ClientInv, recipe.totalChunkNum \in Nat, SendLoginResponse
    PROVE  ClientInv'
  <1> DEFINE msg == [messageType |-> "SERVER_LOGIN_RESPONSE",
                     totalChunkNum |-> recipe.totalChunkNum]
  <1>1. toClient = <<>> /\ retriever = "login" /\ headRead' = TRUE
    BY DEF SendLoginResponse, ClientInv, LoginInv
  <1>2. toClient' = toClient \/ toClient' = Append(toClient, msg)
    BY DEF SendLoginResponse
  <1>3. msg \in LoginResponse
    BY DEF LoginResponse
  <1> HIDE DEF msg
  <1>4. toClient' \in Seq(LoginResponse) /\ Len(toClient') <= 1
    <2>1. CASE toClient' = toClient
      <3>1. toClient' = <<>>
        BY <1>1, <2>1
      <3> QED  BY <3>1
    <2>2. CASE toClient' = Append(toClient, msg)
      <3>1. toClient \in Seq(LoginResponse) /\ Len(toClient) = 0
        BY <1>1
      <3> QED  BY <1>3, <2>2, <3>1
    <2> QED  BY <1>2, <2>1, <2>2
  <1>5. ClientTypeOK'
    BY <1>1, <1>4 DEF SendLoginResponse, client, ClientInv, ClientTypeOK
  <1>6. LoginInv' /\ MessagesBounded'
    BY <1>1, <1>4 DEF SendLoginResponse, client, ClientInv, LoginInv, MessagesBounded
  <1> QED  BY <1>5, <1>6 DEF ClientInv

(* Steps of the client that leave the network and the place of the session  *)
(* alone.                                                                   *)
LEMMA ClientMoves ==
    ASSUME ClientInv, ClientTypeOK', UNCHANGED <<headRead, decoder, toClient, ready>>,
           retriever' = retriever \/ {retriever, retriever'} \cap {"login", "start"} = {}
    PROVE  ClientInv'
  <1>1. LoginInv' /\ MessagesBounded'
    BY DEF ClientInv, LoginInv, MessagesBounded
  <1> QED  BY <1>1 DEF ClientInv

(* The client takes the login response, *)
LEMMA RestoreLoginClient ==
    ASSUME ClientInv, RestoreLogin
    PROVE  ClientInv'
  <1>1. toClient \in Seq(LoginResponse) /\ Len(toClient) <= 1 /\ toClient # <<>>
        /\ headRead /\ ~ready /\ decoder \in {"ready", "exit"}
    BY DEF RestoreLogin, ClientInv, ClientTypeOK, LoginInv
  <1>2. Head(toClient) \in LoginResponse /\ Tail(toClient) = <<>>
    <2>1. Tail(toClient) \in Seq(LoginResponse) /\ Len(Tail(toClient)) = 0
      <3>1. Len(toClient) > 0 /\ Len(toClient) \in Nat /\ Len(Tail(toClient)) = Len(toClient) - 1
            /\ Tail(toClient) \in Seq(LoginResponse)
        BY <1>1, TailFacts
      <3>2. Len(toClient) <= 1
        BY <1>1
      <3> QED  BY <3>1, <3>2
    <2>2. Head(toClient) \in LoginResponse
      BY <1>1
    <2>3. Tail(toClient) = <<>>
      BY <2>1, EmptySeq
    <2> QED  BY <2>2, <2>3
  <1>3. Head(toClient).totalChunkNum \in Nat
    BY <1>2 DEF LoginResponse
  <1>4. ClientTypeOK'
    <2>1. toClient' = <<>> /\ retriever' = "start" /\ expectedNum' \in Nat
      BY <1>2, <1>3 DEF RestoreLogin
    <2>2. toClient' \in Seq(Message)
      BY <2>1
    <2> QED  BY <2>1, <2>2 DEF RestoreLogin, ClientInv, ClientTypeOK
  <1>5. LoginInv'
    BY <1>1 DEF RestoreLogin, server, LoginInv
  <1>6. MessagesBounded'
    <2>1. toClient' = <<>>
      BY <1>2 DEF RestoreLogin
    <2>2. 1 .. Len(toClient') = {}
      BY <2>1
    <2> QED  BY <2>2 DEF MessagesBounded
  <1> QED  BY <1>4, <1>5, <1>6 DEF ClientInv

(* and the messages that follow. *)
LEMMA RecvMessageClient ==
    ASSUME ClientInv, RecvMessage
    PROVE  ClientInv'
  <1>1. toClient \in Seq(Message) /\ toClient # <<>> /\ retriever' = "process"
    BY DEF RecvMessage, ClientInv, ClientTypeOK
  <1>2. /\ Tail(toClient) \in Seq(Message) /\ Head(toClient) \in Message
        /\ Len(toClient) \in Nat /\ Len(Tail(toClient)) = Len(toClient) - 1
        /\ \A n \in 1 .. Len(toClient) - 1 : Tail(toClient)[n] = toClient[n + 1]
    <2>1. Head(toClient) \in Message
      BY <1>1
    <2> QED  BY <1>1, <2>1, TailFacts
  <1>3. ClientTypeOK'
    BY <1>1, <1>2 DEF RecvMessage, ClientInv, ClientTypeOK
  <1>4. MessagesBounded'
    <2>1. ASSUME NEW n \in 1 .. Len(toClient')
          PROVE  Len(toClient'[n].chunks) <= SendChunkBatchSize
      <3>1. toClient' = Tail(toClient)
        BY DEF RecvMessage
      <3>2. n + 1 \in 1 .. Len(toClient) /\ toClient'[n] = toClient[n + 1]
        BY <1>2, <3>1
      <3>3. Len(toClient[n + 1].chunks) <= SendChunkBatchSize
        BY <3>2 DEF RecvMessage, ClientInv, MessagesBounded
      <3> QED  BY <3>2, <3>3
    <2> QED  BY <2>1 DEF MessagesBounded
  <1>5. LoginInv'
    BY <1>1 DEF RecvMessage, server, ClientInv, LoginInv
  <1> QED  BY <1>3, <1>4, <1>5 DEF ClientInv

(* The threads of the client between messages. *)
LEMMA ClientThreads ==
    ASSUME ClientInv,
           \/ ConnectionFails \/ PushChunk \/ NextMessage \/ Finish \/ FinishReturns
           \/ SetDone \/ CompareCount \/ JoinThreads \/ Writer \/ ClientStops
    PROVE  ClientInv'
  <1>1. CASE PushChunk
    <2>1. recvChunkBuf.chunks \in Seq(Chunk) /\ recvChunkBuf.chunks # <<>>
          /\ outputMQ \in Seq(Chunk) /\ recvChunkBuf \in Message /\ recvNum \in Nat
      BY <1>1 DEF PushChunk, ClientInv, ClientTypeOK, Message
    <2>2. Head(recvChunkBuf.chunks) \in Chunk /\ Tail(recvChunkBuf.chunks) \in Seq(Chunk)
      BY <2>1
    <2>3. outputMQ' \in Seq(Chunk) /\ recvNum' \in Nat
      BY <1>1, <2>1, <2>2 DEF PushChunk
    <2>4. recvChunkBuf' \in Message
      BY <1>1, <2>1, <2>2 DEF PushChunk, Message
    <2>5. ClientTypeOK'
      BY <1>1, <2>3, <2>4 DEF PushChunk, net, ClientInv, ClientTypeOK
    <2> QED  BY <1>1, <2>5, ClientMoves DEF PushChunk, net, server
  <1>2. CASE NextMessage \/ Finish \/ FinishReturns \/ SetDone \/ CompareCount
    <2> USE DEF NextMessage, Finish, FinishReturns, SetDone, CompareCount, net, server
    <2>1. ClientTypeOK'
      BY <1>2 DEF ClientInv, ClientTypeOK
    <2>2. /\ UNCHANGED <<headRead, decoder, toClient, ready>>
          /\ retriever' = retriever \/ {retriever, retriever'} \cap {"login", "start"} = {}
      BY <1>2
    <2> QED  BY <2>1, <2>2, ClientMoves
  <1>3. CASE WriterPop
    <2>1. outputMQ \in Seq(Chunk) /\ output \in Seq(Chunk)
      BY DEF ClientInv, ClientTypeOK
    <2>2. outputMQ' \in Seq(Chunk) /\ output' \in Seq(Chunk)
      <3>1. CASE outputMQ # <<>>
        <4>1. Head(outputMQ) \in Chunk /\ Tail(outputMQ) \in Seq(Chunk)
          BY <2>1, <3>1
        <4>2. Append(output, Head(outputMQ)) \in Seq(Chunk)
          BY <2>1, <4>1
        <4> QED  BY <1>3, <3>1, <4>1, <4>2 DEF WriterPop
      <3>2. CASE outputMQ = <<>>
        BY <1>3, <2>1, <3>2 DEF WriterPop
      <3> QED  BY <3>1, <3>2
    <2>3. ClientTypeOK'
      BY <1>3, <2>2 DEF WriterPop, net, ClientInv, ClientTypeOK
    <2> QED  BY <1>3, <2>3, ClientMoves DEF WriterPop, net, server
  <1>4. CASE WriterCheck \/ ConnectionFails \/ JoinThreads \/ ClientStops
    <2> USE DEF WriterCheck, ConnectionFails, JoinThreads, ClientStops, net, server
    <2>1. ClientTypeOK'
      <3>1. jobDone' \in BOOLEAN
        BY <1>4 DEF ClientInv, ClientTypeOK, AllPopped
      <3>2. /\ writer' \in {"pop", writer} /\ status' \in {"complete", "failed", status}
            /\ UNCHANGED <<toClient, ready, closed, retriever, expectedNum, recvChunkBuf, recvNum,
                           outputMQ, done, output>>
        BY <1>4
      <3> QED  BY <3>1, <3>2 DEF ClientInv, ClientTypeOK
    <2>2. UNCHANGED <<headRead, decoder, toClient, ready, retriever>>
      BY <1>4
    <2> QED  BY <2>1, <2>2, ClientMoves
  <1> QED  BY <1>1, <1>2, <1>3, <1>4 DEF Writer

(* The client lets the decoder start. *)
LEMMA SendReadyClient ==
    ASSUME ClientInv, SendReady
    PROVE  ClientInv'
  <1>1. toClient \in Seq(Message) /\ headRead
    BY DEF SendReady, ClientInv, ClientTypeOK, LoginInv
  <1>2. ClientTypeOK'
    BY <1>1 DEF SendReady, ClientInv, ClientTypeOK
  <1>3. LoginInv' /\ MessagesBounded'
    BY <1>1 DEF SendReady, server, ClientInv, LoginInv, MessagesBounded
  <1> QED  BY <1>2, <1>3 DEF ClientInv

(* The client's side of every step. *)
LEMMA ClientNext ==
    ASSUME ServerInv, ClientInv, [Next]_vars
    PROVE  ClientInv'
  <1>1. CASE SendLoginResponse
    <2>1. recipe.totalChunkNum \in Nat
      BY DEF ServerInv, ServerTypeOK
    <2> QED  BY <1>1, <2>1, ClientLoginAnswered
  <1>2. CASE RecoverSend
    <2>1. RecoverOneChunk \in Seq(Chunk) /\ Len(RecoverOneChunk) <= SendChunkBatchSize
      BY <1>2, RecoverOneChunkFacts DEF RecoverSend
    <2> QED  BY <1>2, <2>1, ClientSent DEF RecoverSend, RecoverAndSend
  <1>3. CASE TailSend
    <2>1. chunkBuffer \in Seq(Chunk) /\ Len(chunkBuffer) <= SendChunkBatchSize
      BY ServerFacts DEF ServerInv, ChunksBounded
    <2> QED  BY <1>3, <2>1, ClientSent DEF TailSend
  <1>4. CASE \/ SendLoginResponseFails \/ RecvReady \/ RecvReadyFails \/ ReadRecipe \/ ParseEntry
             \/ FetchFromCache \/ FetchFromFile \/ FetchFails \/ RecoverKeep \/ TailFetch
             \/ SendFails \/ WaitClose \/ ServerStops \/ Ended \/ UNCHANGED vars
    <2>1. ready \in BOOLEAN
      BY DEF ClientInv, ClientTypeOK
    <2>2. CASE \/ SendLoginResponseFails \/ RecvReadyFails \/ FetchFails \/ SendFails \/ ServerStops
      BY <2>1, <2>2, ClientUnmoved
         DEF SendLoginResponseFails, RecvReadyFails, FetchFails, SendFails, ServerStops, Exit, net
    <2>3. CASE RecvReady
      BY <2>1, <2>3, ClientUnmoved DEF RecvReady
    <2>4. CASE ReadRecipe \/ ParseEntry
      <3>1. decoder \notin {"ready", "exit"} /\ UNCHANGED <<headRead, net, client>>
        BY <2>4 DEF ReadRecipe, ParseEntry
      <3> QED  BY <2>1, <3>1, ClientUnmoved DEF net
    <2>5. CASE FetchFromCache \/ FetchFromFile \/ RecoverKeep \/ TailFetch \/ WaitClose
      <3>1. decoder \notin {"ready", "exit"} /\ UNCHANGED <<headRead, net, client>>
        BY <2>5 DEF FetchFromCache, FetchFromFile, RecoverKeep, TailFetch, WaitClose
      <3> QED  BY <2>1, <3>1, ClientUnmoved DEF net
    <2>6. CASE Ended \/ UNCHANGED vars
      <3>1. UNCHANGED <<headRead, decoder, net, client>>
        BY <2>6 DEF Ended, vars, server
      <3> QED  BY <2>1, <3>1, ClientUnmoved DEF net
    <2> QED  BY <1>4, <2>2, <2>3, <2>4, <2>5, <2>6
  <1>5. CASE RestoreLogin \/ SendReady \/ RecvMessage
    BY <1>5, RestoreLoginClient, SendReadyClient, RecvMessageClient
  <1>6. CASE \/ ConnectionFails \/ PushChunk \/ NextMessage \/ Finish \/ FinishReturns
             \/ SetDone \/ CompareCount \/ JoinThreads \/ Writer \/ ClientStops
    BY <1>6, ClientThreads
  <1> QED  BY <1>1, <1>2, <1>3, <1>4, <1>5, <1>6 DEF Next, OptThread, Decoder, Retriever
-----------------------------------------------------------------------------
(* The initial states satisfy the invariant, *)
LEMMA InvStarts == Init => ServerInv /\ ClientInv
  <1> SUFFICES ASSUME Init PROVE ServerInv /\ ClientInv
    OBVIOUS
  <1>1. CacheInv
    BY CacheStart DEF Init
  <1>2. EmptyBuffer \in Buffer
    BY DEF EmptyBuffer, Buffer
  <1>3. recipe \in [totalChunkNum : Nat, entries : Seq(RecipeEntry)]
    BY RestoreAssumption DEF Init
  <1>4. Len(recipe.entries) \in Nat
    BY <1>3
  <1>5. ServerTypeOK
    <2>1. cursor \in 0 .. Len(recipe.entries)
      BY <1>4 DEF Init
    <2>2. containerArray \in [1 .. Capping -> Buffer]
      BY <1>2 DEF Init
    <2>3. DOMAIN tmpContainerMap = {}
      BY DEF Init
    <2>4. /\ idBuffer \in Seq(ContainerID) /\ batch \in Seq(RecipeEntry)
          /\ recipeBuffer \in Seq(BufferedEntry) /\ chunkBuffer \in Seq(Chunk)
      BY DEF Init
    <2>5. headRead \in BOOLEAN /\ end \in BOOLEAN /\ decoder = "ready" /\ k = 1 /\ tail \in BOOLEAN
      BY DEF Init
    <2> QED  BY <1>3, <2>1, <2>2, <2>3, <2>4, <2>5 DEF ServerTypeOK
  <1>6. Position /\ MapInv /\ ArrayInv
    BY DEF Init, Position, MapInv, ArrayInv
  <1>7. cursor = 0 /\ Len(batch) = 0 /\ Len(idBuffer) = 0 /\ Len(recipeBuffer) = 0
        /\ Len(chunkBuffer) = 0 /\ decoder = "ready"
    BY DEF Init
  <1>8. BatchInv
    BY <1>7 DEF BatchInv
  <1>9. Parsed = 0
    BY <1>7 DEF Parsed
  <1>10. GroupInv /\ ChunksBounded
    BY <1>7, <1>9, RestoreAssumption DEF GroupInv, ChunksBounded
  <1>11. IdsResolve
    BY <1>7 DEF IdsResolve
  <1>12. ClientTypeOK
    <2>1. toClient \in Seq(LoginResponse) /\ outputMQ \in Seq(Chunk) /\ output \in Seq(Chunk)
      BY DEF Init
    <2>2. recvChunkBuf \in Message
      BY DEF Init, NoMessage, Message
    <2> QED  BY <2>1, <2>2 DEF Init, ClientTypeOK
  <1>13. LoginInv /\ MessagesBounded
    <2>1. Len(toClient) = 0
      BY DEF Init
    <2> QED  BY <2>1 DEF Init, LoginInv, MessagesBounded
  <1> QED  BY <1>1, <1>5, <1>6, <1>8, <1>10, <1>11, <1>12, <1>13 DEF ServerInv, ClientInv

(* and every step keeps it. *)
LEMMA InvHolds == Spec => [](ServerInv /\ ClientInv)
  <1>1. ServerInv /\ ClientInv /\ [Next]_vars => (ServerInv /\ ClientInv)'
    BY ServerNext, ClientNext
  <1> QED  BY <1>1, InvStarts, PTL DEF Spec

(* The session keeps its types, whatever stops when. *)
THEOREM RestoreTypeCorrect == Spec => []TypeOK
  <1>1. ServerInv /\ ClientInv => TypeOK
    BY DEF ServerInv, ClientInv, CacheInv, TypeOK
  <1> QED  BY <1>1, InvHolds, PTL

(* The container cache never hands out the bytes of another container: for  *)
(* every sequence of hits, insertions and evictions that the recipes of a   *)
(* restore can cause, a cached name leads to a buffer of its own that begins *)
(* with that container, and list, map and pool agree (ReadCache and          *)
(* lru11::Cache).                                                           *)
THEOREM CacheCorrect == Spec => [](CacheSound /\ KeysMatch)
  <1>1. ServerInv => CacheSound /\ KeysMatch
    BY DEF ServerInv, CacheInv
  <1> QED  BY <1>1, InvHolds, PTL

(* Every buffered entry has the ID of its own container, and every chunk     *)
(* recovered is the one the recipe asks for, for every recipe and every      *)
(* batch, group and cache size (EcallRecvDecoder::ProcRecipeBatch and        *)
(* EnclaveRecvDecoder::GetReqContainers).                                   *)
THEOREM RecoveryCorrect == Spec => [](IdsResolve /\ RecoversRight)
  <1>1. ServerInv => IdsResolve
    BY DEF ServerInv
  <1>2. ServerInv => RecoversRight
    BY RecoverRight DEF RecoversRight
  <1> QED  BY <1>1, <1>2, InvHolds, PTL

(* The decoder thread leaves the recipe stream alone until ServerOptThread  *)
(* has read the head, although nothing but the client's login orders them.   *)
THEOREM HeadReadFirst == Spec => []HeadFirst
  <1>1. ClientInv => HeadFirst
    BY DEF ClientInv, LoginInv, HeadFirst
  <1> QED  BY <1>1, InvHolds, PTL

(* No group outgrows the container buffers and no message the client's       *)
(* receive buffer.                                                          *)
THEOREM BuffersSuffice == Spec => []BuffersBounded
  <1>1. ASSUME ServerInv, ClientInv PROVE BuffersBounded
    <2>1. Len(idBuffer) <= Capping /\ Len(chunkBuffer) < SendChunkBatchSize
      BY <1>1 DEF ServerInv, GroupInv, ChunksBounded
    <2>2. SendChunkBatchSize \in Nat
      BY RestoreAssumption
    <2>3. ASSUME NEW n \in DOMAIN toClient
          PROVE  Len(ChunksOf(toClient[n])) <= SendChunkBatchSize
      <3>1. CASE retriever = "login"
        <4>1. toClient[n] \in LoginResponse
          BY <1>1, <3>1, <2>3 DEF ClientInv, ClientTypeOK
        <4>2. "chunks" \notin DOMAIN toClient[n]
          BY <4>1 DEF LoginResponse
        <4>3. Len(ChunksOf(toClient[n])) = 0
          BY <4>2 DEF ChunksOf
        <4> QED  BY <2>2, <4>3
      <3>2. CASE retriever # "login"
        <4>1. toClient \in Seq(Message)
          BY <1>1, <3>2 DEF ClientInv, ClientTypeOK
        <4>2. n \in 1 .. Len(toClient) /\ toClient[n] \in Message
          BY <2>3, <4>1
        <4>3. ChunksOf(toClient[n]) = toClient[n].chunks
          BY <4>2 DEF ChunksOf, Message
        <4>4. Len(toClient[n].chunks) <= SendChunkBatchSize
          BY <1>1, <3>2, <4>2 DEF ClientInv, MessagesBounded
        <4> QED  BY <4>3, <4>4
      <3> QED  BY <3>1, <3>2
    <2> QED  BY <2>1, <2>3 DEF BuffersBounded
  <1> QED  BY <1>1, InvHolds, PTL
-----------------------------------------------------------------------------
(* A set of naturals that holds 0 and, with each n, n + 1 up to N, holds     *)
(* them all up to N.                                                        *)
LEMMA UpTo ==
    ASSUME NEW N \in Nat, NEW T, 0 \in T, \A n \in 0 .. N : n < N /\ n \in T => n + 1 \in T
    PROVE  \A n \in 0 .. N : n \in T
  <1> SUFFICES ASSUME \E n \in 0 .. N : n \notin T PROVE FALSE
    OBVIOUS
  <1> DEFINE F == {n \in 0 .. N : n \notin T}
             R == OpToRel(<, Nat)
  <1>1. F \in SUBSET Nat /\ F # {}
    OBVIOUS
  <1>2. IsWellFoundedOn(R, Nat)
    BY NatLessThanWellFounded
  <1>3. \A m, n \in Nat : m < n => <<m, n>> \in R
    BY DEF OpToRel
  <1>4. \A n \in 0 .. N : n \notin F => n \in T
    OBVIOUS
  <1>5. \A n \in F : n \in 0 .. N /\ n \notin T
    OBVIOUS
  <1> HIDE DEF R, F
  <1>6. PICK n \in F : \A m \in F : ~(<<m, n>> \in R)
    BY <1>1, <1>2, WFMin, Zenon
  <1>7. n \in 1 .. N /\ n \notin T
    BY <1>5
  <1>8. n - 1 \in 0 .. N /\ n - 1 < N /\ (n - 1) + 1 = n /\ n - 1 < n /\ n - 1 \in Nat
    BY <1>7
  <1>9. n - 1 \notin F
    <2>1. <<n - 1, n>> \in R
      BY <1>3, <1>7, <1>8
    <2> QED  BY <1>6, <2>1, Zenon
  <1> QED  BY <1>4, <1>7, <1>8, <1>9

(* s is the part of f behind the first i chunks, up to the first j. *)
Piece(s, f, i, j) ==
    /\ s \in Seq(Chunk)
    /\ i \in Nat /\ j \in Nat /\ i <= j /\ Len(s) = j - i
    /\ \A n \in 1 .. Len(s) : s[n] = f[i + n]

LEMMA PieceEmpty == ASSUME NEW f, NEW i \in Nat PROVE Piece(<<>>, f, i, i)
  BY DEF Piece

LEMMA PieceOfNone ==
    ASSUME NEW s, NEW f, NEW i, NEW j, Piece(s, f, i, j), s = <<>> PROVE i = j
  BY DEF Piece

LEMMA PieceAppend ==
    ASSUME NEW s, NEW f, NEW i, NEW j, Piece(s, f, i, j), NEW x \in Chunk, x = f[j + 1]
    PROVE  Piece(Append(s, x), f, i, j + 1)
  <1>1. s \in Seq(Chunk) /\ i \in Nat /\ j \in Nat /\ i <= j /\ Len(s) = j - i /\ Len(s) \in Nat
    BY DEF Piece
  <1>2. Append(s, x) \in Seq(Chunk) /\ Len(Append(s, x)) = Len(s) + 1 /\ j + 1 \in Nat /\ i <= j + 1
        /\ Len(s) + 1 = (j + 1) - i
    BY <1>1
  <1>3. ASSUME NEW n \in 1 .. Len(s) + 1 PROVE Append(s, x)[n] = f[i + n]
    <2>1. CASE n = Len(s) + 1
      <3>1. i + n = j + 1
        BY <1>1, <2>1
      <3>2. Append(s, x)[n] = x
        BY <1>1, <2>1
      <3> QED  BY <3>1, <3>2
    <2>2. CASE n # Len(s) + 1
      <3>1. n \in 1 .. Len(s) /\ Append(s, x)[n] = s[n]
        BY <1>1, <2>2
      <3> QED  BY <3>1 DEF Piece
    <2> QED  BY <2>1, <2>2
  <1> QED  BY <1>2, <1>3 DEF Piece

LEMMA PieceHeadTail ==
    ASSUME NEW s, NEW f, NEW i, NEW j, Piece(s, f, i, j), s # <<>>
    PROVE  /\ Head(s) \in Chunk /\ Head(s) = f[i + 1] /\ i + 1 <= j
           /\ Piece(Tail(s), f, i + 1, j)
  <1>1. s \in Seq(Chunk) /\ i \in Nat /\ j \in Nat /\ i <= j /\ Len(s) = j - i /\ Len(s) \in Nat
    BY DEF Piece
  <1>2. Len(s) > 0 /\ 1 \in 1 .. Len(s) /\ Head(s) = s[1] /\ Head(s) \in Chunk
    BY <1>1
  <1>3. Head(s) = f[i + 1]
    BY <1>2 DEF Piece
  <1>4. /\ Tail(s) \in Seq(Chunk) /\ Len(Tail(s)) = Len(s) - 1
        /\ \A n \in 1 .. Len(s) - 1 : Tail(s)[n] = s[n + 1]
    BY <1>1, <1>2, TailFacts
  <1>5. i + 1 <= j /\ i + 1 \in Nat /\ Len(Tail(s)) = j - (i + 1)
    BY <1>1, <1>2, <1>4
  <1>6. ASSUME NEW n \in 1 .. Len(Tail(s)) PROVE Tail(s)[n] = f[(i + 1) + n]
    <2>1. n \in 1 .. Len(s) - 1 /\ n + 1 \in 1 .. Len(s) /\ i + (n + 1) = (i + 1) + n
      BY <1>1, <1>4
    <2>2. Tail(s)[n] = s[n + 1]
      BY <1>4, <2>1
    <2>3. s[n + 1] = f[i + (n + 1)]
      BY <2>1 DEF Piece
    <2> QED  BY <2>1, <2>2, <2>3
  <1> QED  BY <1>1, <1>2, <1>3, <1>4, <1>5, <1>6 DEF Piece

LEMMA PieceConcat ==
    ASSUME NEW s, NEW u, NEW f, NEW i, NEW j, NEW m, Piece(s, f, i, j), Piece(u, f, j, m)
    PROVE  Piece(s \o u, f, i, m)
  <1>1. s \in Seq(Chunk) /\ i \in Nat /\ j \in Nat /\ i <= j /\ Len(s) = j - i /\ Len(s) \in Nat
    BY DEF Piece
  <1>2. u \in Seq(Chunk) /\ m \in Nat /\ j <= m /\ Len(u) = m - j /\ Len(u) \in Nat
    BY DEF Piece
  <1>3. s \o u \in Seq(Chunk) /\ Len(s \o u) = Len(s) + Len(u)
    BY <1>1, <1>2
  <1>4. i <= m /\ Len(s \o u) = m - i
    BY <1>1, <1>2, <1>3
  <1>5. ASSUME NEW n \in 1 .. Len(s \o u) PROVE (s \o u)[n] = f[i + n]
    <2>1. CASE n <= Len(s)
      <3>1. n \in 1 .. Len(s) /\ (s \o u)[n] = s[n]
        BY <1>1, <1>2, <1>3, <2>1
      <3> QED  BY <3>1 DEF Piece
    <2>2. CASE ~(n <= Len(s))
      <3>1. n - Len(s) \in 1 .. Len(u) /\ j + (n - Len(s)) = i + n
        BY <1>1, <1>2, <1>3, <2>2
      <3>2. (s \o u)[n] = u[n - Len(s)]
        BY <1>1, <1>2, <1>3, <2>2
      <3>3. u[n - Len(s)] = f[j + (n - Len(s))]
        BY <3>1 DEF Piece
      <3> QED  BY <3>1, <3>2, <3>3
    <2> QED  BY <1>1, <2>1, <2>2
  <1> QED  BY <1>1, <1>2, <1>3, <1>4, <1>5 DEF Piece

(* A piece from the beginning is what SubSeq cuts. *)
LEMMA PieceIsSubSeq ==
    ASSUME NEW s, NEW f \in Seq(Chunk), NEW j, Piece(s, f, 0, j), j <= Len(f)
    PROVE  s = SubSeq(f, 1, j)
  <1>1. s \in Seq(Chunk) /\ j \in Nat /\ Len(s) = j /\ DOMAIN s = 1 .. j
    BY DEF Piece
  <1>2. \A n \in 1 .. j : s[n] = f[n]
    <2> TAKE n \in 1 .. j
    <2>1. s[n] = f[0 + n] /\ 0 + n = n
      BY <1>1 DEF Piece
    <2> QED  BY <2>1
  <1>3. SubSeq(f, 1, j) = [n \in 1 .. j |-> f[n]]
    BY <1>1
  <1>4. s = [n \in 1 .. j |-> s[n]]
    BY <1>1
  <1> QED  BY <1>2, <1>3, <1>4

(* Messages laid end to end: message n has the chunks from at[n - 1] to at[n]. *)
Laid(at, msgs, i, f, j) ==
    /\ j \in Nat /\ at \in [0 .. Len(msgs) -> 0 .. j] /\ at[0] = i /\ at[Len(msgs)] = j
    /\ \A n \in 1 .. Len(msgs) : Piece(ChunksOf(msgs[n]), f, at[n - 1], at[n])

LEMMA LaidNone == ASSUME NEW f, NEW i \in Nat PROVE \E at : Laid(at, <<>>, i, f, i)
  <1> DEFINE at == [n \in 0 .. 0 |-> i]
  <1>1. Len(<<>>) = 0 /\ at \in [0 .. 0 -> 0 .. i] /\ at[0] = i
    OBVIOUS
  <1>2. 1 .. 0 = {}
    OBVIOUS
  <1> HIDE DEF at
  <1>3. Laid(at, <<>>, i, f, i)
    BY <1>1, <1>2 DEF Laid
  <1> QED  BY <1>3

LEMMA LaidOfNone ==
    ASSUME NEW at, NEW f, NEW i, NEW j, Laid(at, <<>>, i, f, j) PROVE i = j
  BY DEF Laid

LEMMA LaidAppend ==
    ASSUME NEW S, NEW at, NEW msgs \in Seq(S), NEW i, NEW f, NEW j, Laid(at, msgs, i, f, j),
           NEW msg \in S, NEW m, Piece(ChunksOf(msg), f, j, m)
    PROVE  \E a : Laid(a, Append(msgs, msg), i, f, m)
  <1> DEFINE N == Len(msgs)
             new == Append(msgs, msg)
             a == [n \in 0 .. N + 1 |-> IF n = N + 1 THEN m ELSE at[n]]
  <1>1. N \in Nat /\ Len(new) = N + 1 /\ m \in Nat /\ j \in Nat /\ j <= m
        /\ at \in [0 .. N -> 0 .. j] /\ at[0] = i /\ at[N] = j
    BY DEF Laid, Piece
  <1>2. new[N + 1] = msg /\ \A n \in 1 .. N : new[n] = msgs[n]
    OBVIOUS
  <1>3. /\ a \in [0 .. N + 1 -> 0 .. m] /\ a[N + 1] = m
        /\ \A n \in 0 .. N : a[n] = at[n]
    BY <1>1
  <1>4. a[0] = i /\ a[N] = j
    BY <1>1, <1>3
  <1> HIDE DEF a, new
  <1>5. ASSUME NEW n \in 1 .. N + 1 PROVE Piece(ChunksOf(new[n]), f, a[n - 1], a[n])
    <2>1. CASE n = N + 1
      <3>1. n - 1 = N
        BY <1>1, <2>1
      <3> QED  BY <1>2, <1>3, <1>4, <2>1, <3>1
    <2>2. CASE n # N + 1
      <3>1. n \in 1 .. N /\ n \in 0 .. N /\ n - 1 \in 0 .. N
        BY <1>1, <2>2
      <3>2. new[n] = msgs[n] /\ a[n] = at[n] /\ a[n - 1] = at[n - 1]
        BY <1>2, <1>3, <3>1
      <3>3. Piece(ChunksOf(msgs[n]), f, at[n - 1], at[n])
        BY <3>1 DEF Laid
      <3> QED  BY <3>2, <3>3
    <2> QED  BY <2>1, <2>2
  <1>6. Laid(a, new, i, f, m)
    BY <1>1, <1>3, <1>4, <1>5 DEF Laid
  <1> QED  BY <1>6 DEF new

LEMMA LaidHeadTail ==
    ASSUME NEW S, NEW at, NEW msgs \in Seq(S), msgs # <<>>, NEW i, NEW f, NEW j, Laid(at, msgs, i, f, j)
    PROVE  \E a, m : Piece(ChunksOf(Head(msgs)), f, i, m) /\ Laid(a, Tail(msgs), m, f, j)
  <1> DEFINE N == Len(msgs)
             a == [n \in 0 .. N - 1 |-> at[n + 1]]
             m == at[1]
  <1>1. N \in Nat /\ N > 0 /\ Head(msgs) = msgs[1] /\ 1 \in 1 .. N
        /\ j \in Nat /\ at \in [0 .. N -> 0 .. j] /\ at[0] = i /\ at[N] = j
    BY DEF Laid
  <1>2. Len(Tail(msgs)) = N - 1 /\ \A n \in 1 .. N - 1 : Tail(msgs)[n] = msgs[n + 1]
    BY TailFacts
  <1>3. /\ a \in [0 .. N - 1 -> 0 .. j] /\ a[0] = m /\ a[N - 1] = j
        /\ \A n \in 0 .. N - 1 : a[n] = at[n + 1]
    BY <1>1
  <1>4. Piece(ChunksOf(Head(msgs)), f, i, m)
    <2>1. Piece(ChunksOf(msgs[1]), f, at[1 - 1], at[1]) /\ 1 - 1 = 0
      BY <1>1 DEF Laid
    <2> QED  BY <1>1, <2>1
  <1> HIDE DEF a
  <1>5. ASSUME NEW n \in 1 .. N - 1 PROVE Piece(ChunksOf(Tail(msgs)[n]), f, a[n - 1], a[n])
    <2>1. n + 1 \in 1 .. N /\ n - 1 \in 0 .. N - 1 /\ n \in 0 .. N - 1
          /\ (n - 1) + 1 = n /\ (n + 1) - 1 = n
      BY <1>1
    <2>2. Piece(ChunksOf(msgs[n + 1]), f, at[(n + 1) - 1], at[n + 1])
      BY <2>1 DEF Laid
    <2>3. a[n - 1] = at[n] /\ a[n] = at[n + 1] /\ Tail(msgs)[n] = msgs[n + 1]
      BY <1>2, <1>3, <2>1
    <2> QED  BY <2>1, <2>2, <2>3
  <1>6. Laid(a, Tail(msgs), m, f, j)
    BY <1>1, <1>2, <1>3, <1>5 DEF Laid
  <1> QED  BY <1>4, <1>6

(* FlattenSeq puts the messages together. *)
LEMMA LaidFlat ==
    ASSUME NEW S, NEW at, NEW msgs \in Seq(S), NEW i, NEW f, NEW j, Laid(at, msgs, i, f, j)
    PROVE  Piece(Flatten(msgs), f, i, j)
  <1> DEFINE N == Len(msgs)
             q == [n \in DOMAIN msgs |-> ChunksOf(msgs[n])]
             Rec(g, m) == g = [n \in 1 .. m |-> IF n = 1 THEN q[n] ELSE g[n - 1] \o q[n]]
             flat == CHOOSE g : Rec(g, N)
  <1>1. N \in Nat /\ DOMAIN msgs = 1 .. N /\ at[0] = i /\ at[N] = j /\ at[0] \in Nat
    BY DEF Laid
  <1>2. ASSUME NEW n \in 1 .. N PROVE Piece(q[n], f, at[n - 1], at[n])
    BY <1>1 DEF Laid
  <1>3. Len(q) = N
    <2>1. \A n \in 1 .. N : q[n] \in Seq(Chunk)
      BY <1>2 DEF Piece
    <2>2. q \in Seq(Seq(Chunk))
      BY <1>1, <2>1
    <2> QED  BY <1>1, <2>2
  <1>4. Flatten(msgs) = SeqsExt!FlattenSeq(q)
    BY DEF Flatten
  <1> HIDE DEF q
  <1>5. CASE N = 0
    <2>1. q = <<>>
      BY <1>1, <1>5 DEF q
    <2>2. SeqsExt!FlattenSeq(q) = q
      BY <1>3, <1>5 DEF SeqsExt!FlattenSeq
    <2> QED  BY <1>1, <1>4, <1>5, <2>1, <2>2, PieceEmpty
  <1>6. CASE N # 0
    <2>0. SeqsExt!FlattenSeq(q) = flat[N]
      BY <1>3, <1>6 DEF SeqsExt!FlattenSeq
    <2>1. \E g : Rec(g, N)
      <3> DEFINE T == {m \in 0 .. N : \E g : Rec(g, m)}
      <3>1. 0 \in T
        <4> DEFINE g == [n \in 1 .. 0 |-> 0]
        <4>1. Rec(g, 0)
          OBVIOUS
        <4> HIDE DEF g, Rec
        <4> QED  BY <1>1, <4>1
      <3>2. ASSUME NEW m \in 0 .. N, m < N, m \in T PROVE m + 1 \in T
        <4>1. PICK g : Rec(g, m)
          BY <3>2
        <4> DEFINE h == [n \in 1 .. m + 1 |->
                           IF n = m + 1 THEN (IF n = 1 THEN q[n] ELSE g[m] \o q[n]) ELSE g[n]]
        <4>2. \A n \in 1 .. m : g[n] = IF n = 1 THEN q[n] ELSE g[n - 1] \o q[n]
          BY <4>1
        <4>3. ASSUME NEW n \in 1 .. m + 1 PROVE h[n] = IF n = 1 THEN q[n] ELSE h[n - 1] \o q[n]
          <5>1. CASE n = m + 1
            <6>1. n # 1 => n - 1 \in 1 .. m + 1 /\ n - 1 # m + 1 /\ n - 1 = m
              BY <5>1
            <6>2. n # 1 => h[n - 1] = g[m]
              BY <6>1
            <6> QED  BY <5>1, <6>2
          <5>2. CASE n # m + 1
            <6>1. n \in 1 .. m /\ h[n] = g[n]
              BY <5>2
            <6>2. n # 1 => n - 1 \in 1 .. m + 1 /\ n - 1 # m + 1
              BY <6>1
            <6>3. n # 1 => h[n - 1] = g[n - 1]
              BY <6>2
            <6> QED  BY <4>2, <6>1, <6>3
          <5> QED  BY <5>1, <5>2
        <4>4. Rec(h, m + 1)
          <5>1. h = [n \in 1 .. m + 1 |-> h[n]]
            OBVIOUS
          <5> HIDE DEF h
          <5> QED  BY <4>3, <5>1
        <4> HIDE DEF h
        <4>5. m + 1 \in 0 .. N
          BY <1>1, <3>2
        <4> QED  BY <4>4, <4>5
      <3> HIDE DEF T
      <3>3. \A m \in 0 .. N : m < N /\ m \in T => m + 1 \in T
        BY <3>2
      <3>4. \A m \in 0 .. N : m \in T
        BY <1>1, <3>1, <3>3, UpTo
      <3>5. N \in T
        BY <1>1, <3>4
      <3> QED  BY <3>5 DEF T
    <2>2. Rec(flat, N)
      BY <2>1
    <2> HIDE DEF flat
    <2>3. \A n \in 1 .. N : flat[n] = IF n = 1 THEN q[n] ELSE flat[n - 1] \o q[n]
      BY <2>2
    <2> DEFINE U == {m \in 0 .. N : m = 0 \/ Piece(flat[m], f, i, at[m])}
    <2>4. 0 \in U
      BY <1>1
    <2>5. ASSUME NEW m \in 0 .. N, m < N, m \in U PROVE m + 1 \in U
      <3>1. m \in Nat /\ m + 1 \in 1 .. N /\ m + 1 \in 0 .. N /\ (m + 1) - 1 = m
        BY <1>1, <2>5
      <3>2. Piece(q[m + 1], f, at[m], at[m + 1])
        BY <1>2, <3>1
      <3>3. CASE m = 0
        <4>1. flat[m + 1] = q[m + 1] /\ at[m] = i
          BY <1>1, <2>3, <3>1, <3>3
        <4> QED  BY <3>1, <3>2, <4>1
      <3>4. CASE m # 0
        <4>0. m + 1 # 1
          BY <3>1, <3>4
        <4>1. flat[m + 1] = flat[m] \o q[m + 1]
          BY <2>3, <3>1, <4>0
        <4>2. Piece(flat[m], f, i, at[m])
          BY <2>5, <3>4
        <4>3. Piece(flat[m] \o q[m + 1], f, i, at[m + 1])
          BY <3>2, <4>2, PieceConcat
        <4> QED  BY <3>1, <4>1, <4>3
      <3> QED  BY <3>3, <3>4
    <2> HIDE DEF U
    <2>6. \A m \in 0 .. N : m < N /\ m \in U => m + 1 \in U
      BY <2>5
    <2>7. \A m \in 0 .. N : m \in U
      BY <1>1, <2>4, <2>6, UpTo
    <2>8. N \in U
      BY <1>1, <2>7
    <2> QED  BY <1>1, <1>4, <1>6, <2>0, <2>8 DEF U
  <1> QED  BY <1>5, <1>6
-----------------------------------------------------------------------------
(* eof is seen at the end of the entries only, and the tail comes behind it. *)
EndInv ==
    /\ end => cursor = Len(recipe.entries)
    /\ tail \/ decoder = "tail" => cursor = Len(recipe.entries)

LEMMA EndNext ==
    ASSUME ServerInv, EndInv, [Next]_vars
    PROVE  EndInv'
  <1>1. CASE ReadRecipe
    <2> DEFINE left == Len(recipe.entries) - cursor
               n    == IF left < SendRecipeBatchSize THEN left ELSE SendRecipeBatchSize
    <2>1. /\ cursor' = cursor + n /\ end' = (n < SendRecipeBatchSize) /\ recipe' = recipe
          /\ (n = 0 /\ decoder' = "tail") \/ (n # 0 /\ decoder' = "parse")
          /\ tail' = tail /\ decoder = "read"
      BY <1>1 DEF ReadRecipe, ReadSome
    <2>2. ~tail
      BY <2>1 DEF ServerInv, Position
    <2>3. left \in Nat /\ SendRecipeBatchSize \in Nat /\ SendRecipeBatchSize # 0
          /\ cursor + left = Len(recipe.entries)
      <3>1. /\ Len(recipe.entries) \in Nat /\ cursor \in Nat /\ cursor <= Len(recipe.entries)
            /\ SendRecipeBatchSize \in Nat \ {0}
        BY ServerFacts
      <3> QED  BY <3>1
    <2>4. n < SendRecipeBatchSize \/ n = 0 => n = left
      BY <2>3
    <2> HIDE DEF n, left
    <2> QED  BY <2>1, <2>2, <2>3, <2>4 DEF EndInv
  <1>2. CASE ParseEntry
    BY <1>2 DEF EndInv, ParseEntry, AfterEntry
  <1>3. CASE RecoverKeep \/ RecoverSend
    BY <1>3 DEF EndInv, RecoverKeep, RecoverSend, NextRecovered, AfterEntry
  <1>4. CASE FetchFromCache \/ FetchFromFile
    BY <1>4 DEF EndInv, FetchFromCache, FetchFromFile, NextContainer
  <1>5. CASE TailFetch \/ TailSend \/ RecvReady \/ WaitClose
    BY <1>5 DEF EndInv, TailFetch, TailSend, RecvReady, WaitClose, enclave
  <1>6. CASE \/ SendLoginResponse \/ SendLoginResponseFails \/ RecvReadyFails \/ FetchFails
             \/ SendFails \/ ServerStops
    BY <1>6 DEF EndInv, SendLoginResponse, SendLoginResponseFails, RecvReadyFails, FetchFails,
       SendFails, ServerStops, Exit, enclave
  <1>7. CASE Retriever
    <2>1. UNCHANGED <<server, enclave>>
      BY <1>7 DEF Retriever, RestoreLogin, SendReady, RecvMessage, ConnectionFails, PushChunk,
         NextMessage, Finish, FinishReturns, SetDone, CompareCount, JoinThreads
    <2> QED  BY <2>1 DEF EndInv, server, enclave
  <1>8. CASE Writer \/ ClientStops \/ Ended \/ UNCHANGED vars
    <2>1. UNCHANGED <<server, enclave>>
      BY <1>8 DEF Writer, WriterCheck, WriterPop, ClientStops, Ended, vars
    <2> QED  BY <2>1 DEF EndInv, server, enclave
  <1> QED  BY <1>1, <1>2, <1>3, <1>4, <1>5, <1>6, <1>7, <1>8 DEF Next, OptThread, Decoder

(* The file that the recipe describes. *)
LEMMA FileFacts ==
    ASSUME ServerInv
    PROVE  File \in Seq(Chunk) /\ Len(File) = Len(recipe.entries)
           /\ DOMAIN File = 1 .. Len(recipe.entries)
  <1>1. recipe.entries \in Seq(RecipeEntry) /\ Len(recipe.entries) \in Nat
    BY ServerFacts
  <1>2. ASSUME NEW n \in 1 .. Len(recipe.entries)
        PROVE  Content(recipe.entries[n]) \in Chunk
    <2>1. recipe.entries[n] \in RecipeEntry
      BY <1>1
    <2> DEFINE e == recipe.entries[n]
    <2>2. e.offset \in 1 .. Len(Body[e.containerName]) /\ Body[e.containerName] \in Seq(Chunk)
      BY <2>1, EntryFacts
    <2> QED  BY <2>2 DEF Content
  <1> QED  BY <1>1, <1>2 DEF File

(* Only the recover loops change how many chunks have been recovered, *)
LEMMA RecoveredSame ==
    ASSUME ServerInv,
           \/ RecvReady \/ ReadRecipe \/ ParseEntry \/ FetchFromCache \/ FetchFromFile
           \/ TailFetch \/ TailSend \/ WaitClose
    PROVE  Recovered' = Recovered
  <1>0. /\ cursor \in Nat /\ Len(batch) \in Nat /\ Len(recipeBuffer) \in Nat
        /\ recipeBuffer \in Seq(BufferedEntry) /\ batch \in Seq(RecipeEntry)
        /\ Len(recipe.entries) \in Nat /\ SendRecipeBatchSize \in Nat /\ tail \in BOOLEAN
    BY ServerFacts
  <1>1. CASE RecvReady
    BY <1>1 DEF RecvReady, Recovered, Parsed, enclave
  <1>2. CASE ReadRecipe
    <2> DEFINE left == Len(recipe.entries) - cursor
               n    == IF left < SendRecipeBatchSize THEN left ELSE SendRecipeBatchSize
    <2>1. /\ cursor' = cursor + n /\ decoder = "read" /\ recipeBuffer' = recipeBuffer
          /\ \/ n = 0 /\ decoder' = "tail" /\ batch' = batch
             \/ n # 0 /\ decoder' = "parse" /\ batch' = SubSeq(recipe.entries, cursor + 1, cursor + n)
      BY <1>2 DEF ReadRecipe, ReadSome
    <2>2. n \in Nat /\ cursor + n <= Len(recipe.entries)
      <3>1. left \in Nat /\ cursor + left = Len(recipe.entries)
        BY <1>0, ServerFacts
      <3>2. n \in Nat /\ n <= left
        BY <1>0, <3>1
      <3> HIDE DEF n, left
      <3> QED  BY <1>0, <3>1, <3>2
    <2> HIDE DEF n
    <2>3. batch = <<>>
      BY <2>1 DEF ServerInv, Position
    <2>4. Len(batch') = n
      <3>0. recipe.entries \in Seq(RecipeEntry) /\ cursor \in Nat
        BY ServerFacts
      <3>1. Len(SubSeq(recipe.entries, cursor + 1, cursor + n)) = n
        BY <2>2, <3>0, SubSeqFacts
      <3> QED  BY <2>1, <2>3, <3>1
    <2>5. Parsed' = cursor' - Len(batch') /\ Parsed = cursor - 0
      BY <2>1, <2>3 DEF Parsed
    <2>6. Parsed' = Parsed
      BY <1>0, <2>1, <2>2, <2>4, <2>5
    <2>7. Recovered' = Parsed' - Len(recipeBuffer') /\ Recovered = Parsed - Len(recipeBuffer)
      BY <2>1 DEF Recovered
    <2> QED  BY <2>1, <2>6, <2>7
  <1>3. CASE ParseEntry
    <2>1. /\ decoder = "parse" /\ cursor' = cursor /\ tail' = tail
          /\ Len(recipeBuffer') = Len(recipeBuffer) + 1
          /\ \/ decoder' = "fetch" /\ batch' = batch
             \/ decoder' \in {"parse", "read", "tail"} /\ batch' = Tail(batch)
      <3>1. recipeBuffer' \in Seq(BufferedEntry)
        BY <1>3, ParseEntryServer DEF ServerInv, ServerTypeOK
      <3>2. PICK x : recipeBuffer' = Append(recipeBuffer, x)
        BY <1>3 DEF ParseEntry
      <3>3. Len(Append(recipeBuffer, x)) = Len(recipeBuffer) + 1
        BY <1>0
      <3> QED  BY <1>3, <3>2, <3>3 DEF ParseEntry, AfterEntry
    <2>2. batch # <<>> /\ ~tail
      BY <2>1 DEF ServerInv, Position
    <2>3. Len(Tail(batch)) = Len(batch) - 1 /\ Len(batch) > 0
      BY <1>0, <2>2, TailFacts
    <2>4. Parsed' = Parsed + 1
      <3>1. Parsed = cursor - Len(batch)
        BY <2>1 DEF Parsed
      <3>2. CASE decoder' = "fetch" /\ batch' = batch
        <4>1. Parsed' = cursor - Len(batch) + 1
          BY <2>1, <2>2, <3>2 DEF Parsed
        <4> QED  BY <1>0, <3>1, <4>1
      <3>3. CASE decoder' \in {"parse", "read", "tail"} /\ batch' = Tail(batch)
        <4>1. Parsed' = cursor - Len(Tail(batch))
          BY <2>1, <3>3 DEF Parsed
        <4>2. \A i, j \in Nat : i - (j - 1) = (i - j) + 1
          OBVIOUS
        <4>3. cursor - (Len(batch) - 1) = (cursor - Len(batch)) + 1
          BY <1>0, <4>2
        <4> QED  BY <2>3, <3>1, <4>1, <4>3
      <3> QED  BY <2>1, <3>2, <3>3
    <2>5. Recovered' = Parsed' - Len(recipeBuffer') /\ Recovered = Parsed - Len(recipeBuffer)
      BY <2>1 DEF Recovered
    <2>6. Parsed \in Int
      BY <1>0, <2>1 DEF Parsed
    <2> QED  BY <1>0, <2>1, <2>4, <2>5, <2>6
  <1>4. CASE FetchFromCache \/ FetchFromFile
    <2>1. /\ decoder = "fetch" /\ UNCHANGED <<cursor, batch, recipeBuffer, tail>>
          /\ decoder' = "fetch" \/ (decoder' = "recover" /\ k' = 1)
      BY <1>4 DEF FetchFromCache, FetchFromFile, NextContainer
    <2>2. Parsed' = Parsed /\ Parsed \in Int
      BY <1>0, <2>1 DEF Parsed
    <2>3. Recovered = Parsed - Len(recipeBuffer)
      BY <2>1 DEF Recovered
    <2>4. decoder' = "fetch" => Recovered' = Parsed' - Len(recipeBuffer')
      BY DEF Recovered
    <2>5. decoder' = "recover" => Recovered' = Parsed' - Len(recipeBuffer') + k' - 1
      BY DEF Recovered
    <2> QED  BY <1>0, <2>1, <2>2, <2>3, <2>4, <2>5
  <1>5. CASE TailFetch
    <2>1. batch = <<>> /\ ~tail
      BY <1>5 DEF TailFetch, ServerInv, Position
    <2> QED  BY <1>5, <2>1 DEF TailFetch, Recovered, Parsed
  <1>6. CASE TailSend
    <2>1. decoder = "tail" /\ decoder' = "close" /\ UNCHANGED <<cursor, batch, tail>> /\ Len(recipeBuffer) = 0
      BY <1>6 DEF TailSend
    <2>2. Parsed' = Parsed /\ Parsed \in Int
      BY <1>0, <2>1 DEF Parsed
    <2>3. Recovered' = Parsed' /\ Recovered = Parsed - Len(recipeBuffer)
      BY <2>1 DEF Recovered
    <2> QED  BY <2>1, <2>2, <2>3
  <1>7. CASE WaitClose
    BY <1>7 DEF WaitClose, Recovered, Parsed, enclave
  <1> QED  BY <1>1, <1>2, <1>3, <1>4, <1>5, <1>6, <1>7

(* which recover the next chunk of the file. *)
LEMMA RecoveredNext ==
    ASSUME ServerInv, decoder = "recover", NextRecovered, UNCHANGED <<cursor, tail>>
    PROVE  /\ Recovered \in Nat /\ Recovered' = Recovered + 1 /\ Recovered + 1 <= Len(File)
           /\ Recovered + 1 \in 1 .. Len(File)
           /\ containerArray[recipeBuffer[k].containerID][recipeBuffer[k].offset] = File[Recovered + 1]
           /\ File[Recovered + 1] \in Chunk
           /\ EndFlag => Recovered + 1 = cursor
  <1>0. /\ cursor \in Nat /\ Len(batch) \in Nat /\ Len(recipeBuffer) \in Nat
        /\ recipeBuffer \in Seq(BufferedEntry) /\ batch \in Seq(RecipeEntry)
        /\ Len(recipe.entries) \in Nat /\ cursor <= Len(recipe.entries) /\ tail \in BOOLEAN
    BY ServerFacts
  <1>1. k \in 1 .. Len(recipeBuffer) /\ (~tail => batch # <<>>) /\ (tail => batch = <<>>)
        /\ Len(recipeBuffer) <= Parsed
    BY DEF ServerInv, Position, GroupInv, Active
  <1>2. ~tail => Len(batch) > 0
    BY <1>0, <1>1
  <1>3. /\ Parsed = IF tail THEN cursor ELSE cursor - Len(batch) + 1
        /\ Parsed \in Int /\ Parsed <= Len(recipe.entries)
    <2>1. CASE tail
      BY <1>0, <1>1, <2>1 DEF Parsed
    <2>2. CASE ~tail
      BY <1>0, <1>2, <2>2 DEF Parsed
    <2> QED  BY <2>1, <2>2
  <1>4. Recovered = Parsed - Len(recipeBuffer) + k - 1
    BY DEF Recovered
  <1>5. /\ Recovered \in Nat /\ Recovered + 1 = Parsed - Len(recipeBuffer) + k
        /\ Recovered + 1 \in 1 .. Len(recipe.entries)
    BY <1>0, <1>1, <1>3, <1>4
  <1>6. containerArray[recipeBuffer[k].containerID][recipeBuffer[k].offset] = File[Recovered + 1]
    BY <1>5, RecoverRight DEF RecoversRight
  <1>7. File[Recovered + 1] \in Chunk
    BY <1>6, RecoverRight
  <1>8. EndFlag => Recovered + 1 = cursor
    BY <1>0, <1>3, <1>5 DEF EndFlag
  <1>9. Recovered' = Recovered + 1
    <2>1. CASE k < Len(recipeBuffer)
      <3>1. k' = k + 1 /\ UNCHANGED <<decoder, batch, recipeBuffer>>
        BY <2>1 DEF NextRecovered
      <3>2. Parsed' = Parsed
        BY <3>1 DEF Parsed
      <3>3. Recovered' = Parsed' - Len(recipeBuffer') + k' - 1
        BY <3>1 DEF Recovered
      <3> QED  BY <1>0, <1>1, <1>3, <1>4, <3>1, <3>2, <3>3
    <2>2. CASE ~(k < Len(recipeBuffer)) /\ tail
      <3>1. decoder' = "close" /\ batch' = batch
        BY <2>2 DEF NextRecovered
      <3>2. Recovered' = cursor - Len(batch) /\ Len(batch) = 0
        BY <1>1, <2>2, <3>1 DEF Recovered, Parsed
      <3> QED  BY <1>0, <1>1, <1>3, <1>4, <2>2, <3>2
    <2>3. CASE ~(k < Len(recipeBuffer)) /\ ~tail
      <3>1. decoder' \in {"parse", "read", "tail"} /\ batch' = Tail(batch) /\ recipeBuffer' = <<>>
        BY <2>3 DEF NextRecovered, AfterEntry, Reset
      <3>2. Len(Tail(batch)) = Len(batch) - 1
        BY <1>0, <1>1, <2>3, TailFacts
      <3>3. Recovered' = cursor - Len(Tail(batch)) - 0
        BY <3>1 DEF Recovered, Parsed
      <3> QED  BY <1>0, <1>1, <1>3, <1>4, <2>3, <3>2, <3>3
    <2> QED  BY <2>1, <2>2, <2>3
  <1> QED  BY <1>5, <1>6, <1>7, <1>8, <1>9, FileFacts
-----------------------------------------------------------------------------
IsFinal(msg) == msg.messageType = "SERVER_RESTORE_FINAL"
Over == {"close", "done", "exit"}
Received == recvNum + Len(recvChunkBuf.chunks)

(* The messages under way end at place to of the file, where the server's    *)
(* buffer begins; the final one is the last and ends with the file.          *)
Sent(at, to) ==
    /\ Laid(at, toClient, Received, File, to)
    /\ to <= Len(recipe.entries)
    /\ decoder # "exit" /\ status # "failed" => Piece(chunkBuffer, File, to, Recovered)
    /\ \A n \in 1 .. Len(toClient) : IsFinal(toClient[n]) =>
          n = Len(toClient) /\ to = Len(recipe.entries) /\ decoder \in Over
    /\ IsFinal(recvChunkBuf) => toClient = <<>> /\ to = Len(recipe.entries) /\ decoder \in Over

(* Output, queue, message buffer, network and server buffer are consecutive  *)
(* pieces of the file.                                                       *)
Pipeline ==
    /\ Piece(output, File, 0, Len(output))
    /\ Piece(outputMQ, File, Len(output), recvNum)
    /\ Piece(recvChunkBuf.chunks, File, recvNum, Received)
    /\ \E at, to : Sent(at, to)

(* The end of a restore, step by step. *)
FinishInv ==
    /\ closed \/ retriever \in {"finish", "setDone", "compare", "done"} =>
          IsFinal(recvChunkBuf) /\ recvChunkBuf.chunks = <<>>
    /\ retriever \in {"login", "start", "recv"} =>
          ~IsFinal(recvChunkBuf) /\ recvChunkBuf.chunks = <<>>
    /\ done => retriever \in {"compare", "done"}
    /\ jobDone => done /\ outputMQ = <<>>
    /\ writer = "done" => jobDone
    /\ retriever = "done" => recvNum = expectedNum
    /\ retriever # "login" => expectedNum = recipe.totalChunkNum
    /\ retriever = "login" =>
          \A n \in 1 .. Len(toClient) : toClient[n].totalChunkNum = recipe.totalChunkNum

LEMMA FileSame == ASSUME UNCHANGED recipe PROVE File' = File
  BY DEF File, Content

(* Steps that move no chunk between two places; a chunk may join the server's *)
(* buffer.                                                                   *)
LEMMA PipelineKept ==
    ASSUME Pipeline, UNCHANGED <<recipe, toClient, recvChunkBuf, recvNum, outputMQ, output>>,
           decoder \in Over => decoder' \in Over,
           decoder' # "exit" /\ status' # "failed" =>
               /\ decoder # "exit" /\ status # "failed"
               /\ \A to : Piece(chunkBuffer, File, to, Recovered) => Piece(chunkBuffer', File, to, Recovered')
    PROVE  Pipeline'
  <1>1. File' = File
    BY FileSame
  <1>2. Received' = Received
    BY DEF Received
  <1>3. PICK at, to : Sent(at, to)
    BY DEF Pipeline
  <1>4. Laid(at, toClient, Received, File, to)'
    <2>1. Laid(at, toClient, Received, File, to)
      BY <1>3 DEF Sent
    <2>2. toClient' = toClient
      OBVIOUS
    <2> QED  BY <1>1, <1>2, <2>1, <2>2 DEF Laid, Piece, ChunksOf
  <1>5. Sent(at, to)'
    <2>1. (decoder # "exit" /\ status # "failed" => Piece(chunkBuffer, File, to, Recovered))'
      <3> SUFFICES ASSUME decoder' # "exit" /\ status' # "failed"
                   PROVE  Piece(chunkBuffer', File', to, Recovered')
        BY DEF Piece
      <3>1. Piece(chunkBuffer, File, to, Recovered)
        BY <1>3 DEF Sent
      <3> QED  BY <1>1, <3>1
    <2> QED  BY <1>3, <1>4, <2>1 DEF Sent, IsFinal
  <1>6. /\ Piece(output, File, 0, Len(output))' /\ Piece(outputMQ, File, Len(output), recvNum)'
        /\ Piece(recvChunkBuf.chunks, File, recvNum, Received)'
    BY <1>1, <1>2 DEF Pipeline, Piece
  <1> QED  BY <1>5, <1>6 DEF Pipeline

(* A message is sent, or lost with a client that is gone. *)
LEMMA PipelineSent ==
    ASSUME Pipeline, FinishInv, UNCHANGED <<recipe, client>>, toClient \in Seq(Message),
           decoder \notin Over, NEW type \in {"SERVER_RESTORE_CHUNK", "SERVER_RESTORE_FINAL"},
           NEW chunks \in Seq(Chunk), Send(type, chunks), chunkBuffer' = <<>>,
           \A to : Piece(chunkBuffer, File, to, Recovered) => Piece(chunks, File, to, Recovered'),
           Recovered' \in Nat, Recovered' <= Len(recipe.entries),
           type = "SERVER_RESTORE_FINAL" => Recovered' = Len(recipe.entries) /\ decoder' \in Over
    PROVE  Pipeline'
  <1> DEFINE msg == [messageType |-> type, chunks |-> chunks]
  <1>1. PICK at, to : Sent(at, to)
    BY DEF Pipeline
  <1>2. ~IsFinal(recvChunkBuf) /\ \A n \in 1 .. Len(toClient) : ~IsFinal(toClient[n])
    BY <1>1 DEF Sent
  <1>3. ~closed
    BY <1>2 DEF FinishInv
  <1>4. UNCHANGED <<recvChunkBuf, recvNum, outputMQ, output, status>>
    BY DEF client
  <1>5. CASE status = "failed"
    <2>1. toClient' = toClient
      BY <1>5 DEF Send, ClientGone
    <2> QED  BY <1>4, <1>5, <2>1, PipelineKept
  <1>6. CASE status # "failed"
    <2>1. toClient' = Append(toClient, msg)
      BY <1>3, <1>6 DEF Send, ClientGone
    <2>2. msg \in Message /\ ChunksOf(msg) = chunks /\ msg.messageType = type
      BY DEF Message, ChunksOf
    <2> HIDE DEF msg
    <2>3. Piece(ChunksOf(msg), File, to, Recovered')
      <3>1. Piece(chunkBuffer, File, to, Recovered)
        BY <1>1, <1>6 DEF Sent, Over
      <3> QED  BY <2>2, <3>1
    <2>4. Laid(at, toClient, Received, File, to)
      BY <1>1 DEF Sent
    <2>5. \E a : Laid(a, Append(toClient, msg), Received, File, Recovered')
      BY <2>2, <2>3, <2>4, LaidAppend
    <2>6. PICK a : Laid(a, Append(toClient, msg), Received, File, Recovered')
      BY <2>5
    <2>7. File' = File /\ Received' = Received
      BY <1>4, FileSame DEF Received
    <2>8. Laid(a, toClient, Received, File, Recovered)'
      BY <2>1, <2>6, <2>7 DEF Laid, Piece, ChunksOf
    <2>9. Piece(<<>>, File', Recovered', Recovered')
      BY PieceEmpty
    <2>10. Len(toClient') = Len(toClient) + 1 /\ toClient'[Len(toClient) + 1] = msg
           /\ Len(toClient) \in Nat /\ \A n \in 1 .. Len(toClient) : toClient'[n] = toClient[n]
      BY <2>1, <2>2
    <2>11. ASSUME NEW n \in 1 .. Len(toClient'), IsFinal(toClient'[n])
           PROVE  n = Len(toClient') /\ Recovered' = Len(recipe.entries) /\ decoder' \in Over
      <3>1. n = Len(toClient) + 1
        <4>1. n \notin 1 .. Len(toClient)
          BY <1>2, <2>10, <2>11
        <4> QED  BY <2>10, <4>1
      <3>2. msg.messageType = "SERVER_RESTORE_FINAL"
        BY <2>10, <2>11, <3>1 DEF IsFinal
      <3> QED  BY <2>2, <2>10, <3>1, <3>2
    <2>12. PICK u : u = Recovered'
      OBVIOUS
    <2>13. Sent(a, u)'
      <3>1. /\ Laid(a, toClient', Received', File', u) /\ u <= Len(recipe'.entries)
            /\ Piece(chunkBuffer', File', u, u)
            /\ ~IsFinal(recvChunkBuf')
        BY <1>2, <1>4, <2>8, <2>9, <2>12
      <3>2. Piece(chunkBuffer', File', u, Recovered')
        BY <2>12, <3>1
      <3> QED  BY <2>11, <2>12, <3>1, <3>2 DEF Sent
    <2>14. /\ Piece(output, File, 0, Len(output))' /\ Piece(outputMQ, File, Len(output), recvNum)'
           /\ Piece(recvChunkBuf.chunks, File, recvNum, Received)'
      BY <1>4, <2>7 DEF Pipeline, Piece
    <2> QED  BY <2>13, <2>14 DEF Pipeline
  <1> QED  BY <1>5, <1>6

(* The server's steps. *)
LEMMA PipelineServer ==
    ASSUME ServerInv, ClientInv, EndInv, FinishInv, Pipeline, OptThread \/ Decoder \/ ServerStops
    PROVE  Pipeline'
  <1>1. CASE SendLoginResponse
    <2> DEFINE msg == [messageType   |-> "SERVER_LOGIN_RESPONSE",
                       totalChunkNum |-> recipe.totalChunkNum]
    <2>1. toClient = <<>> /\ retriever = "login" /\ decoder # "exit"
      BY <1>1 DEF SendLoginResponse, ClientInv, LoginInv
    <2>2. ~IsFinal(recvChunkBuf)
      BY <2>1 DEF FinishInv
    <2>3. /\ UNCHANGED <<recipe, recvChunkBuf, recvNum, outputMQ, output, status, decoder, chunkBuffer>>
          /\ UNCHANGED <<cursor, batch, recipeBuffer, k, tail>>
          /\ toClient' = toClient \/ toClient' = Append(toClient, msg)
      BY <1>1 DEF SendLoginResponse, client, enclave
    <2>4. Recovered' = Recovered
      BY <2>3 DEF Recovered, Parsed
    <2>5. CASE toClient' = toClient
      BY <2>3, <2>4, <2>5, PipelineKept
    <2>6. CASE toClient' = Append(toClient, msg)
      <3>1. PICK at, to : Sent(at, to)
        BY DEF Pipeline
      <3>2. ChunksOf(msg) = <<>> /\ ~IsFinal(msg)
        BY DEF ChunksOf, IsFinal
      <3> HIDE DEF msg
      <3>3. Laid(at, toClient, Received, File, to) /\ to \in Nat
        BY <3>1 DEF Sent, Laid
      <3>4. Piece(ChunksOf(msg), File, to, to)
        BY <3>2, <3>3, PieceEmpty
      <3>5. toClient \in Seq({msg})
        BY <2>1
      <3>6. \E a : Laid(a, Append(toClient, msg), Received, File, to)
        BY <3>3, <3>4, <3>5, LaidAppend
      <3>7. PICK a : Laid(a, Append(toClient, msg), Received, File, to)
        BY <3>6
      <3>8. File' = File /\ Received' = Received
        BY <2>3, FileSame DEF Received
      <3>9. Len(toClient') = 1 /\ toClient'[1] = msg
        BY <2>1, <2>6
      <3>10. Laid(a, toClient', Received', File', to)
        BY <2>6, <3>7, <3>8
      <3>11. Sent(a, to)'
        <4>1. to <= Len(recipe'.entries)
          BY <2>3, <3>1 DEF Sent
        <4>2. decoder' # "exit" /\ status' # "failed" => Piece(chunkBuffer', File', to, Recovered')
          BY <2>3, <2>4, <3>1, <3>8 DEF Sent
        <4>3. \A n \in 1 .. Len(toClient') : ~IsFinal(toClient'[n])
          BY <3>2, <3>9
        <4>4. ~IsFinal(recvChunkBuf')
          BY <2>2, <2>3
        <4> QED  BY <3>10, <4>1, <4>2, <4>3, <4>4 DEF Sent
      <3>12. /\ Piece(output, File, 0, Len(output))' /\ Piece(outputMQ, File, Len(output), recvNum)'
             /\ Piece(recvChunkBuf.chunks, File, recvNum, Received)'
        BY <2>3, <3>8 DEF Pipeline, Piece
      <3> QED  BY <3>11, <3>12 DEF Pipeline
    <2> QED  BY <2>3, <2>5, <2>6
  <1>2. CASE \/ SendLoginResponseFails \/ RecvReadyFails \/ FetchFails \/ SendFails \/ ServerStops
    <2>1. decoder' = "exit" /\ UNCHANGED <<recipe, toClient, client>>
      BY <1>2 DEF SendLoginResponseFails, RecvReadyFails, FetchFails, SendFails, ServerStops, Exit, net
    <2> QED  BY <2>1, PipelineKept DEF client, Over
  <1>3. CASE \/ RecvReady \/ ReadRecipe \/ ParseEntry \/ FetchFromCache \/ FetchFromFile
             \/ TailFetch \/ WaitClose
    <2>1. Recovered' = Recovered
      BY <1>3, RecoveredSame
    <2>2. decoder # "exit" /\ UNCHANGED <<recipe, toClient, client, chunkBuffer>>
          /\ (decoder \in Over => decoder' \in Over)
      BY <1>3 DEF RecvReady, ReadRecipe, ParseEntry, FetchFromCache, FetchFromFile, TailFetch,
         WaitClose, net, enclave, Over
    <2> QED  BY <2>1, <2>2, PipelineKept DEF client
  <1>4. CASE RecoverKeep \/ RecoverSend
    <2> DEFINE x == containerArray[recipeBuffer[k].containerID][recipeBuffer[k].offset]
    <2>1. decoder = "recover" /\ NextRecovered /\ UNCHANGED <<recipe, cursor, tail, client>>
      BY <1>4 DEF RecoverKeep, RecoverSend
    <2>2. /\ Recovered \in Nat /\ Recovered' = Recovered + 1 /\ Recovered + 1 <= Len(File)
          /\ x = File[Recovered + 1] /\ x \in Chunk /\ (EndFlag => Recovered + 1 = cursor)
      BY <2>1, RecoveredNext
    <2>3. RecoverOneChunk = Append(chunkBuffer, x)
      BY DEF RecoverOneChunk
    <2> HIDE DEF x
    <2>4. ASSUME NEW to, Piece(chunkBuffer, File, to, Recovered)
          PROVE  Piece(RecoverOneChunk, File, to, Recovered')
      BY <2>2, <2>3, <2>4, PieceAppend
    <2>5. CASE RecoverKeep
      <3>1. chunkBuffer' = RecoverOneChunk /\ UNCHANGED <<toClient, status>> /\ decoder \notin Over
        BY <2>1, <2>5 DEF RecoverKeep, net, client, Over
      <3>2. decoder # "exit"
        BY <2>1
      <3> QED  BY <2>1, <2>4, <3>1, <3>2, PipelineKept DEF client
    <2>6. CASE RecoverSend
      <3> DEFINE type == IF EndFlag THEN "SERVER_RESTORE_FINAL" ELSE "SERVER_RESTORE_CHUNK"
      <3>1. Send(type, RecoverOneChunk) /\ chunkBuffer' = <<>>
        BY <2>6 DEF RecoverSend, RecoverAndSend
      <3>2. RecoverOneChunk \in Seq(Chunk)
        BY <2>1, RecoverOneChunkFacts
      <3>3. toClient \in Seq(Message)
        BY <2>1 DEF ClientInv, ClientTypeOK, LoginInv
      <3>4. Recovered' \in Nat /\ Recovered' <= Len(recipe.entries)
        BY <2>2, FileFacts
      <3>5. EndFlag => Recovered' = Len(recipe.entries) /\ decoder' \in Over
        <4>1. EndFlag => decoder' = "close" /\ cursor = Len(recipe.entries)
          <5>1. k \in Nat /\ Len(recipeBuffer) \in Nat
            BY ServerFacts
          <5> QED  BY <2>1, <5>1 DEF EndFlag, NextRecovered, EndInv
        <4> QED  BY <2>2, <4>1 DEF Over
      <3>6. decoder \notin Over
        BY <2>1 DEF Over
      <3>7. type \in {"SERVER_RESTORE_CHUNK", "SERVER_RESTORE_FINAL"}
            /\ (type = "SERVER_RESTORE_FINAL" => EndFlag)
        OBVIOUS
      <3> HIDE DEF type
      <3> QED  BY <2>1, <2>4, <3>1, <3>2, <3>3, <3>4, <3>5, <3>6, <3>7, PipelineSent
    <2> QED  BY <1>4, <2>5, <2>6
  <1>5. CASE TailSend
    <2>1. /\ decoder = "tail" /\ decoder' = "close" /\ chunkBuffer' = <<>> /\ recipeBuffer = <<>>
          /\ Send("SERVER_RESTORE_FINAL", chunkBuffer) /\ UNCHANGED <<recipe, client>>
      BY <1>5 DEF TailSend
    <2>2. Recovered' = Recovered
      BY <1>5, RecoveredSame
    <2>3. Recovered = Len(recipe.entries)
      <3>1. Recovered = cursor - Len(batch) - Len(recipeBuffer) /\ Len(recipeBuffer) = 0
        BY <2>1 DEF Recovered, Parsed
      <3>2. batch = <<>> /\ cursor = Len(recipe.entries)
        BY <2>1 DEF ServerInv, Position, EndInv
      <3>3. cursor \in Nat
        BY ServerFacts
      <3> QED  BY <3>1, <3>2, <3>3
    <2>4. toClient \in Seq(Message)
      BY <2>1 DEF ClientInv, ClientTypeOK, LoginInv
    <2>5. chunkBuffer \in Seq(Chunk) /\ Len(recipe.entries) \in Nat
      BY ServerFacts
    <2>6. decoder \notin Over /\ decoder' \in Over
      BY <2>1 DEF Over
    <2>7. Recovered' \in Nat /\ Recovered' <= Len(recipe.entries) /\ Recovered' = Len(recipe.entries)
      BY <2>2, <2>3, <2>5
    <2>8. \A to : Piece(chunkBuffer, File, to, Recovered) => Piece(chunkBuffer, File, to, Recovered')
      BY <2>2
    <2> DEFINE type == "SERVER_RESTORE_FINAL"
    <2>9. type \in {"SERVER_RESTORE_CHUNK", "SERVER_RESTORE_FINAL"} /\ Send(type, chunkBuffer)
      BY <2>1
    <2> HIDE DEF type
    <2> QED  BY <2>1, <2>4, <2>5, <2>6, <2>7, <2>8, <2>9, PipelineSent
  <1> QED  BY <1>1, <1>2, <1>3, <1>4, <1>5 DEF OptThread, Decoder

(* Recovered depends on the server only. *)
LEMMA RecoveredUnmoved == ASSUME UNCHANGED <<server, enclave>> PROVE Recovered' = Recovered
  BY DEF server, enclave, Recovered, Parsed

(* What a step of the client that keeps the places of the messages keeps. *)
LEMMA SentKept ==
    ASSUME UNCHANGED <<server, enclave, toClient>>, NEW at, NEW to, Sent(at, to),
           Received' = Received, status' # "failed" => status # "failed",
           IsFinal(recvChunkBuf') => IsFinal(recvChunkBuf)
    PROVE  Sent(at, to)'
  <1>1. File' = File /\ Recovered' = Recovered
    BY FileSame, RecoveredUnmoved DEF server
  <1>2. Laid(at, toClient', Received', File', to)
    BY <1>1 DEF Sent
  <1>3. decoder' # "exit" /\ status' # "failed" => Piece(chunkBuffer', File', to, Recovered')
    BY <1>1 DEF Sent, server, enclave
  <1> QED  BY <1>2, <1>3 DEF Sent, server

(* The client's steps. *)
LEMMA PipelineClient ==
    ASSUME ServerInv, ClientInv, FinishInv, Pipeline, Retriever \/ Writer \/ ClientStops
    PROVE  Pipeline'
  <1>1. UNCHANGED <<server, enclave>>
    <2>1. CASE Retriever
      BY <2>1 DEF Retriever, RestoreLogin, SendReady, RecvMessage, ConnectionFails, PushChunk,
         NextMessage, Finish, FinishReturns, SetDone, CompareCount, JoinThreads
    <2>2. CASE Writer \/ ClientStops
      BY <2>2 DEF Writer, WriterCheck, WriterPop, ClientStops
    <2> QED  BY <2>1, <2>2
  <1>2. /\ File' = File /\ Recovered' = Recovered
        /\ UNCHANGED <<recipe, decoder, chunkBuffer>>
    BY <1>1, FileSame, RecoveredUnmoved DEF server, enclave
  <1>3. /\ Piece(output, File, 0, Len(output)) /\ Piece(outputMQ, File, Len(output), recvNum)
        /\ Piece(recvChunkBuf.chunks, File, recvNum, Received)
    BY DEF Pipeline
  <1>4. /\ recvNum \in Nat /\ recvChunkBuf \in Message
        /\ output \in Seq(Chunk) /\ outputMQ \in Seq(Chunk)
    BY DEF ClientInv, ClientTypeOK
  <1>5. PICK at, to : Sent(at, to)
    BY DEF Pipeline
  <1>6. Laid(at, toClient, Received, File, to) /\ to \in Nat /\ to <= Len(recipe.entries)
    BY <1>5 DEF Sent, Laid
  <1>7. CASE \/ SendReady \/ ConnectionFails \/ NextMessage \/ Finish \/ FinishReturns \/ SetDone
             \/ CompareCount \/ JoinThreads \/ WriterCheck \/ ClientStops
    <2>1. UNCHANGED <<toClient, recvChunkBuf, recvNum, outputMQ, output>>
          /\ (status' # "failed" => status # "failed")
      BY <1>7 DEF SendReady, ConnectionFails, NextMessage, Finish, FinishReturns, SetDone,
         CompareCount, JoinThreads, WriterCheck, ClientStops, net
    <2> QED  BY <1>2, <2>1, PipelineKept
  <1>8. CASE WriterPop
    <2>1. UNCHANGED <<toClient, recvChunkBuf, recvNum, status>>
      BY <1>8 DEF WriterPop, net
    <2>2. CASE outputMQ = <<>>
      <3>1. UNCHANGED <<outputMQ, output>>
        BY <1>8, <2>2 DEF WriterPop
      <3> QED  BY <1>2, <2>1, <3>1, PipelineKept
    <2>3. CASE outputMQ # <<>>
      <3>1. output' = Append(output, Head(outputMQ)) /\ outputMQ' = Tail(outputMQ)
        BY <1>8, <2>3 DEF WriterPop
      <3>2. /\ Head(outputMQ) \in Chunk /\ Head(outputMQ) = File[Len(output) + 1]
            /\ Piece(Tail(outputMQ), File, Len(output) + 1, recvNum)
        BY <1>3, <2>3, PieceHeadTail
      <3>3. Piece(Append(output, Head(outputMQ)), File, 0, Len(output) + 1)
        BY <1>3, <3>2, PieceAppend
      <3>4. Len(output') = Len(output) + 1
        BY <1>4, <3>1, <3>2
      <3>5. Received' = Received
        BY <2>1 DEF Received
      <3>6. Sent(at, to)'
        BY <1>1, <1>5, <2>1, <3>5, SentKept DEF IsFinal
      <3>7. Piece(output', File', 0, Len(output')) /\ Piece(outputMQ', File', Len(output'), recvNum')
        BY <1>2, <2>1, <3>1, <3>2, <3>3, <3>4
      <3>8. Piece(recvChunkBuf'.chunks, File', recvNum', Received')
        BY <1>2, <1>3, <2>1, <3>5
      <3> QED  BY <3>6, <3>7, <3>8 DEF Pipeline
    <2> QED  BY <2>2, <2>3
  <1>9. CASE PushChunk
    <2> DEFINE s == recvChunkBuf.chunks
    <2>1. /\ s # <<>> /\ outputMQ' = Append(outputMQ, Head(s)) /\ recvNum' = recvNum + 1
          /\ recvChunkBuf' = [recvChunkBuf EXCEPT !.chunks = Tail(s)]
          /\ UNCHANGED <<toClient, output, status>>
      BY <1>9 DEF PushChunk, net
    <2>2. recvChunkBuf'.chunks = Tail(s) /\ recvChunkBuf'.messageType = recvChunkBuf.messageType
          /\ s \in Seq(Chunk)
      BY <1>4, <2>1 DEF Message
    <2>3. /\ Head(s) \in Chunk /\ Head(s) = File[recvNum + 1]
          /\ Piece(Tail(s), File, recvNum + 1, Received)
      BY <1>3, <2>1, PieceHeadTail
    <2>4. Piece(Append(outputMQ, Head(s)), File, Len(output), recvNum + 1)
      BY <1>3, <2>3, PieceAppend
    <2>5. Received' = Received
      <3>1. Len(Tail(s)) = Len(s) - 1 /\ Len(s) \in Nat
        BY <2>1, <2>2, TailFacts
      <3>2. Received' = recvNum' + Len(Tail(s)) /\ Received = recvNum + Len(s)
        BY <2>2 DEF Received
      <3> HIDE DEF s
      <3> QED  BY <1>4, <2>1, <3>1, <3>2
    <2> HIDE DEF s
    <2>6. Sent(at, to)'
      BY <1>1, <1>5, <2>1, <2>2, <2>5, SentKept DEF IsFinal
    <2>7. Piece(output', File', 0, Len(output'))
      BY <1>2, <1>3, <2>1
    <2>8. Piece(outputMQ', File', Len(output'), recvNum')
      BY <1>2, <2>1, <2>4
    <2>9. Piece(recvChunkBuf'.chunks, File', recvNum', Received')
      BY <1>2, <2>1, <2>2, <2>3, <2>5
    <2> QED  BY <2>6, <2>7, <2>8, <2>9 DEF Pipeline
  <1>10. CASE RecvMessage
    <2>1. /\ retriever = "recv" /\ toClient # <<>> /\ recvChunkBuf' = Head(toClient)
          /\ toClient' = Tail(toClient) /\ UNCHANGED <<recvNum, outputMQ, output, status>>
      BY <1>10 DEF RecvMessage
    <2>2. toClient \in Seq(Message) /\ recvChunkBuf.chunks = <<>>
      BY <2>1 DEF ClientInv, ClientTypeOK, FinishInv
    <2>3. Received = recvNum
      BY <1>4, <2>2 DEF Received
    <2>4. Head(toClient) \in Message /\ Head(toClient) = toClient[1] /\ Len(toClient) \in Nat
          /\ Len(toClient) > 0
      BY <2>1, <2>2
    <2>5. ChunksOf(Head(toClient)) = Head(toClient).chunks
      BY <2>4 DEF ChunksOf, Message
    <2>6. \E a, m : Piece(ChunksOf(Head(toClient)), File, Received, m) /\ Laid(a, Tail(toClient), m, File, to)
      BY <1>6, <2>1, <2>2, LaidHeadTail
    <2>7. PICK a, m : Piece(ChunksOf(Head(toClient)), File, Received, m) /\ Laid(a, Tail(toClient), m, File, to)
      BY <2>6
    <2>8. Received' = m
      <3>1. Received' = recvNum + Len(Head(toClient).chunks)
        BY <2>1 DEF Received
      <3>2. m \in Nat /\ Len(Head(toClient).chunks) = m - recvNum
        BY <2>3, <2>5, <2>7 DEF Piece
      <3> QED  BY <1>4, <3>1, <3>2
    <2>9. /\ Len(Tail(toClient)) = Len(toClient) - 1
          /\ \A n \in 1 .. Len(toClient) - 1 : Tail(toClient)[n] = toClient[n + 1]
      BY <2>1, <2>2, TailFacts
    <2>10. Sent(a, to)'
      <3>1. Laid(a, toClient', Received', File', to)
        BY <1>2, <2>1, <2>7, <2>8
      <3>2. decoder' # "exit" /\ status' # "failed" => Piece(chunkBuffer', File', to, Recovered')
        BY <1>2, <1>5, <2>1 DEF Sent
      <3>3. ASSUME NEW n \in 1 .. Len(toClient'), IsFinal(toClient'[n])
            PROVE  n = Len(toClient') /\ to = Len(recipe'.entries) /\ decoder' \in Over
        <4>1. n + 1 \in 1 .. Len(toClient) /\ toClient'[n] = toClient[n + 1]
          BY <2>1, <2>4, <2>9
        <4>2. n + 1 = Len(toClient) /\ to = Len(recipe.entries) /\ decoder \in Over
          BY <1>5, <3>3, <4>1 DEF Sent
        <4>3. n = Len(toClient')
          <5>1. Len(toClient') = Len(toClient) - 1 /\ Len(toClient) \in Nat
            BY <2>1, <2>4, <2>9
          <5>2. \A i \in Nat : \A j \in 1 .. i - 1 : j + 1 = i => j = i - 1
            OBVIOUS
          <5>3. n \in 1 .. Len(toClient) - 1
            BY <5>1
          <5> QED  BY <4>2, <5>1, <5>2, <5>3
        <4> QED  BY <1>2, <4>2, <4>3
      <3>4. IsFinal(recvChunkBuf') => toClient' = <<>> /\ to = Len(recipe'.entries) /\ decoder' \in Over
        <4> SUFFICES ASSUME IsFinal(recvChunkBuf')
                     PROVE  toClient' = <<>> /\ to = Len(recipe'.entries) /\ decoder' \in Over
          OBVIOUS
        <4>1. 1 \in 1 .. Len(toClient) /\ IsFinal(toClient[1])
          BY <2>1, <2>4
        <4>2. 1 = Len(toClient) /\ to = Len(recipe.entries) /\ decoder \in Over
          BY <1>5, <4>1 DEF Sent
        <4>3. Len(Tail(toClient)) = 0 /\ Tail(toClient) \in Seq(Message)
          BY <2>1, <2>2, <2>9, <4>2
        <4>4. Tail(toClient) = <<>>
          BY <4>3, EmptySeq
        <4> QED  BY <1>2, <2>1, <4>2, <4>4
      <3>5. to <= Len(recipe'.entries)
        BY <1>2, <1>6
      <3> QED  BY <3>1, <3>2, <3>3, <3>4, <3>5 DEF Sent
    <2>11. Piece(recvChunkBuf'.chunks, File', recvNum', Received')
      BY <1>2, <2>1, <2>3, <2>5, <2>7, <2>8
    <2>12. Piece(output', File', 0, Len(output')) /\ Piece(outputMQ', File', Len(output'), recvNum')
      BY <1>2, <1>3, <2>1
    <2> QED  BY <2>10, <2>11, <2>12 DEF Pipeline
  <1>11. CASE RestoreLogin
    <2>1. /\ retriever = "login" /\ toClient # <<>> /\ toClient' = Tail(toClient)
          /\ UNCHANGED <<recvChunkBuf, recvNum, outputMQ, output, status>>
      BY <1>11 DEF RestoreLogin
    <2>2. toClient \in Seq(LoginResponse) /\ Len(toClient) <= 1 /\ ~IsFinal(recvChunkBuf)
      BY <2>1 DEF ClientInv, ClientTypeOK, LoginInv, FinishInv
    <2>3. Tail(toClient) = <<>> /\ Head(toClient) \in LoginResponse
      <3>1. Tail(toClient) \in Seq(LoginResponse) /\ Len(Tail(toClient)) = 0
        <4>1. Len(toClient) > 0 /\ Len(toClient) \in Nat /\ Len(Tail(toClient)) = Len(toClient) - 1
              /\ Tail(toClient) \in Seq(LoginResponse)
          BY <2>1, <2>2, TailFacts
        <4> QED  BY <2>2, <4>1
      <3>2. Head(toClient) \in LoginResponse
        BY <2>1, <2>2
      <3> QED  BY <3>1, <3>2, EmptySeq
    <2>4. ChunksOf(Head(toClient)) = <<>>
      <3>1. "chunks" \notin DOMAIN Head(toClient)
        BY <2>3 DEF LoginResponse
      <3> QED  BY <3>1 DEF ChunksOf
    <2>5. \E a, m : Piece(ChunksOf(Head(toClient)), File, Received, m) /\ Laid(a, Tail(toClient), m, File, to)
      BY <1>6, <2>1, <2>2, LaidHeadTail
    <2>6. PICK a, m : Piece(ChunksOf(Head(toClient)), File, Received, m) /\ Laid(a, Tail(toClient), m, File, to)
      BY <2>5
    <2>7. m = Received
      BY <2>4, <2>6, PieceOfNone
    <2>8. Received' = Received
      BY <2>1 DEF Received
    <2>9. Sent(a, to)'
      <3>1. Laid(a, toClient', Received', File', to)
        BY <1>2, <2>1, <2>6, <2>7, <2>8
      <3>2. decoder' # "exit" /\ status' # "failed" => Piece(chunkBuffer', File', to, Recovered')
        BY <1>2, <1>5, <2>1 DEF Sent
      <3>3. 1 .. Len(toClient') = {} /\ ~IsFinal(recvChunkBuf')
        BY <2>1, <2>2, <2>3
      <3>4. to <= Len(recipe'.entries)
        BY <1>2, <1>6
      <3> QED  BY <3>1, <3>2, <3>3, <3>4 DEF Sent
    <2>10. /\ Piece(output', File', 0, Len(output')) /\ Piece(outputMQ', File', Len(output'), recvNum')
           /\ Piece(recvChunkBuf'.chunks, File', recvNum', Received')
      BY <1>2, <1>3, <2>1, <2>8
    <2> QED  BY <2>9, <2>10 DEF Pipeline
  <1> QED  BY <1>7, <1>8, <1>9, <1>10, <1>11 DEF Retriever, Writer

(* The end of the session. *)
LEMMA FinishNext ==
    ASSUME ServerInv, ClientInv, FinishInv, Pipeline, [Next]_vars
    PROVE  FinishInv'
  <1>1. CASE SendLoginResponse
    <2>1. UNCHANGED <<client, closed, recipe>> /\ toClient = <<>> /\ retriever = "login"
      BY <1>1 DEF SendLoginResponse, ClientInv, LoginInv
    <2> DEFINE msg == [messageType   |-> "SERVER_LOGIN_RESPONSE",
                       totalChunkNum |-> recipe.totalChunkNum]
    <2>2. toClient' = <<>> \/ toClient' = <<msg>>
      BY <1>1, <2>1 DEF SendLoginResponse
    <2>3. \A n \in 1 .. Len(toClient') : toClient'[n].totalChunkNum = recipe.totalChunkNum
      BY <2>2
    <2> QED  BY <2>1, <2>3 DEF FinishInv, client, IsFinal
  <1>2. CASE RecoverSend \/ TailSend
    <2>1. UNCHANGED <<client, closed, recipe>> /\ decoder \notin {"ready", "exit"}
      BY <1>2 DEF RecoverSend, TailSend
    <2>2. retriever # "login"
      BY <2>1 DEF ClientInv, LoginInv
    <2> QED  BY <2>1, <2>2 DEF FinishInv, client, IsFinal
  <1>3. CASE \/ SendLoginResponseFails \/ RecvReady \/ RecvReadyFails \/ ReadRecipe \/ ParseEntry
             \/ FetchFromCache \/ FetchFromFile \/ FetchFails \/ RecoverKeep \/ TailFetch
             \/ SendFails \/ WaitClose \/ ServerStops \/ Ended \/ UNCHANGED vars
    <2>1. UNCHANGED <<client, toClient, closed, recipe>>
      BY <1>3 DEF SendLoginResponseFails, RecvReady, RecvReadyFails, ReadRecipe, ParseEntry,
         FetchFromCache, FetchFromFile, FetchFails, RecoverKeep, TailFetch, SendFails, WaitClose,
         ServerStops, Ended, vars, net, server
    <2> QED  BY <2>1 DEF FinishInv, client, IsFinal
  <1>4. CASE RestoreLogin
    <2>1. 1 \in 1 .. Len(toClient) /\ Head(toClient) = toClient[1]
      <3>1. toClient \in Seq(LoginResponse) /\ toClient # <<>>
        BY <1>4 DEF RestoreLogin, ClientInv, ClientTypeOK
      <3>2. Len(toClient) \in Nat /\ Len(toClient) > 0
        BY <3>1, TailFacts
      <3> QED  BY <3>1, <3>2
    <2>2. Head(toClient).totalChunkNum = recipe.totalChunkNum
      BY <1>4, <2>1 DEF RestoreLogin, FinishInv
    <2> QED  BY <1>4, <2>2 DEF RestoreLogin, FinishInv, server, IsFinal
  <1>5. CASE SendReady \/ ConnectionFails \/ ClientStops \/ JoinThreads
    BY <1>5 DEF SendReady, ConnectionFails, ClientStops, JoinThreads, FinishInv, server, net, IsFinal
  <1>6. CASE RecvMessage
    BY <1>6 DEF RecvMessage, FinishInv, server, IsFinal
  <1>7. CASE PushChunk
    <2>1. ~done /\ ~closed /\ retriever = "process" /\ recvChunkBuf.chunks # <<>>
      BY <1>7 DEF PushChunk, FinishInv
    <2> QED  BY <1>7, <2>1 DEF PushChunk, FinishInv, server, net
  <1>8. CASE NextMessage \/ Finish
    BY <1>8 DEF NextMessage, Finish, FinishInv, server, net, IsFinal
  <1>9. CASE FinishReturns \/ SetDone
    BY <1>9 DEF FinishReturns, SetDone, FinishInv, server, net, IsFinal
  <1>10. CASE CompareCount
    BY <1>10 DEF CompareCount, CountMatches, FinishInv, server, net, IsFinal
  <1>11. CASE WriterCheck
    BY <1>11 DEF WriterCheck, AllPopped, FinishInv, server, net, IsFinal
  <1>12. CASE WriterPop
    <2>1. UNCHANGED <<recipe, toClient, closed, retriever, expectedNum, recvChunkBuf, recvNum, done, jobDone>>
          /\ (writer' = "done" => jobDone)
      BY <1>12 DEF WriterPop, server, net
    <2>2. outputMQ = <<>> => outputMQ' = <<>>
      BY <1>12 DEF WriterPop
    <2> QED  BY <2>1, <2>2 DEF FinishInv, IsFinal
  <1> QED  BY <1>1, <1>2, <1>3, <1>4, <1>5, <1>6, <1>7, <1>8, <1>9, <1>10, <1>11, <1>12
           DEF Next, OptThread, Decoder, Retriever, Writer

(* The invariants above, together. *)
RestoreInv == ServerInv /\ ClientInv /\ EndInv /\ FinishInv /\ Pipeline

LEMMA RestoreStarts == Init => RestoreInv
  <1> SUFFICES ASSUME Init PROVE RestoreInv
    OBVIOUS
  <1>1. ServerInv /\ ClientInv
    BY InvStarts
  <1>2. EndInv
    BY DEF Init, EndInv
  <1>3. FinishInv
    <2>1. 1 .. Len(toClient) = {}
      BY DEF Init
    <2> QED  BY <2>1 DEF Init, FinishInv, NoMessage, IsFinal
  <1>4. Received = 0 /\ toClient = <<>> /\ chunkBuffer = <<>> /\ output = <<>> /\ outputMQ = <<>>
        /\ recvChunkBuf.chunks = <<>> /\ Len(output) = 0 /\ recvNum = 0 /\ ~IsFinal(recvChunkBuf)
    BY DEF Init, Received, NoMessage, IsFinal
  <1>5. Recovered = 0
    BY DEF Init, Recovered, Parsed
  <1>6. Piece(<<>>, File, 0, 0)
    BY PieceEmpty
  <1>7. PICK at : Laid(at, <<>>, 0, File, 0)
    BY LaidNone
  <1>8. Sent(at, 0)
    <2>1. 0 <= Len(recipe.entries)
      BY <1>1, ServerFacts
    <2>2. 1 .. Len(toClient) = {}
      BY <1>4
    <2> QED  BY <1>4, <1>5, <1>6, <1>7, <2>1, <2>2 DEF Sent
  <1>9. Pipeline
    BY <1>4, <1>6, <1>8 DEF Pipeline
  <1> QED  BY <1>1, <1>2, <1>3, <1>9 DEF RestoreInv

LEMMA RestoreNext == ASSUME RestoreInv, [Next]_vars PROVE RestoreInv'
  <1>1. ServerInv /\ ClientInv /\ EndInv /\ FinishInv /\ Pipeline
    BY DEF RestoreInv
  <1>2. ServerInv' /\ ClientInv' /\ EndInv' /\ FinishInv'
    BY <1>1, ServerNext, ClientNext, EndNext, FinishNext
  <1>3. Pipeline'
    <2>1. CASE OptThread \/ Decoder \/ ServerStops
      BY <1>1, <2>1, PipelineServer
    <2>2. CASE Retriever \/ Writer \/ ClientStops
      BY <1>1, <2>2, PipelineClient
    <2>3. CASE Ended \/ UNCHANGED vars
      <3>1. UNCHANGED <<server, enclave, toClient, client>>
        BY <2>3 DEF Ended, vars, net
      <3>2. Recovered' = Recovered
        BY <3>1, RecoveredUnmoved
      <3> QED  BY <1>1, <3>1, <3>2, PipelineKept DEF server, enclave, client
    <2> QED  BY <2>1, <2>2, <2>3 DEF Next
  <1> QED  BY <1>2, <1>3 DEF RestoreInv

LEMMA RestoreInvHolds == Spec => []RestoreInv
  BY RestoreStarts, RestoreNext, PTL DEF Spec

(* No chunk is lost, doubled or out of order on its way from the container   *)
(* buffers to the output file, for every recipe and every batch, group,      *)
(* message and queue size (EcallRecvDecoder, DataRetriever, RestoreWriter).  *)
THEOREM NothingLost == Spec => []Conservation
  <1>1. ASSUME RestoreInv PROVE Conservation
    <2> SUFFICES ASSUME decoder # "exit", status # "failed"
                 PROVE  output \o outputMQ \o recvChunkBuf.chunks \o Flatten(toClient) \o chunkBuffer
                            = SubSeq(File, 1, Recovered)
      BY DEF Conservation
    <2> USE <1>1 DEF RestoreInv
    <2>1. PICK at, to : Sent(at, to)
      BY DEF Pipeline
    <2>2. Laid(at, toClient, Received, File, to) /\ Piece(chunkBuffer, File, to, Recovered)
      BY <2>1 DEF Sent
    <2>3. \E S : toClient \in Seq(S)
      BY DEF ClientInv, ClientTypeOK
    <2>4. Piece(Flatten(toClient), File, Received, to)
      BY <2>2, <2>3, LaidFlat
    <2>5. /\ Piece(output, File, 0, Len(output)) /\ Piece(outputMQ, File, Len(output), recvNum)
          /\ Piece(recvChunkBuf.chunks, File, recvNum, Received)
      BY DEF Pipeline
    <2>6. Piece(output \o outputMQ, File, 0, recvNum)
      BY <2>5, PieceConcat
    <2>7. Piece((output \o outputMQ) \o recvChunkBuf.chunks, File, 0, Received)
      BY <2>5, <2>6, PieceConcat
    <2>8. Piece(((output \o outputMQ) \o recvChunkBuf.chunks) \o Flatten(toClient), File, 0, to)
      BY <2>4, <2>7, PieceConcat
    <2>9. Piece((((output \o outputMQ) \o recvChunkBuf.chunks) \o Flatten(toClient)) \o chunkBuffer,
                File, 0, Recovered)
      BY <2>2, <2>8, PieceConcat
    <2>10. Recovered <= Len(File)
      <3>1. /\ cursor \in Nat /\ Len(batch) \in Nat /\ Len(recipeBuffer) \in Nat
            /\ cursor <= Len(recipe.entries) /\ tail \in BOOLEAN /\ Len(recipe.entries) \in Nat
            /\ batch \in Seq(RecipeEntry) /\ k \in Nat /\ Len(File) = Len(recipe.entries)
        BY ServerFacts, FileFacts
      <3>2. Parsed <= cursor /\ Parsed \in Int
        <4>1. CASE decoder \in {"fetch", "recover"} /\ ~tail
          <5>1. batch # <<>>
            BY <4>1 DEF ServerInv, Position
          <5>2. Len(batch) > 0
            BY <3>1, <5>1
          <5> QED  BY <3>1, <4>1, <5>2 DEF Parsed
        <4>2. CASE ~(decoder \in {"fetch", "recover"} /\ ~tail)
          BY <3>1, <4>2 DEF Parsed
        <4> QED  BY <4>1, <4>2
      <3>3. decoder = "recover" => k <= Len(recipeBuffer)
        BY <3>1 DEF ServerInv, Position
      <3>4. Recovered \in {(Parsed - Len(recipeBuffer)) + (k - 1), Parsed, Parsed - Len(recipeBuffer)}
            /\ (decoder # "recover" => Recovered \in {Parsed, Parsed - Len(recipeBuffer)})
        BY <3>1, <3>2 DEF Recovered
      <3> QED  BY <3>1, <3>2, <3>3, <3>4
    <2> DEFINE all == (((output \o outputMQ) \o recvChunkBuf.chunks) \o Flatten(toClient)) \o chunkBuffer
    <2> HIDE DEF all
    <2>11. all = SubSeq(File, 1, Recovered)
      BY <2>9, <2>10, FileFacts, PieceIsSubSeq DEF all
    <2> QED  BY <2>11 DEF all
  <1> QED  BY <1>1, RestoreInvHolds, PTL

(* A client that joins its threads has everything in the output. *)
LEMMA AllWritten ==
    ASSUME RestoreInv, retriever = "done", writer = "done"
    PROVE  output = File /\ Len(output) = recipe.totalChunkNum
  <1> USE DEF RestoreInv
  <1>1. /\ IsFinal(recvChunkBuf) /\ recvChunkBuf.chunks = <<>> /\ outputMQ = <<>>
        /\ recvNum = expectedNum /\ expectedNum = recipe.totalChunkNum
    BY DEF FinishInv
  <1>2. PICK at, to : Sent(at, to)
    BY DEF Pipeline
  <1>3. toClient = <<>> /\ to = Len(recipe.entries)
    BY <1>1, <1>2 DEF Sent
  <1>4. Received = to
    <2>1. Laid(at, <<>>, Received, File, to)
      BY <1>2, <1>3 DEF Sent
    <2> QED  BY <2>1, LaidOfNone
  <1>5. Received = recvNum /\ recvNum = Len(output)
    <2>1. Piece(recvChunkBuf.chunks, File, recvNum, Received) /\ Piece(outputMQ, File, Len(output), recvNum)
      BY DEF Pipeline
    <2> QED  BY <1>1, <2>1, PieceOfNone
  <1>6. Piece(output, File, 0, Len(output)) /\ Len(output) = Len(File)
        /\ File \in Seq(Chunk) /\ Len(File) \in Nat
    BY <1>3, <1>4, <1>5, FileFacts, ServerFacts DEF Pipeline
  <1>7. output = SubSeq(File, 1, Len(File))
    BY <1>6, PieceIsSubSeq
  <1>8. SubSeq(File, 1, Len(File)) = File
    BY <1>6
  <1> QED  BY <1>1, <1>5, <1>7, <1>8

(* The chunk that the writer pops is the next one of the file. *)
LEMMA NextWritten ==
    ASSUME RestoreInv, outputMQ # <<>>
    PROVE  Len(output) < Len(File) /\ Head(outputMQ) = File[Len(output) + 1]
  <1> USE DEF RestoreInv
  <1>1. /\ Piece(outputMQ, File, Len(output), recvNum)
        /\ Piece(recvChunkBuf.chunks, File, recvNum, Received)
    BY DEF Pipeline
  <1>2. Head(outputMQ) = File[Len(output) + 1] /\ Len(output) + 1 <= recvNum
    BY <1>1, PieceHeadTail
  <1>3. PICK at, to : Sent(at, to)
    BY DEF Pipeline
  <1>4. Received <= to /\ to <= Len(File) /\ to \in Nat
    <2>1. Laid(at, toClient, Received, File, to) /\ to <= Len(recipe.entries)
      BY <1>3 DEF Sent
    <2>2. Len(toClient) \in Nat
      BY DEF ClientInv, ClientTypeOK
    <2>3. at[0] \in 0 .. to /\ at[0] = Received /\ to \in Nat
      BY <2>1, <2>2 DEF Laid
    <2> QED  BY <2>1, <2>3, FileFacts
  <1>5. Len(output) \in Nat /\ recvNum \in Nat /\ Received \in Nat /\ recvNum <= Received
    BY <1>1 DEF Piece
  <1>6. Len(File) \in Nat
    BY FileFacts, ServerFacts
  <1> QED  BY <1>2, <1>4, <1>5, <1>6

(* Every step of the session is a step of FileRestore, or stutters. *)
LEMMA RefinesStep ==
    ASSUME RestoreInv, [Next]_vars
    PROVE  [FR!Next]_<<File, recipe.totalChunkNum, output, status>>
  <1>0. recipe' = recipe => File' = File
    BY FileSame
  <1>1. CASE WriterPop
    <2>1. /\ status = "running" /\ UNCHANGED <<recipe, status>>
          /\ outputMQ # <<>> => output' = Append(output, Head(outputMQ))
          /\ outputMQ = <<>> => output' = output
      BY <1>1 DEF WriterPop, server
    <2>2. CASE outputMQ = <<>>
      BY <1>0, <2>1, <2>2
    <2>3. CASE outputMQ # <<>>
      <3>1. Len(output) < Len(File) /\ Head(outputMQ) = File[Len(output) + 1]
        BY <2>3, NextWritten
      <3>2. FR!WriteNext
        BY <1>0, <2>1, <2>3, <3>1 DEF FR!WriteNext
      <3> QED  BY <3>2 DEF FR!Next
    <2> QED  BY <2>2, <2>3
  <1>2. CASE JoinThreads
    <2>1. /\ retriever = "done" /\ writer = "done" /\ status = "running"
          /\ status' \in {"complete", "failed"} /\ UNCHANGED <<recipe, output>>
      BY <1>2 DEF JoinThreads, server
    <2>2. output = File /\ Len(output) = recipe.totalChunkNum
      BY <2>1, AllWritten
    <2>3. CASE status' = "complete"
      <3>1. FR!Complete
        BY <1>0, <2>1, <2>2, <2>3 DEF FR!Complete
      <3> QED  BY <3>1 DEF FR!Next
    <2>4. CASE status' = "failed"
      <3>1. FR!Fail
        BY <1>0, <2>1, <2>4 DEF FR!Fail
      <3> QED  BY <3>1 DEF FR!Next
    <2> QED  BY <2>1, <2>3, <2>4
  <1>3. CASE ConnectionFails \/ CompareCount \/ ClientStops
    <2>1. /\ status = "running" /\ status' \in {"running", "failed"} /\ UNCHANGED <<recipe, output>>
      BY <1>3 DEF ConnectionFails, CompareCount, ClientStops, server
    <2>2. CASE status' = "running"
      BY <1>0, <2>1, <2>2
    <2>3. CASE status' = "failed"
      <3>1. FR!Fail
        BY <1>0, <2>1, <2>3 DEF FR!Fail
      <3> QED  BY <3>1 DEF FR!Next
    <2> QED  BY <2>1, <2>2, <2>3
  <1>4. CASE \/ RestoreLogin \/ SendReady \/ RecvMessage \/ PushChunk \/ NextMessage \/ Finish
             \/ FinishReturns \/ SetDone \/ WriterCheck
    <2>1. UNCHANGED <<recipe, output, status>>
      BY <1>4 DEF RestoreLogin, SendReady, RecvMessage, PushChunk, NextMessage, Finish,
         FinishReturns, SetDone, WriterCheck, server
    <2> QED  BY <1>0, <2>1
  <1>5. CASE OptThread \/ Decoder \/ ServerStops \/ Ended \/ UNCHANGED vars
    <2>1. CASE OptThread \/ ServerStops \/ Ended \/ UNCHANGED vars
      <3>1. UNCHANGED <<recipe, client>>
        BY <2>1 DEF OptThread, SendLoginResponse, SendLoginResponseFails, ServerStops, Ended, vars,
           server
      <3> QED  BY <1>0, <3>1 DEF client
    <2>2. CASE Decoder
      <3>1. UNCHANGED <<recipe, client>>
        BY <2>2 DEF Decoder, RecvReady, RecvReadyFails, ReadRecipe, ParseEntry, FetchFromCache,
           FetchFromFile, FetchFails, RecoverKeep, RecoverSend, TailFetch, TailSend, SendFails, WaitClose
      <3> QED  BY <1>0, <3>1 DEF client
    <2> QED  BY <1>0, <1>5, <2>1, <2>2
  <1> QED  BY <1>1, <1>2, <1>3, <1>4, <1>5 DEF Next, Retriever, Writer

(* The session implements FileRestore, for every recipe and every size:      *)
(* whatever stops when, the output is a beginning of the file, and a restore *)
(* that is reported complete has written all of it.                          *)
THEOREM RestoreImplements == Spec => ImplementsFileRestore
  <1>1. Init => FR!Init
    BY DEF Init, FR!Init
  <1>2. RestoreInv /\ [Next]_vars => [FR!Next]_<<File, recipe.totalChunkNum, output, status>>
    BY RefinesStep
  <1> QED  BY <1>1, <1>2, RestoreInvHolds, PTL DEF Spec, ImplementsFileRestore, FR!Spec
=============================================================================
