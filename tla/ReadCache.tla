------------------------------ MODULE ReadCache ------------------------------
(***************************************************************************)
(* ReadCache, the container cache of one restore session: a pool of        *)
(* preallocated buffers and an LRU list (lru11::Cache with elasticity 0)    *)
(* from container names to pool indexes.  A restore (module Restore) makes  *)
(* the steps; this module defines the cache's state and its operations.     *)
(*                                                                         *)
(* A container is the sequence of chunks stored in it, an offset a position *)
(* in it.  A buffer has SlotNum positions; copying a shorter container into *)
(* it leaves the rest as it was.                                            *)
(***************************************************************************)
EXTENDS Integers, Sequences

CONSTANTS
    ContainerID,  \* the container names
    Chunk,        \* the chunks
    NoChunk,      \* what a buffer holds before anything is copied into it
    Body,         \* Body[c]: the chunks stored in container c, in order
    SlotNum,      \* MAX_CONTAINER_SIZE, in chunks
    CacheSize     \* readCacheSize_ of the configuration

(* A cache of size 0 makes pruneValue read the last key of an empty list.   *)
ASSUME CacheAssumption ==
    /\ SlotNum \in Nat
    /\ Body \in [ContainerID -> Seq(Chunk)]
    /\ \A c \in ContainerID : Len(Body[c]) <= SlotNum
    /\ CacheSize \in Nat \ {0}

VARIABLES
    keys,          \* keys_, the names in the cache, most recently used first
    slotOf,        \* cache_: name -> index in the pool
    pool,          \* containerPool_
    currentIndex   \* currentIndex_, the first index that was never used

cacheVars == <<keys, slotOf, pool, currentIndex>>

Buffer      == [1 .. SlotNum -> Chunk \cup {NoChunk}]
EmptyBuffer == [o \in 1 .. SlotNum |-> NoChunk]

CacheInit ==
    /\ keys = <<>> /\ slotOf = <<>>
    /\ pool = [n \in 0 .. CacheSize - 1 |-> EmptyBuffer]
    /\ currentIndex = 0

(* memcpy or read of a container into a buffer. *)
CopyTo(buffer, body) ==
    [o \in 1 .. SlotNum |-> IF o <= Len(body) THEN body[o] ELSE buffer[o]]

ExistsInCache(name) == name \in DOMAIN slotOf

(* splice: name, now at some position p, becomes the first key. *)
ToFront(name) ==
    LET p == CHOOSE n \in DOMAIN keys : keys[n] = name
    IN  [n \in 1 .. Len(keys) |-> IF n = 1 THEN name
                                ELSE IF n <= p THEN keys[n - 1] ELSE keys[n]]

(* ReadFromCache: the caller copies pool[slotOf[name]]. *)
ReadFromCache(name) ==
    /\ keys' = ToFront(name)
    /\ UNCHANGED <<slotOf, pool, currentIndex>>

(* The key that pruneValue looks up and that prune removes. *)
LastKey == keys[Len(keys)]

(* Seeded fault: pruneValue gives the index of the first key, while insert  *)
(* removes the last one.                                                    *)
PruneValueFront == slotOf[keys[1]]

(* pruneValue: the pool index of the least recently used name. *)
PruneValue == slotOf[LastKey]

(* emplace_front, of which the first size keys stay. *)
Prepend(name, size) ==
    [n \in 1 .. size |-> IF n = 1 THEN name ELSE keys[n - 1]]

(* insert of a name that is not in the cache, at its limit: prune then       *)
(* removes the last key.                                                    *)
InsertAndPrune(name, n) ==
    /\ keys' = Prepend(name, Len(keys))
    /\ slotOf' = [k \in (DOMAIN slotOf \ {LastKey}) \cup {name} |->
                    IF k = name THEN n ELSE slotOf[k]]

InsertOnly(name, n) ==
    /\ keys' = Prepend(name, Len(keys) + 1)
    /\ slotOf' = [k \in DOMAIN slotOf \cup {name} |->
                    IF k = name THEN n ELSE slotOf[k]]

(* InsertToCache of a container that is not in the cache. *)
InsertToCache(name) ==
    IF Len(keys) + 1 > CacheSize
    THEN /\ pool' = [pool EXCEPT ![PruneValue] = CopyTo(@, Body[name])]
         /\ InsertAndPrune(name, PruneValue)
         /\ UNCHANGED currentIndex
    ELSE /\ pool' = [pool EXCEPT ![currentIndex] = CopyTo(@, Body[name])]
         /\ InsertOnly(name, currentIndex)
         /\ currentIndex' = currentIndex + 1
-----------------------------------------------------------------------------
CacheTypeOK ==
    /\ keys \in Seq(ContainerID)
    /\ DOMAIN slotOf \subseteq ContainerID
    /\ \A c \in DOMAIN slotOf : slotOf[c] \in 0 .. CacheSize - 1
    /\ pool \in [0 .. CacheSize - 1 -> Buffer]
    /\ currentIndex \in 0 .. CacheSize

(* A cached name leads to a pool buffer that begins with the chunks of that *)
(* container and that no other name leads to, whatever was evicted before    *)
(* (ReadCache::InsertToCache reuses the buffer of the name that              *)
(* lru11::Cache::insert removes afterwards).                                 *)
CacheSound ==
    /\ \A c \in DOMAIN slotOf : \A o \in 1 .. Len(Body[c]) :
          pool[slotOf[c]][o] = Body[c][o]
    /\ \A c, d \in DOMAIN slotOf : slotOf[c] = slotOf[d] => c = d

(* The list and the map hold the same names, each once, never more than the *)
(* pool has buffers; pool indexes below currentIndex_ are all in use.        *)
KeysMatch ==
    /\ \A c \in ContainerID : c \in DOMAIN slotOf <=> \E n \in DOMAIN keys : keys[n] = c
    /\ \A m, n \in DOMAIN keys : keys[m] = keys[n] => m = n
    /\ Len(keys) = currentIndex
    /\ currentIndex <= CacheSize
    /\ \A c \in DOMAIN slotOf : slotOf[c] < currentIndex
=============================================================================
