------------------------------ MODULE TopKIndex ------------------------------
(***************************************************************************)
(* What the top-k index of the enclave promises: a map from fingerprints    *)
(* to items with a frequency, of at most TopThreshold entries, that gives   *)
(* up an entry of minimal frequency when a new one is put into a full map.  *)
(* FreqUpload uses it; EntryHeap, the array heap of the code, implements    *)
(* it.                                                                      *)
(***************************************************************************)
EXTENDS Integers, FiniteSetsExt, Functions

CONSTANT TopThreshold   \* topThreshold_, the capacity of the index
VARIABLE topK           \* insideDedupIndex_: fingerprint -> item

(* A map, an index or a directory of files with the entry k set to v. *)
Put(f, k, v) == [n \in DOMAIN f \cup {k} |-> IF n = k THEN v ELSE f[n]]

TopKSize == Cardinality(DOMAIN topK)

(* Seeded fault: the comparison of the heap is inverted. *)
TopEntryMax == Max({topK[fp].chunkFreq : fp \in DOMAIN topK})

(* EcallEntryHeap::TopEntry, the smallest frequency in the heap. *)
TopEntry == Min({topK[fp].chunkFreq : fp \in DOMAIN topK})

CheckIfAddToHeap(chunkFreq) ==
    IF TopKSize < TopThreshold THEN TRUE ELSE chunkFreq >= TopEntry

(* Pop removes some entry of minimal frequency: which one among equals      *)
(* depends on the layout of the heap array.                                 *)
PopChoices ==
    IF TopKSize = TopThreshold
    THEN {{fp} : fp \in {f \in DOMAIN topK : topK[f].chunkFreq = TopEntry}}
    ELSE {{}}

(* Seeded fault: the frequency is added to the old one. *)
UpdateInsideIndexFreqAdd(fp, chunkFreq) ==
    /\ fp \in DOMAIN topK
    /\ topK' = [topK EXCEPT ![fp].chunkFreq = @ + chunkFreq]

UpdateInsideIndexFreq(fp, chunkFreq) ==
    /\ fp \in DOMAIN topK
    /\ topK' = [topK EXCEPT ![fp].chunkFreq = chunkFreq]

AddChunkToHeap(fp, chunkAddr, chunkFreq) ==
    /\ fp \notin DOMAIN topK
    /\ \E popped \in PopChoices :
         topK' = Put(Restrict(topK, DOMAIN topK \ popped), fp,
                     [address |-> chunkAddr, chunkFreq |-> chunkFreq])

(* A chunk with its frequency is offered to the index, as ProcessOneBatch    *)
(* does for every entry of a batch.                                         *)
Offer(fp, chunkAddr, chunkFreq) ==
    /\ CheckIfAddToHeap(chunkFreq)
    /\ \/ UpdateInsideIndexFreq(fp, chunkFreq)
       \/ AddChunkToHeap(fp, chunkAddr, chunkFreq)
=============================================================================
