--------------------------- MODULE BackendContract ---------------------------
(***************************************************************************)
(* The Backend Contract and GC extension of spec.md sections 4.1, 4.2 and *)
(* 8, as atomic operations on the store of one backend.  Content          *)
(* addressing: a key is stored with its one value, so the store is a set  *)
(* of keys.  put_batch applies, in list order, some prefix of its entries *)
(* (the weaker guarantee the spec keeps).  An engine that is not garbage  *)
(* collected has no-op retain, mark_reused and start_new_cycle.           *)
(***************************************************************************)
EXTENDS Naturals, Sequences, SequencesExt

CONSTANTS Keys, Batches, GcCapable

VARIABLES kv, reused

Init == kv = {} /\ reused = {}

Put(k) == kv' = kv \cup {k} /\ UNCHANGED reused

Delete(k) == kv' = kv \ {k} /\ UNCHANGED reused

PutBatch(b) ==
    /\ \E n \in 0..Len(b) : kv' = kv \cup ToSet(SubSeq(b, 1, n))
    /\ UNCHANGED reused

MarkReused(k) ==
    /\ reused' = IF GcCapable THEN reused \cup {k} ELSE reused
    /\ UNCHANGED kv

\* Removes every key neither kept nor reused; a kept key always survives.
Retain(keep) ==
    /\ kv' = IF GcCapable THEN kv \cap (keep \cup reused) ELSE kv
    /\ UNCHANGED reused

StartNewCycle ==
    /\ reused' = IF GcCapable THEN {} ELSE reused
    /\ UNCHANGED kv

Next ==
    \/ \E k \in Keys : Put(k) \/ Delete(k) \/ MarkReused(k)
    \/ \E b \in Batches : PutBatch(b)
    \/ \E keep \in SUBSET Keys : Retain(keep)
    \/ StartNewCycle

Spec == Init /\ [][Next]_<<kv, reused>>
=============================================================================
