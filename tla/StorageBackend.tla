--------------------------- MODULE StorageBackend ---------------------------
(***************************************************************************)
(* The StorageBackend trait of src/storage/src/storage_backend.rs as used *)
(* by one writer: its default put_batch, a loop of put calls that stops at *)
(* the first error, and its default no-op retain, mark_reused,             *)
(* start_new_cycle and wait_for_gc_finish.  The GC-capable engine, which  *)
(* overrides the defaults, is not under src/ and is modelled from spec.md  *)
(* 4.2 with a synchronous sweep.  Every method takes &mut self or &self   *)
(* of the one owner, so the calls do not interleave; a put_batch is a      *)
(* sequence of steps, one per put.  A put may fail with an engine fault.  *)
(***************************************************************************)
EXTENDS Naturals, Sequences, SequencesExt

CONSTANTS
    Keys,        \* EntryHash values (a key is stored with its one value)
    Batches,     \* batches given to put_batch
    GcCapable,   \* the engine overrides the GC defaults
    MaxOps       \* bound: operations called

VARIABLES
    kv,          \* keys in the store
    reused,      \* the reused-key set of the current cycle
    batch,       \* entries of the running put_batch not yet put
    inBatch,     \* a put_batch call is running
    before,      \* the store when the running put_batch began
    ops          \* operations called so far

vars == <<kv, reused, batch, inBatch, before, ops>>

TypeOK ==
    /\ kv \subseteq Keys /\ reused \subseteq Keys /\ batch \in Seq(Keys)
    /\ inBatch \in BOOLEAN /\ before \subseteq Keys /\ ops \in 0..MaxOps

Init ==
    /\ kv = {} /\ reused = {} /\ batch = <<>> /\ inBatch = FALSE /\ before = {}
    /\ ops = 0

\* A call starts when no put_batch is running.
Call == ~inBatch /\ ops < MaxOps /\ ops' = ops + 1

\* put: Ok(true/false) with the key stored, or an engine fault.
Put(k) ==
    /\ Call /\ (kv' = kv \cup {k} \/ kv' = kv)
    /\ UNCHANGED <<reused, batch, inBatch, before>>

\* merge: with content addressing the key's one value is merged, so the
\* store changes as for put (an engine fault leaves it unchanged).
Merge(k) == Put(k)

\* delete: Ok with the key removed, or an engine fault.
Delete(k) ==
    /\ Call /\ (kv' = kv \ {k} \/ kv' = kv)
    /\ UNCHANGED <<reused, batch, inBatch, before>>

BeginPutBatch(b) ==
    /\ Call /\ inBatch' = TRUE /\ batch' = b /\ before' = kv
    /\ UNCHANGED <<kv, reused>>

\* Variant that goes on with the next entry after a failed put.
PutBatchSkipFailed ==
    /\ inBatch /\ batch # <<>>
    /\ kv' \in {kv \cup {Head(batch)}, kv} /\ batch' = Tail(batch)
    /\ UNCHANGED <<reused, inBatch, before, ops>>

\* One turn of `for (k, v) in batch { self.put(&k, v)?; }`: the put stores
\* the entry, or fails and `?` returns the error, ending the call.
PutBatchStep ==
    /\ inBatch /\ batch # <<>>
    /\ \/ kv' = kv \cup {Head(batch)} /\ batch' = Tail(batch) /\ UNCHANGED inBatch
       \/ UNCHANGED kv /\ batch' = <<>> /\ inBatch' = FALSE
    /\ UNCHANGED <<reused, before, ops>>

\* The loop has put every entry: Ok(()).
PutBatchDone ==
    /\ inBatch /\ batch = <<>> /\ inBatch' = FALSE
    /\ UNCHANGED <<kv, reused, batch, before, ops>>

\* mark_reused: a no-op by default; a GC engine records the key (spec 4.2).
MarkReused(k) ==
    /\ Call /\ reused' = IF GcCapable THEN reused \cup {k} ELSE reused
    /\ UNCHANGED <<kv, batch, inBatch, before>>

\* retain: Ok(()) by default; a GC engine removes every key neither kept
\* nor reused (spec 4.2).
Retain(keep) ==
    /\ Call /\ kv' = IF GcCapable THEN kv \cap (keep \cup reused) ELSE kv
    /\ UNCHANGED <<reused, batch, inBatch, before>>

\* start_new_cycle: a no-op by default; a GC engine clears the reused set.
StartNewCycle ==
    /\ Call /\ reused' = IF GcCapable THEN {} ELSE reused
    /\ UNCHANGED <<kv, batch, inBatch, before>>

Next ==
    \/ \E k \in Keys : Put(k) \/ Merge(k) \/ Delete(k) \/ MarkReused(k)
    \/ \E b \in Batches : BeginPutBatch(b)
    \/ PutBatchStep \/ PutBatchDone
    \/ \E keep \in SUBSET Keys : Retain(keep)
    \/ StartNewCycle
    \/ ops = MaxOps /\ ~inBatch /\ UNCHANGED vars

Spec == Init /\ [][Next]_vars

-----------------------------------------------------------------------------

\* The backend implements the contract of spec 4.1/4.2: while a put_batch
\* runs the contract still sees the store it began with, and when the loop
\* ends, by Ok or by the `?` of a failed put, it has applied a prefix of the
\* batch in list order, and nothing else.
Contract == INSTANCE BackendContract WITH kv <- IF inBatch THEN before ELSE kv

ImplementsContract == Contract!Spec
=============================================================================
