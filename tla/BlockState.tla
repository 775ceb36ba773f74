----------------------------- MODULE BlockState -----------------------------
(***************************************************************************)
(* BlockState of src/shell/src/block_state.rs: received block headers are *)
(* stored in BlockStorage and BlockMetaStorage, predecessors not yet       *)
(* stored are queued in the in-memory missing_blocks, which the caller     *)
(* drains to request them, and hydrate() rebuilds the queue from the meta  *)
(* storage after a restart.                                                *)
(*                                                                         *)
(* BlockMetaStorage is not under src/.  Its put_block_header is taken to  *)
(* merge, in one write, Meta{predecessor: Some(p)} for the block and       *)
(* Meta{predecessor: None, successor: Some(b)} for its predecessor p, a    *)
(* merge keeping a predecessor already known.  meta[b] is "absent", "none" *)
(* or "some" accordingly.                                                  *)
(***************************************************************************)
EXTENDS Naturals, Sequences, SequencesExt

CONSTANTS
    Blocks,        \* block hashes
    Genesis,       \* the block the storage starts with
    Pred,          \* Pred[b]: header.predecessor of block b
    FailPoints,    \* where process_block_header may stop (see below)
    MaxHeaders,    \* bound: headers processed
    MaxRestarts    \* bound: restarts of the node

ASSUME Genesis \in Blocks /\ Pred \in [Blocks \ {Genesis} -> Blocks]

\* process_block_header stops at the first failing `?`, or the process dies
\* there: "contains" (nothing done), "block" (predecessor queued, header not
\* stored), "meta" (header stored, meta not), "none" (all done).
Points == {"contains", "block", "meta", "none"}
ASSUME FailPoints \subseteq Points

VARIABLES
    stored,     \* hashes in BlockStorage
    meta,       \* BlockMetaStorage records
    missing,    \* missing_blocks
    drained,    \* hashes handed to the caller by drain_missing_blocks
    hydrated,   \* hydrate() has run since the last start
    headers,    \* headers processed
    restarts    \* restarts so far

vars == <<stored, meta, missing, drained, hydrated, headers, restarts>>

Init ==
    /\ stored = {Genesis}
    /\ meta = [b \in Blocks |-> IF b = Genesis THEN "some" ELSE "absent"]
    /\ missing = <<>> /\ drained = {} /\ hydrated = TRUE
    /\ headers = 0 /\ restarts = 0

\* push_missing_block: queue the hash unless BlockStorage contains it.
PushMissingBlock(h) == IF h \in stored THEN missing ELSE Append(missing, h)

\* BlockMetaStorage::put_block_header (see the module comment).
PutMeta(b) ==
    [meta EXCEPT ![b] = "some", ![Pred[b]] = IF @ = "absent" THEN "none" ELSE @]

\* process_block_header for block b, up to failure point p.
ProcessBlockHeader(b, p) ==
    /\ headers < MaxHeaders /\ headers' = headers + 1
    /\ missing' = IF p = "contains" THEN missing ELSE PushMissingBlock(Pred[b])
    /\ stored' = IF p \in {"meta", "none"} THEN stored \cup {b} ELSE stored
    /\ meta' = IF p = "none" THEN PutMeta(b) ELSE meta
    /\ UNCHANGED <<drained, hydrated, restarts>>

\* Variant draining from the second element on.
DrainSkipFirst(n) ==
    /\ missing # <<>>
    /\ drained' = drained \cup ToSet(SubSeq(missing, 2, Min({Len(missing), n})))
    /\ missing' = SubSeq(missing, Min({Len(missing), n}) + 1, Len(missing))
    /\ UNCHANGED <<stored, meta, hydrated, headers, restarts>>

\* drain_missing_blocks(n): the first min(len, n) queued hashes.  A call on
\* an empty queue changes nothing and is left out.
DrainMissingBlocks(n) ==
    /\ missing # <<>>
    /\ drained' = drained \cup ToSet(SubSeq(missing, 1, Min({Len(missing), n})))
    /\ missing' = SubSeq(missing, Min({Len(missing), n}) + 1, Len(missing))
    /\ UNCHANGED <<stored, meta, hydrated, headers, restarts>>

\* The node stops (crashes or exits) and BlockState::new starts it again:
\* the queue and what the caller had drained are lost, storage is kept.
Restart ==
    /\ restarts < MaxRestarts /\ restarts' = restarts + 1
    /\ missing' = <<>> /\ drained' = {} /\ hydrated' = FALSE
    /\ UNCHANGED <<stored, meta, headers>>

\* Variant queueing only records whose predecessor is known.
HydrateSome ==
    /\ ~hydrated /\ hydrated' = TRUE
    /\ missing' = missing \o SetToSeq({b \in Blocks : meta[b] = "some"})
    /\ UNCHANGED <<stored, meta, drained, headers, restarts>>

\* hydrate(): queue every meta record without a predecessor, in the
\* iteration order of the meta storage (any order here).
Hydrate ==
    /\ ~hydrated /\ hydrated' = TRUE
    /\ \E order \in SetToSeqs({b \in Blocks : meta[b] = "none"}) :
          missing' = missing \o order
    /\ UNCHANGED <<stored, meta, drained, headers, restarts>>

Next ==
    \/ \E b \in Blocks \ {Genesis}, p \in FailPoints : ProcessBlockHeader(b, p)
    \/ \E n \in 1..2 : DrainMissingBlocks(n)
    \/ Restart \/ Hydrate
    \/ headers = MaxHeaders /\ missing = <<>> /\ UNCHANGED vars

Spec == Init /\ [][Next]_vars

-----------------------------------------------------------------------------

\* Predecessors of stored headers that are not stored themselves.
Unknown == {Pred[b] : b \in stored \ {Genesis}} \ stored

\* No block is forgotten: once hydrate has run, every predecessor of a stored
\* header that is not stored is queued in missing_blocks or was handed to the
\* caller by drain_missing_blocks, through failures of process_block_header
\* and restarts of the node.
NoMissingBlockForgotten ==
    hydrated => Unknown \subseteq ToSet(missing) \cup drained
=============================================================================
