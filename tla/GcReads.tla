------------------------------- MODULE GcReads -------------------------------
(***************************************************************************)
(* The writer's garbage collector composed with readers in other          *)
(* processes.  The writer's store is the GC-capable BackendContract: the  *)
(* commit driver writes the tree of each new root, retain keeps the set   *)
(* the tree collaborator supplies, start_new_cycle opens the next cycle.  *)
(* A reader traverses the tree of a committed root key by key, each key a *)
(* get_entry over IPC answered by the worker from the live store.         *)
(* The keep set is the tree of the head root: GC state is writer-local   *)
(* and neither the code nor spec.md reports the roots readers traverse.   *)
(***************************************************************************)
EXTENDS Naturals, SequencesExt

CONSTANTS
    Keys,           \* entry hashes
    Roots,          \* committed Merkle roots
    Tree,           \* Tree[r]: the keys reachable from root r
    Genesis,        \* the root the store starts with
    Readers,        \* reader processes
    NoRoot,         \* a reader that is not traversing
    MaxCommits      \* bound: roots committed

ASSUME Tree \in [Roots -> SUBSET Keys] /\ Genesis \in Roots /\ NoRoot \notin Roots

VARIABLES
    kv,        \* keys stored by the writer's backend
    reused,    \* reused-key set of the current cycle
    head,      \* the last committed root
    commits,   \* roots committed so far
    readRoot,  \* readRoot[p]: the root reader p traverses
    toRead     \* toRead[p]: keys of that tree p has still to fetch

vars == <<kv, reused, head, commits, readRoot, toRead>>

Store == INSTANCE BackendContract
             WITH Batches <- {SetToSeq(Tree[r]) : r \in Roots}, GcCapable <- TRUE

Init ==
    /\ kv = Tree[Genesis] /\ reused = {}
    /\ head = Genesis /\ commits = 0
    /\ readRoot = [p \in Readers |-> NoRoot] /\ toRead = [p \in Readers |-> {}]

\* The commit driver stores the whole tree of a new root through put_batch.
Commit(r) ==
    /\ commits < MaxCommits /\ r # head
    /\ Store!PutBatch(SetToSeq(Tree[r])) /\ Tree[r] \subseteq kv'
    /\ head' = r /\ commits' = commits + 1
    /\ UNCHANGED <<readRoot, toRead>>

\* A key of the head tree that was not rewritten is marked reused.
MarkReused(k) ==
    /\ k \in Tree[head]
    /\ Store!MarkReused(k)
    /\ UNCHANGED <<head, commits, readRoot, toRead>>

\* retain(keep): the sweep, with the keep set the tree collaborator
\* supplies, the tree of the last committed root.
Retain ==
    /\ Store!Retain(Tree[head])
    /\ UNCHANGED <<head, commits, readRoot, toRead>>

StartNewCycle ==
    /\ Store!StartNewCycle
    /\ UNCHANGED <<head, commits, readRoot, toRead>>

\* Reader p starts on the tree of the last committed root.
BeginRead(p) ==
    /\ readRoot[p] = NoRoot
    /\ readRoot' = [readRoot EXCEPT ![p] = head]
    /\ toRead' = [toRead EXCEPT ![p] = Tree[head]]
    /\ UNCHANGED <<kv, reused, head, commits>>

\* get_entry(k): the worker answers from the store as it is now.  Only a
\* key found lets the traversal go on; Ok(None) for a key of the tree is
\* what ReadTreeStored rules out.
GetEntry(p, k) ==
    /\ k \in toRead[p] /\ k \in kv
    /\ toRead' = [toRead EXCEPT ![p] = @ \ {k}]
    /\ UNCHANGED <<kv, reused, head, commits, readRoot>>

EndRead(p) ==
    /\ readRoot[p] # NoRoot /\ toRead[p] = {}
    /\ readRoot' = [readRoot EXCEPT ![p] = NoRoot]
    /\ UNCHANGED <<kv, reused, head, commits, toRead>>

Next ==
    \/ \E r \in Roots : Commit(r)
    \/ \E k \in Keys : MarkReused(k)
    \/ Retain \/ StartNewCycle
    \/ \E p \in Readers : BeginRead(p) \/ EndRead(p) \/ \E k \in Keys : GetEntry(p, k)

Spec == Init /\ [][Next]_vars

-----------------------------------------------------------------------------

\* No blob a reader still has to fetch is reclaimed: retain never deletes
\* a key of the tree an in-flight traversal is reading (spec.md section 1),
\* across commits, reuse marks and new cycles.
ReadTreeStored ==
    \A p \in Readers : toRead[p] \subseteq kv
=============================================================================
