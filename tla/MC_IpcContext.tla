--------------------------- MODULE MC_IpcContext ---------------------------
(* Model-checking instance of IpcContext: one reader process with one     *)
(* thread, or with two threads sharing its client.                       *)
EXTENDS IpcContext, TLC

CONSTANTS c1, c2, t1, t2, h1, h2

MC_Hashes == {h1, h2}
\* Liveness does not depend on which key is read.
MC_OneHash == {h1}
\* A reader with a single thread calling the backend.
MC_ConnOfSingle == [t \in {t1} |-> c1]
\* A reader whose two threads share its client.
MC_ConnOfShared == [t \in {t1, t2} |-> c1]
\* Two reader processes with one thread each.
\* Hashes are only compared for equality: permuting them is sound for
\* invariants.
MC_Symmetry == Permutations(MC_Hashes)
=============================================================================
