------------------------------ MODULE MC_GcReads ------------------------------
EXTENDS GcReads, TLC

CONSTANTS k1, k2, k3, r0, r1, r2, p1, p2

MC_Keys == {k1, k2, k3}
MC_Roots == {r0, r1, r2}
\* Trees that share keys, as consecutive Merkle trees do.
MC_Tree == (r0 :> {k1, k2}) @@ (r1 :> {k2, k3}) @@ (r2 :> {k1, k3})
=============================================================================
