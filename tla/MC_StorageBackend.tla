------------------------- MODULE MC_StorageBackend -------------------------
EXTENDS StorageBackend

CONSTANTS k1, k2, k3

MC_Keys == {k1, k2, k3}
\* One batch of three entries: the contract quantifies over the batches, so
\* a second batch could make the store left by a wrong loop look like one
\* of its prefixes.  Single puts and deletes overlap it instead.
MC_Batches == {<<k1, k2, k3>>}
=============================================================================
