\* The default put_batch and a GC-capable engine (spec 4.2) against the
\* Backend Contract: batches that fail part way, puts that fail, retain.
CONSTANTS
    k1 = k1
    k2 = k2
    k3 = k3
    Keys <- MC_Keys
    Batches <- MC_Batches
    GcCapable = TRUE
    MaxOps = 4
SPECIFICATION Spec
PROPERTY ImplementsContract
