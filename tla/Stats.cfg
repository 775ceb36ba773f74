\* StorageBackendStats arithmetic against exact integers, 8-bit usize.
CONSTANTS
    Width = 8
    HashSize = 32
    VecSize = 24
    Capacities = {0, 1, 3, 7}
SPECIFICATION Spec
INVARIANTS
    SubInvertsAdd
    SumMatchesReference
