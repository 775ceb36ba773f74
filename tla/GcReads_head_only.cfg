\* One reader, three roots whose trees overlap; the keep set is the head
\* tree only, as the tree collaborator knows of no reader.
CONSTANTS
    k1 = k1
    k2 = k2
    k3 = k3
    r0 = r0
    r1 = r1
    r2 = r2
    p1 = p1
    p2 = p2
    NoRoot = NoRoot
    Keys <- MC_Keys
    Roots <- MC_Roots
    Tree <- MC_Tree
    Genesis = r0
    Readers = {p1}
    MaxCommits = 3

SPECIFICATION Spec
INVARIANTS
    ReadTreeStored
