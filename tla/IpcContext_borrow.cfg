\* Two threads share one client: both pass the unsynchronised borrow check,
\* and the drops of their borrows leave the flag at 1 with both threads idle.
CONSTANTS
    c1 = c1
    c2 = c2
    t1 = t1
    t2 = t2
    h1 = h1
    h2 = h2
    NoValue = NoValue
    Conns = {c1}
    Threads = {t1, t2}
    ConnOf <- MC_ConnOfShared
    Hashes <- MC_Hashes
    MaxProbes = 5
    MaxCalls = 1
    MaxTimeouts = 0
    MaxChanges = 0
SPECIFICATION Spec
INVARIANTS
    ClientUsableWhenIdle
