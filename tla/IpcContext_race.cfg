\* Two threads share one client, no timeouts: the unsynchronised RefCell
\* lets both send, and each may take the other's response.
CONSTANTS
    c1 = c1
    c2 = c2
    t1 = t1
    t2 = t2
    h1 = h1
    h2 = h2
    NoValue = NoValue
    Conns = {c1}
    Threads = {t1, t2}
    ConnOf <- MC_ConnOfShared
    Hashes <- MC_Hashes
    MaxProbes = 5
    MaxCalls = 1
    MaxTimeouts = 0
    MaxChanges = 2
SPECIFICATION Spec
INVARIANTS
    CleanCallAnswersCorrect
