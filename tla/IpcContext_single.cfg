\* One reader thread, timeouts and store changes: answers of calls that
\* found the connection idle are right.
CONSTANTS
    c1 = c1
    c2 = c2
    t1 = t1
    t2 = t2
    h1 = h1
    h2 = h2
    NoValue = NoValue
    Conns = {c1}
    Threads = {t1}
    ConnOf <- MC_ConnOfSingle
    Hashes <- MC_Hashes
    MaxProbes = 5
    MaxCalls = 3
    MaxTimeouts = 1
    MaxChanges = 2
SYMMETRY MC_Symmetry
SPECIFICATION Spec
INVARIANTS
    TypeOK
    CleanCallAnswersCorrect
