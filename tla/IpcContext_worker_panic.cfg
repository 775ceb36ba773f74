\* One reader with one thread: a request that reaches the worker before the
\* writer has initialised its context index makes the worker panic on the
\* unwrap, while the reader stays connected.
CONSTANTS
    c1 = c1
    c2 = c2
    t1 = t1
    t2 = t2
    h1 = h1
    h2 = h2
    NoValue = NoValue
    Conns = {c1}
    Threads = {t1}
    ConnOf <- MC_ConnOfSingle
    Hashes <- MC_OneHash
    MaxProbes = 5
    MaxCalls = 1
    MaxTimeouts = 0
    MaxChanges = 0
SPECIFICATION Spec
INVARIANTS
    WorkerEndsOnlyWhenReaderGone
