\* Two threads share one client, with timeouts and crashes:
\* every call returns and every worker of a gone reader ends.
CONSTANTS
    c1 = c1
    c2 = c2
    t1 = t1
    t2 = t2
    h1 = h1
    h2 = h2
    NoValue = NoValue
    Conns = {c1}
    Threads = {t1, t2}
    ConnOf <- MC_ConnOfShared
    Hashes <- MC_Hashes
    MaxProbes = 5
    MaxCalls = 1
    MaxTimeouts = 1
    MaxChanges = 0
SPECIFICATION Spec
PROPERTIES
    CallsEventuallyReturn
    ClosedConnectionWorkerExits
