\* Headers arriving in any order, failing at the first `?` or the second,
\* and restarts between calls: no predecessor is forgotten.
CONSTANTS
    g = g
    b1 = b1
    b2 = b2
    b3 = b3
    Blocks <- MC_Blocks
    Genesis = g
    Pred <- MC_Pred
    FailPoints = {"contains", "block", "none"}
    MaxHeaders = 4
    MaxRestarts = 2
SPECIFICATION Spec
INVARIANT NoMissingBlockForgotten
