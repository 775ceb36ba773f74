\* As BlockState_restart, and the meta write may fail (or the node die)
\* after the header is stored.
CONSTANTS
    g = g
    b1 = b1
    b2 = b2
    b3 = b3
    Blocks <- MC_Blocks
    Genesis = g
    Pred <- MC_Pred
    FailPoints = {"contains", "block", "meta", "none"}
    MaxHeaders = 3
    MaxRestarts = 1
SPECIFICATION Spec
INVARIANT NoMissingBlockForgotten
