--------------------------- MODULE MC_BlockState ----------------------------
EXTENDS BlockState

CONSTANTS g, b1, b2, b3

\* A chain g <- b1 <- b2 <- b3 whose headers may arrive in any order.
MC_Blocks == {g, b1, b2, b3}
MC_Pred == (b1 :> g) @@ (b2 :> b1) @@ (b3 :> b2)
=============================================================================
