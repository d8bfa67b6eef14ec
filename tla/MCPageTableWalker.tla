------------------------- MODULE MCPageTableWalker -------------------------
(* PageTableWalker for TLC: three levels of two entries. *)
EXTENDS PageTableWalker

MCPsclWays == [i \in 2..Levels |-> IF i = 2 THEN 2 ELSE 1]
=============================================================================
