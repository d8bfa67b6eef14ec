------------------------------ MODULE MCL2Cache ------------------------------
(* L2Cache for TLC: addresses are interchangeable. *)
EXTENDS L2Cache, TLC

Interchangeable == Permutations(Addr)
=============================================================================
