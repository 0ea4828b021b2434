------------------------------ MODULE MCPrCache -----------------------------
(* Model checking of PrCache: process ids and executables may be exchanged. *)
EXTENDS PrCache, TLC

Symmetry == Permutations(Pid) \cup Permutations(Exe)
=============================================================================
