----------------------------- MODULE MCFileLock -----------------------------
(* Model checking of FileLock: the processes are interchangeable.          *)
EXTENDS FileLock, TLC

Symmetry == Permutations(Proc)
=============================================================================
