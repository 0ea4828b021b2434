---------------------------- MODULE MCFioBuffer -----------------------------
(* Model checking of FioBuffer: the chars are interchangeable.             *)
EXTENDS FioBuffer, TLC

Symmetry == Permutations(Char)
=============================================================================
