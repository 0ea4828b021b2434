------------------------------ MODULE MCVfnMap ------------------------------
(* Model checking of VfnMap: processes and names are interchangeable.      *)
EXTENDS VfnMap, TLC

Symmetry == Permutations(Proc) \cup Permutations(Name)

\* FilesFound says nothing of a state that has been harmed, and harm is never
\* undone: the states after it need not be visited.
Unharmed == ~broken /\ harm = "none"
=============================================================================
