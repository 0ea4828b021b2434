------------------------------ MODULE ProcPool ------------------------------
(***************************************************************************)
(* What a cache of connected subprocesses promises to the tasks that run   *)
(* in them: a task is started in a process nobody else uses; the process   *)
(* is its own until it gives it back; only processes that are not in use,  *)
(* or that have died, are disconnected.                                    *)
(***************************************************************************)
CONSTANT Proc       \* the subprocesses

VARIABLES running,  \* connected, with a task in them
          idle,     \* connected, without
          dead      \* those of either kind that have died

pool == <<running, idle, dead>>

Init == running = {} /\ idle = {} /\ dead = {}

\* The dead that are found out in a step (D) are disconnected in it.
Reaped(D) == D \subseteq dead

Connect(p, D) ==
    /\ p \notin running \cup idle
    /\ Reaped(D)
    /\ running' = running \ D /\ idle' = (idle \cup {p}) \ D /\ dead' = dead \ D

Start(p, D) ==
    /\ p \in idle \ D
    /\ Reaped(D)
    /\ running' = (running \cup {p}) \ D
    /\ idle' = (idle \ {p}) \ D
    /\ dead' = dead \ D

GiveBack(P, D) ==
    /\ P \subseteq running
    /\ Reaped(D)
    /\ running' = (running \ P) \ D
    /\ idle' = (idle \cup P) \ D
    /\ dead' = dead \ D

Disconnect(P, D) ==
    /\ P \subseteq idle
    /\ Reaped(D)
    /\ running' = running \ D /\ idle' = idle \ (P \cup D) /\ dead' = dead \ (P \cup D)

Crash(p) ==
    /\ p \in running \cup idle
    /\ dead' = dead \cup {p}
    /\ UNCHANGED <<running, idle>>

Next ==
    \/ \E p \in Proc : Crash(p)
    \/ \E D \in SUBSET dead :
          \/ \E p \in Proc : Connect(p, D) \/ Start(p, D)
          \/ \E P \in SUBSET running : GiveBack(P, D)
          \/ \E P \in SUBSET idle : Disconnect(P, D)

Spec == Init /\ [][Next]_pool
=============================================================================
