----------------------------- MODULE ChildProcs -----------------------------
(***************************************************************************)
(* What the kernel promises to a program that runs others: it may have     *)
(* several open and close them in any order, and is told how each of them  *)
(* ended.                                                                  *)
(***************************************************************************)
CONSTANTS Proc,         \* the processes
          Code          \* what the program is told of a process that ended

VARIABLES held,         \* the processes that are open
          state,        \* whether each of them runs, or how it ended
          result        \* the process that was closed last, and its status

table == <<held, state, result>>

Init == held = {} /\ state \in [Proc -> {"none"}] /\ result \in {"none"} \X Code

Open(p) ==
    /\ p \notin held
    /\ held' = held \cup {p}
    /\ state' = [state EXCEPT ![p] = "running"]
    /\ UNCHANGED result

End(p, c) ==
    /\ state[p] = "running"
    /\ state' = [state EXCEPT ![p] = c]
    /\ UNCHANGED <<held, result>>

Close(p) ==
    /\ p \in held /\ state[p] \in Code
    /\ held' = held \ {p}
    /\ state' = [state EXCEPT ![p] = "none"]
    /\ result' = <<p, state[p]>>

\* The program does not want to know.
Disown(p) ==
    /\ p \in held
    /\ held' = held \ {p}
    /\ state' = [state EXCEPT ![p] = "none"]
    /\ UNCHANGED result

Next == \E p \in Proc : \/ Open(p) \/ Close(p) \/ Disown(p)
                        \/ \E c \in Code : End(p, c)

Spec == Init /\ [][Next]_table
=============================================================================
