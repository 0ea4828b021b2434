----------------------------- MODULE ProcTable ------------------------------
(***************************************************************************)
(* The process table of the kernel, unix/os/prwait.c, and the primitives   *)
(* that start, kill and wait for processes: zopcpr and zclcpr (zfiopr.c),  *)
(* zopdpr and zcldpr (zopdpr.c), zoscmd (zoscmd.c).                        *)
(*                                                                         *)
(* wait() of the host answers with whatever child has ended; pr_wait waits *)
(* for a particular one and keeps what it learns about the others in the   *)
(* table.  The host gives a new process an id that is not in the table.    *)
(***************************************************************************)
EXTENDS Naturals, FiniteSets

CONSTANTS Pid,              \* process ids of the host
          NoPid,            \* 0 in an entry that is free
          MAXPROCS,         \* entries
          MaxConnected,     \* MAX_CHILDPROCS: connected processes at a time
          MaxDetached,      \* MAX_BKGJOBS: detached ones
          MaxInterrupts     \* bound on the interrupts

ASSUME TableAssumption ==
    /\ NoPid \notin Pid
    /\ MAXPROCS \in Nat /\ MaxConnected \in Nat /\ MaxDetached \in Nat
    /\ MaxConnected + MaxDetached <= MAXPROCS
    /\ MaxInterrupts \in Nat

\* A process fails by its exit code; else that is 0, or a signal killed it, which
\* is the same to WEXITSTATUS.
Ends == {"ok", "fail"}

Code == {"XOK", "exit code"}
ERR == "ERR"

\* Mutant: the wait status is taken for the exit code.
WaitStatus(end) == end

WEXITSTATUS(end) == IF end = "fail" THEN "exit code" ELSE "XOK"

VARIABLES
    prtable,    \* prtable
    child,      \* the children of the program, as the host knows them
    held,       \* what each is to the program, until it was closed
    call,       \* the primitive that is waiting
    result,     \* the pid and the status of the last close
    lost,       \* history: the processes in the table nobody will ask for
    interrupts  \* history: the number of interrupts

vars == <<prtable, child, held, call, result, lost, interrupts>>

Entry == [pid : Pid \cup {NoPid}, active : BOOLEAN, status : Code]
\* Nobody reads the rest of an entry that is free.
Free == [pid |-> NoPid, active |-> FALSE, status |-> "XOK"]
Idle == [op |-> "none", pid |-> NoPid]

Init ==
    /\ prtable = [i \in 1..MAXPROCS |-> Free]
    /\ child = [p \in Pid |-> "none"]
    /\ held = [p \in Pid |-> "none"]
    /\ call = Idle
    /\ result = <<"none", "XOK">>
    /\ lost = {}
    /\ interrupts = 0

\* pr_findpid: the entries of a process; the first one is taken.
Entries(p) == {i \in 1..MAXPROCS : prtable[i].pid = p}
pr_findpid(p) == CHOOSE i \in Entries(p) : \A j \in Entries(p) : i <= j

Return(p, s) ==
    /\ result' = <<p, s>>
    /\ held' = [held EXCEPT ![p] = "none"]
    /\ call' = Idle

-----------------------------------------------------------------------------
\* A new process is put in the first free entry, if there is one; if not,
\* kernel_panic ends the program.
pr_enter(p, kind, then) ==
    IF Entries(NoPid) = {}
    THEN call' = [op |-> "panic", pid |-> p] /\ UNCHANGED <<prtable, held>>
    ELSE /\ prtable' = [prtable EXCEPT ![pr_findpid(NoPid)].pid = p,
                                       ![pr_findpid(NoPid)].active = TRUE]
         /\ held' = [held EXCEPT ![p] = kind]
         /\ call' = then

Unused == {p \in Pid : child[p] = "none" /\ Entries(p) = {}}
Open(kind) == {p \in Pid : held[p] = kind}

Fork(p) == p \in Unused /\ child' = [child EXCEPT ![p] = "running"]

ZOPCPR(p) ==
    /\ call = Idle /\ Cardinality(Open("connected")) < MaxConnected
    /\ Fork(p)
    /\ pr_enter(p, "connected", Idle)
    /\ UNCHANGED <<result, lost, interrupts>>

ZOPDPR(p) ==
    /\ call = Idle /\ Cardinality(Open("detached")) < MaxDetached
    /\ Fork(p)
    /\ pr_enter(p, "detached", Idle)
    /\ UNCHANGED <<result, lost, interrupts>>

\* zoscmd forks, enters the process and waits for it.
ZOSCMD(p) ==
    /\ call = Idle
    /\ Fork(p)
    /\ call' = [op |-> "forked", pid |-> p]
    /\ UNCHANGED <<prtable, held, result, lost, interrupts>>

ZOSCMD_Enter ==
    /\ call.op = "forked"
    /\ pr_enter(call.pid, "command", [call EXCEPT !.op = "wait"])
    /\ UNCHANGED <<child, result, lost, interrupts>>

\* Mutant: the saved status of a process that has ended already is not given up.
PrWaitKeeps(p) ==
    IF Entries(p) = {}
    THEN Return(p, ERR) /\ UNCHANGED prtable
    ELSE IF ~prtable[pr_findpid(p)].active
    THEN Return(p, prtable[pr_findpid(p)].status) /\ UNCHANGED prtable
    ELSE call' = [op |-> "wait", pid |-> p] /\ UNCHANGED <<prtable, held, result>>

\* pr_wait, up to the first call of wait().
pr_wait(p) ==
    IF Entries(p) = {}
    THEN Return(p, ERR) /\ UNCHANGED prtable
    ELSE IF ~prtable[pr_findpid(p)].active
    THEN /\ Return(p, prtable[pr_findpid(p)].status)
         /\ prtable' = [prtable EXCEPT ![pr_findpid(p)] = Free]
    ELSE call' = [op |-> "wait", pid |-> p] /\ UNCHANGED <<prtable, held, result>>

\* zclcpr and zcldpr without the kill flag.
Close(p) ==
    /\ call = Idle /\ held[p] \in {"connected", "detached"}
    /\ pr_wait(p)
    /\ UNCHANGED <<child, lost, interrupts>>

\* Mutant: a child that was not waited for is forgotten.
PrWaitNextForgets(q) ==
    /\ call.op = "wait" /\ child[q] \in Ends
    /\ child' = [child EXCEPT ![q] = "none"]
    /\ IF q # call.pid \/ Entries(q) = {} THEN UNCHANGED <<prtable, result, held, call>>
       ELSE /\ prtable' = [prtable EXCEPT ![pr_findpid(q)] = Free]
            /\ Return(q, WEXITSTATUS(child[q]))
    /\ UNCHANGED <<lost, interrupts>>

\* Mutant: the loop does not end with the child that was waited for.
PrWaitNextGoesOn(q) ==
    /\ call.op = "wait" /\ child[q] \in Ends
    /\ child' = [child EXCEPT ![q] = "none"]
    /\ prtable' = IF Entries(q) = {} THEN prtable
                  ELSE [prtable EXCEPT ![pr_findpid(q)].active = FALSE,
                                       ![pr_findpid(q)].status = WEXITSTATUS(child[q])]
    /\ UNCHANGED <<result, held, call, lost, interrupts>>

\* wait() returns the child q: its status goes to the table, unless it is not
\* there; pr_wait returns if q is the process it waits for.  (wait() does not fail:
\* by EntriesOwned an active entry has a child, and the handlers of the signals that
\* may arrive meanwhile jump.)
PrWaitNext(q) ==
    /\ call.op = "wait" /\ child[q] \in Ends
    /\ child' = [child EXCEPT ![q] = "none"]
    /\ IF Entries(q) = {} THEN UNCHANGED <<prtable, result, held, call>>
       ELSE /\ prtable' = [prtable EXCEPT ![pr_findpid(q)] =
                             IF q = call.pid THEN Free
                             ELSE [pid |-> q, active |-> FALSE,
                                   status |-> WEXITSTATUS(child[q])]]
            /\ IF q = call.pid THEN Return(q, WEXITSTATUS(child[q]))
                               ELSE UNCHANGED <<result, held, call>>
    /\ UNCHANGED <<lost, interrupts>>

\* zcldpr with the kill flag: kill() finds the child, dead or alive, and
\* pr_release frees the entry.
Kill(p) ==
    /\ call = Idle /\ held[p] = "detached" /\ child[p] # "none"
    /\ prtable' = IF Entries(p) = {} THEN prtable
                  ELSE [prtable EXCEPT ![pr_findpid(p)] = Free]
    /\ held' = [held EXCEPT ![p] = "none"]
    /\ UNCHANGED <<child, call, result, lost, interrupts>>

\* An interrupt, whose handler jumps out of the primitive.  A detached process
\* may be closed again; a connected one and a command may not.
Interrupt ==
    LET p == call.pid
        keeps == held[p] = "detached"
    IN  /\ call.op \in {"forked", "wait"} /\ interrupts < MaxInterrupts
        /\ interrupts' = interrupts + 1
        /\ call' = Idle
        /\ held' = IF keeps THEN held ELSE [held EXCEPT ![p] = "none"]
        /\ lost' = IF keeps \/ call.op = "forked" THEN lost ELSE lost \cup {p}
        /\ UNCHANGED <<prtable, child, result>>

ChildEnds(p) ==
    /\ child[p] = "running" /\ call.op # "panic"
    /\ \E e \in Ends : child' = [child EXCEPT ![p] = e]
    /\ UNCHANGED <<prtable, held, call, result, lost, interrupts>>

Next ==
    \/ \E p \in Pid : \/ ZOPCPR(p) \/ ZOPDPR(p) \/ ZOSCMD(p) \/ Close(p) \/ PrWaitNext(p)
                      \/ Kill(p) \/ ChildEnds(p)
    \/ ZOSCMD_Enter \/ Interrupt

\* The host lets wait() return while there is a child it can return.
Fairness == WF_vars(\E q \in Pid : PrWaitNext(q))

Spec == Init /\ [][Next]_vars /\ Fairness

-----------------------------------------------------------------------------
TypeOK ==
    /\ prtable \in [1..MAXPROCS -> Entry]
    /\ child \in [Pid -> {"none", "running"} \cup Ends]
    /\ held \in [Pid -> {"none", "connected", "detached", "command"}]
    /\ call \in [op : {"none", "forked", "wait", "panic"}, pid : Pid \cup {NoPid}]
    /\ call.op # "none" => call.pid \in Pid
    /\ result \in (Pid \cup {"none"}) \X (Code \cup {ERR})
    /\ lost \subseteq Pid
    /\ interrupts \in 0..MaxInterrupts

\* The table and the host agree about every process that is open: it has one
\* entry, which is active exactly until wait() has returned it.  The only
\* entries that are in nobody's hands are those of interrupted calls, and the
\* entry of a process that was killed is free while the process still runs
\* (pr_enter, pr_wait, pr_release).
Owned(p) ==
    /\ Entries(p) # {} <=> held[p] # "none" \/ p \in lost
    /\ \A i \in Entries(p) : Entries(p) = {i} /\ (prtable[i].active <=> child[p] # "none")
EntriesOwned == \A p \in Pid : Owned(p)

\* Processes may be closed in any order: whatever else ends meanwhile, a close
\* returns the status of the process that is closed, never ERR and never that
\* of another ("We hide all this behind the pr_wait call", prwait.c).
InHand == {p \in Pid : held[p] # "none" \/ call = [op |-> "forked", pid |-> p]}
State(p) ==
    IF p \notin InHand THEN "none"
    ELSE IF child[p] = "running" THEN "running"
    ELSE IF child[p] \in Ends THEN WEXITSTATUS(child[p])
    ELSE IF Entries(p) = {} THEN ERR
    ELSE prtable[pr_findpid(p)].status
Host == INSTANCE ChildProcs WITH
            Proc <- Pid, held <- InHand, state <- [p \in Pid |-> State(p)]
Refinement == Host!Spec

\* pr_wait returns once the process it waits for has ended, whatever else ends.
WaitReturns ==
    (call.op = "wait" /\ child[call.pid] \in Ends) ~> call.op # "wait"

\* "Parent process should ignore interrupts; OS process will handle interrupts and
\* return at the proper time" (zoscmd): what is in the table is what the program has
\* open.
NoneLost == \A p \in Pid : Entries(p) # {} => held[p] # "none"

=============================================================================
