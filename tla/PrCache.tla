------------------------------ MODULE PrCache -------------------------------
(***************************************************************************)
(* The process cache of the CL, pkg/cl/prcache.c, with the task stack that *)
(* uses it (callnewtask, execnewtask, iofinish, oneof and killtask of      *)
(* exec.c, taskunwind of task.c, cl_error of errs.c, onint of main.c and   *)
(* the builtins that reach the cache).                                     *)
(*                                                                         *)
(* The CL is one process; what interleaves with it are its children, which *)
(* die, the executables, which are relinked, and the user, whose interrupt *)
(* aborts whatever the CL is doing.  So an operation on the cache is cut   *)
(* where the CL calls the system: job says where it is.                    *)
(***************************************************************************)
EXTENDS Naturals, FiniteSets, Sequences

CONSTANTS Pid,          \* process ids of the host
          NoPid,        \* an empty slot, a task that is not in a process
          Exe,          \* executables: the names of processes
          NoExe,        \* the name in a slot that was never used
          MAXSUBPROC,   \* slots
          Sizes,        \* the values of cl.szprcache
          ResizeBusy,   \* it is also set while a task runs in a process
          Packages,     \* scripts define packages
          MaxDepth,     \* bound on the tasks in the stack
          MaxPno,       \* bound on pr_pno
          MaxEvents     \* bound on deaths, relinks and interrupts together

ASSUME CacheAssumption ==
    /\ NoPid \notin Pid /\ NoExe \notin Exe
    /\ MAXSUBPROC \in Nat /\ Sizes \subseteq 2..MAXSUBPROC /\ 2 \in Sizes
    /\ ResizeBusy \in BOOLEAN /\ Packages \in BOOLEAN
    /\ MaxDepth \in Nat \ {0} /\ MaxPno \in Nat \ {0} /\ MaxEvents \in Nat

Slots == 1..MAXSUBPROC

VARIABLES
    sz,         \* sz_prcache: the slots 1..sz are linked
    slot,       \* pr_cache
    rank,       \* the place of each linked slot in the list, the head being 1
    pr_pno,     \* the next process number
    child,      \* the children, as the host and the VOS know them
    stack,      \* the control stack: the tasks, currentask being the last
    job,        \* the operation on the cache that is going on
    hist        \* history: what interrupts and races have done

vars == <<sz, slot, rank, pr_pno, child, stack, job, hist>>

\* A slot: P_ACTIVE, P_LOCKED and the rest of struct process.  fresh says that
\* pr_time is not older than the executable is now.
NoProcess == [pid |-> NoPid, exe |-> NoExe, active |-> FALSE, locked |-> FALSE,
              pno |-> 0, fresh |-> FALSE]
Process == [pid : Pid \cup {NoPid}, exe : Exe \cup {NoExe}, active : BOOLEAN,
            locked : BOOLEAN, pno : 0..MaxPno, fresh : BOOLEAN]

\* A child: "dead" before and "known" after the VOS has seen it (P_DEAD),
\* "closing" if the CL was interrupted while it waited for it to exit.  new
\* says that it runs its executable as it is now.
Gone == [st |-> "none", exe |-> NoExe, new |-> FALSE]
Child == [st : {"none", "up", "dead", "known", "closing"}, exe : Exe \cup {NoExe},
          new : BOOLEAN]

\* A task: an interactive "cl", a "script", or an "ext" task in a process.
\* before is history: the processes there were when pno was assigned.
\* running is T_RUNNING: iofinish has not yet been called for it.
Task == [kind : {"cl", "script", "ext"}, pid : Pid \cup {NoPid},
         exe : Exe \cup {NoExe}, pno : 0..MaxPno, before : SUBSET Pid,
         running : BOOLEAN]
NewTask(k, p, x) == [kind |-> k, pid |-> p, exe |-> x, pno |-> 0, before |-> {},
                     running |-> TRUE]

\* An operation: at, where it is; s, the slot and exe, the process it is about;
\* use, what the process is connected for; todo, the slots a flush has still to
\* look at and break, whether it forces locks; prune, it is a pr_prunecache;
\* then, what follows the disconnect; size and again, the size that pr_setcache
\* has to set and what it has to reconnect;
\* time, the modify date of the executable, if it was read.
NoJob == [at |-> "none", s |-> 1, exe |-> NoExe, use |-> "run", todo |-> {},
          break |-> FALSE, prune |-> FALSE, then |-> "none", size |-> 0, again |-> {},
          time |-> "unread"]
Job == [at : {"none", "find", "get", "spawn", "stat", "start", "dump", "close", "raise",
              "unwind"},
        s : Slots, exe : Exe \cup {NoExe}, use : {"run", "lock", "relock"},
        todo : SUBSET Slots, break : BOOLEAN, prune : BOOLEAN,
        then : {"none", "get", "spawn", "dump"}, size : Sizes \cup {0}, again : SUBSET Exe,
        time : {"unread", "new", "old"}]

-----------------------------------------------------------------------------
(* The list, and searches in it.                                           *)

Linked == 1..sz
\* Mutant: pr_busy tests the lock only.
BusyIfLocked(e) == e.locked

Busy(e) == e.active \/ e.locked

\* Mutant: the processes behind the one that is moved are moved as well.
ToHeadAll(r, s) == [t \in Slots |-> IF t = s THEN 1 ELSE r[t] + 1]

ToHead(r, s) == [t \in Slots |-> IF t = s THEN 1
                                 ELSE IF r[t] < r[s] THEN r[t] + 1 ELSE r[t]]

\* The slots of D go to the tail one after the other.
ToTail(r, D) ==
    [t \in Slots |->
        IF t \notin Linked THEN r[t]
        ELSE IF t \in D
        THEN sz - Cardinality(D) + Cardinality({u \in D : u <= t})
        ELSE Cardinality({u \in Linked \ D : r[u] <= r[t]})]

Last(S) == CHOOSE s \in S : \A t \in S : rank[t] <= rank[s]

\* The list as pr_initcache links it, for n slots.
InitRank(n) == [s \in Slots |-> IF s <= n THEN n + 1 - s ELSE 0]

\* An empty slot keeps its name; nobody reads the rest of it.
Emptied(e) == [NoProcess EXCEPT !.exe = e.exe]

\* pr_checkup: disconnect the children that are known to be dead.
Dead == {s \in Linked : /\ slot[s].pid # NoPid
                        /\ child[slot[s].pid].st = "known"}
Checked == [s \in Slots |-> IF s \in Dead THEN Emptied(slot[s]) ELSE slot[s]]
CheckedRank == ToTail(rank, Dead)
CheckedChild == [p \in Pid |-> IF \E s \in Dead : slot[s].pid = p
                               THEN Gone ELSE child[p]]
CheckUp ==
    /\ rank' = CheckedRank
    /\ child' = CheckedChild

\* pr_disconnect for a set of processes.
Disconnected(P) ==
    [s \in Slots |-> IF s \in Linked /\ Checked[s].pid \in P
                     THEN [Checked[s] EXCEPT !.active = FALSE] ELSE Checked[s]]

\* The counter that is left by pr_getpno.  Only packages compare the numbers.
pr_getpno == IF Packages THEN pr_pno + 1 ELSE pr_pno

-----------------------------------------------------------------------------
(* The task stack.                                                         *)

Top == Len(stack)

\* callnewtask clears t_pno of the task that calls.
Called == [stack EXCEPT ![Top].pno = 0, ![Top].before = {}]

\* The last interactive task among the first n.
Interactive(n) == CHOOSE k \in 1..n :
                     /\ stack[k].kind = "cl"
                     /\ \A i \in (k+1)..n : stack[i].kind # "cl"

\* Mutant: the first process connected since then is kept.
RestoredLate(k) ==
    IF stack[k].pno = 0 THEN NoJob
    ELSE [NoJob EXCEPT !.at = "dump", !.prune = TRUE,
            !.todo = {s \in Linked : slot'[s].pid # NoPid /\ slot'[s].pno > stack[k].pno + 1}]

\* restor: prune the cache if the task that goes on defined a package.
Restored(k) ==
    IF stack[k].pno = 0 THEN NoJob
    ELSE [NoJob EXCEPT !.at = "dump", !.prune = TRUE,
            !.todo = {s \in Linked : slot'[s].pid # NoPid /\ slot'[s].pno > stack[k].pno}]

\* Mutant: iofinish does not disconnect the process.
FinishTasksOnly(P, pruned) ==
    IF P = {} /\ ~pruned
    THEN slot' = slot /\ rank' = rank /\ child' = child
    ELSE slot' = Checked /\ CheckUp

\* iofinish for tasks in the processes P, with the pr_checkup of pr_disconnect
\* or of pr_prunecache, if either is called.
FinishTasks(P, pruned) ==
    IF P = {} /\ ~pruned
    THEN slot' = slot /\ rank' = rank /\ child' = child
    ELSE slot' = Disconnected(P) /\ CheckUp

\* The processes of the tasks above the k-th that run in one.
Processes(k) == {stack[i].pid : i \in {j \in (k+1)..Top : stack[j].running}} \ {NoPid}

\* cl_error, for which n tasks are left: those above the last interactive one
\* are finished, and then killed one after the other (Unwind).
Recover(n) ==
    LET k == Interactive(n)
    IN  /\ FinishTasks(Processes(k), FALSE)
        /\ stack' = [i \in 1..n |-> IF i > k THEN [stack[i] EXCEPT !.running = FALSE]
                                            ELSE stack[i]]
        /\ job' = [NoJob EXCEPT !.at = "unwind"]

Init ==
    /\ sz = 2
    /\ slot = [s \in Slots |-> NoProcess]
    /\ rank = InitRank(2)
    /\ pr_pno = 1
    /\ child = [p \in Pid |-> Gone]
    /\ stack = <<NewTask("cl", NoPid, NoExe)>>
    /\ job = NoJob
    /\ hist = [leaked |-> {}, hurt |-> {}, raced |-> {}, reset |-> FALSE,
               events |-> 0]

-----------------------------------------------------------------------------
(* pr_pconnect and pr_connect.                                             *)

\* A task calls a task that is in the executable x.
Run(x) ==
    /\ job.at = "none" /\ Top < MaxDepth
    /\ stack' = Called
    /\ job' = [NoJob EXCEPT !.at = "find", !.exe = x]
    /\ UNCHANGED <<sz, slot, rank, pr_pno, child, hist>>

\* Mutant: pr_findproc does not skip active processes.
IdlingOrActive == {s \in Linked : Checked[s].pid # NoPid /\ Checked[s].exe = job.exe}

\* pr_findproc, after the checkup.
Idling == {s \in Linked : /\ Checked[s].pid # NoPid /\ ~Checked[s].active
                          /\ Checked[s].exe = job.exe}
Found == CHOOSE s \in Idling : \A t \in Idling : CheckedRank[s] <= CheckedRank[t]

\* Mutant: the modify date is not looked at.
FindReuseAny ==
    /\ job.at = "find" /\ Idling # {}
    /\ slot' = [Checked EXCEPT ![Found].active = TRUE]
    /\ rank' = ToHead(CheckedRank, Found)
    /\ child' = CheckedChild
    /\ job' = [job EXCEPT !.at = "start", !.s = Found]
    /\ UNCHANGED <<sz, pr_pno, stack, hist>>

FindReuse ==
    /\ job.at = "find" /\ Idling # {}
    /\ Checked[Found].locked \/ Checked[Found].fresh
    /\ slot' = [Checked EXCEPT ![Found].active = TRUE]
    /\ rank' = ToHead(CheckedRank, Found)
    /\ child' = CheckedChild
    /\ job' = [job EXCEPT !.at = "start", !.s = Found]
    /\ UNCHANGED <<sz, pr_pno, stack, hist>>

\* The executable is newer than the process, or cannot be found.
FindStale ==
    /\ job.at = "find" /\ Idling # {}
    /\ ~Checked[Found].locked
    /\ \E found \in BOOLEAN :
          /\ found => ~Checked[Found].fresh
          /\ job' = [job EXCEPT !.at = "close", !.s = Found, !.then = "get",
                               !.time = IF found THEN "new" ELSE "unread"]
    /\ slot' = Checked /\ CheckUp
    /\ UNCHANGED <<sz, pr_pno, stack, hist>>

FindNone ==
    /\ job.at = "find" /\ Idling = {}
    /\ job' = [job EXCEPT !.at = "get"]
    /\ slot' = Checked /\ CheckUp
    /\ UNCHANGED <<sz, pr_pno, stack, hist>>

\* The process slot nearest the tail that is not busy.
Usable == {s \in Linked : ~Busy(slot[s])}

GetSlot ==
    /\ job.at = "get" /\ Usable # {}
    /\ IF slot[Last(Usable)].pid = NoPid
       THEN /\ rank' = ToHead(rank, Last(Usable))
            /\ job' = [job EXCEPT !.at = "spawn", !.s = Last(Usable)]
       ELSE /\ job' = [job EXCEPT !.at = "close", !.s = Last(Usable), !.then = "spawn"]
            /\ UNCHANGED rank
    /\ UNCHANGED <<sz, slot, pr_pno, child, stack, hist>>

\* "process cache deadlock"
GetFails ==
    /\ job.at = "get" /\ Usable = {}
    /\ Recover(Top)
    /\ UNCHANGED <<sz, pr_pno, hist>>

\* c_propen, with interrupts disabled.  The host gives the new child a process
\* id that the CL does not remember.
Unused == {p \in Pid : /\ child[p].st = "none"
                       /\ \A s \in Slots : slot[s].pid # p
                       /\ \A i \in 1..Top : stack[i].pid # p}

Spawn ==
    /\ job.at = "spawn" /\ pr_getpno <= MaxPno
    /\ \E p \in Unused :
          /\ child' = [child EXCEPT ![p] = [st |-> "up", exe |-> job.exe, new |-> TRUE]]
          /\ slot' = [slot EXCEPT ![job.s].pid = p]
          /\ stack' = [i \in 1..Top |-> [stack[i] EXCEPT !.before = @ \ {p}]]
          /\ hist' = [hist EXCEPT !.leaked = @ \ {p}, !.hurt = @ \ {p}, !.raced = @ \ {p}]
    /\ job' = [job EXCEPT !.at = "stat"]
    /\ UNCHANGED <<sz, rank, pr_pno>>

SpawnFails ==
    /\ job.at = "spawn"
    /\ Recover(Top)
    /\ UNCHANGED <<sz, pr_pno, hist>>

\* c_finfo, unless the date was read before, and the process slot is filled.
Stat ==
    /\ job.at = "stat"
    /\ \E fresh \in IF job.time = "unread" THEN BOOLEAN ELSE {job.time = "new"} :
          /\ slot' = [slot EXCEPT ![job.s] =
                        [@ EXCEPT !.exe = job.exe, !.active = TRUE, !.locked = FALSE,
                                  !.pno = pr_pno, !.fresh = fresh]]
          /\ hist' = IF fresh /\ ~child[slot[job.s].pid].new
                     THEN [hist EXCEPT !.raced = @ \cup {slot[job.s].pid}] ELSE hist
    /\ pr_pno' = pr_getpno
    /\ job' = [job EXCEPT !.at = "start"]
    /\ UNCHANGED <<sz, rank, child, stack>>

\* The startup message is sent and the new task becomes the current one.
Start ==
    LET p == slot[job.s].pid
    IN  /\ job.at = "start" /\ job.use = "run" /\ child[p].st # "dead"
        /\ stack' = Append(stack, NewTask("ext", p, job.exe))
        /\ job' = NoJob
        /\ UNCHANGED <<sz, slot, rank, pr_pno, child, hist>>

\* What is left of pr_setcache after a process was reconnected.
Again(x) == IF job.again = {} THEN NoJob
            ELSE [NoJob EXCEPT !.at = "find", !.use = "relock", !.exe = x,
                               !.again = job.again \ {x}]

\* pr_cachetask and pr_setcache: the process is disconnected and locked.
StartLocked ==
    LET p == slot[job.s].pid
    IN  /\ job.at = "start" /\ job.use # "run" /\ child[p].st # "dead"
        /\ slot' = [s \in Slots |->
                      IF s \in Linked /\ slot[s].pid = p
                      THEN [Disconnected({p})[s] EXCEPT !.locked = TRUE]
                      ELSE Disconnected({p})[s]]
        /\ CheckUp
        /\ \E x \in job.again \cup {NoExe} :
              /\ x = NoExe <=> job.again = {}
              /\ job' = Again(x)
        /\ UNCHANGED <<sz, pr_pno, stack, hist>>

\* The write to a child that has died raises X_IPC: pr_onipc, then onipc.
SeenDead ==
    /\ child' = [child EXCEPT ![slot[job.s].pid].st = "known"]
    /\ job' = [NoJob EXCEPT !.at = "raise"]
    /\ UNCHANGED <<sz, slot, rank, pr_pno, stack, hist>>

StartFails ==
    /\ job.at = "start" /\ child[slot[job.s].pid].st = "dead"
    /\ SeenDead

Raise ==
    /\ job.at = "raise"
    /\ Recover(Top)
    /\ UNCHANGED <<sz, pr_pno, hist>>

\* killtask: a task in a process is sent an interrupt, and the CL waits for what
\* it answers, or for the end of file; the task is popped after that.
Unwind ==
    /\ job.at = "unwind" /\ stack[Top].kind # "cl"
    /\ stack' = SubSeq(stack, 1, Top - 1)
    /\ UNCHANGED <<sz, slot, rank, pr_pno, child, job, hist>>

\* The interactive task goes on.
Resume ==
    /\ job.at = "unwind" /\ stack[Top].kind = "cl"
    /\ FinishTasks({}, stack[Top].pno # 0)
    /\ job' = Restored(Top)
    /\ UNCHANGED <<sz, pr_pno, stack, hist>>

-----------------------------------------------------------------------------
(* pr_pdisconnect and the operations that flush the cache.                 *)

\* The child is told to exit, it does, and c_prclose returns.
Close ==
    /\ job.at = "close" /\ child[slot[job.s].pid].st # "dead"
    /\ slot' = [slot EXCEPT ![job.s] = Emptied(@)]
    /\ child' = [child EXCEPT ![slot[job.s].pid] = Gone]
    /\ rank' = IF job.then = "spawn" THEN ToHead(ToTail(rank, {job.s}), job.s)
                                     ELSE ToTail(rank, {job.s})
    /\ job' = [job EXCEPT !.at = job.then, !.then = "none"]
    /\ UNCHANGED <<sz, pr_pno, stack, hist>>

\* The child has died, which the write of "bye" to it finds out: X_IPC again.
CloseFails ==
    /\ job.at = "close" /\ child[slot[job.s].pid].st = "dead"
    /\ SeenDead

\* flprcache: with no arguments; with argument 0; with a process.
Flush(S, break) ==
    /\ stack' = Called
    /\ slot' = Checked /\ CheckUp
    /\ job' = [NoJob EXCEPT !.at = "dump", !.break = break,
                            !.todo = {s \in S : Checked[s].pid # NoPid}]
    /\ UNCHANGED <<sz, pr_pno, hist>>

FlushAll == job.at = "none" /\ \E break \in BOOLEAN : Flush(Linked, break)
FlushOne == job.at = "none" /\ \E s \in Linked :
               Flush({t \in Linked : slot[t].pid = slot[s].pid}, TRUE)

\* The loops of pr_dumpcache and pr_prunecache, in the order of the array.
Lowest(S) == CHOOSE s \in S : \A t \in S : s <= t

DumpNext ==
    /\ job.at = "dump" /\ job.todo # {}
    /\ LET s == Lowest(job.todo)
           e == [slot[s] EXCEPT !.locked = @ /\ ~(job.break /\ ~slot[s].active)]
           rest == [job EXCEPT !.todo = @ \ {s}]
       IN  /\ slot' = [slot EXCEPT ![s] = e]
           /\ job' = IF Busy(e) THEN rest
                     ELSE [rest EXCEPT !.at = "close", !.s = s, !.then = "dump"]
    /\ UNCHANGED <<sz, rank, pr_pno, child, stack, hist>>

DumpEnd ==
    /\ job.at = "dump" /\ job.todo = {} /\ job.size = 0
    /\ IF job.break
       THEN /\ pr_pno' = 1
            /\ hist' = [hist EXCEPT !.reset = \E i \in 1..Top : stack[i].pno # 0]
       ELSE UNCHANGED <<pr_pno, hist>>
    /\ job' = NoJob
    /\ UNCHANGED <<sz, slot, rank, child, stack>>

\* prcache: lock the process of a task, connecting it if it is not cached.
\* pr_pnametopid also finds slots that are empty.
CacheTask(x) ==
    /\ job.at = "none"
    /\ stack' = Called
    /\ LET named == {s \in Linked : Checked[s].exe = x}
           s == CHOOSE t \in named : \A u \in named : CheckedRank[t] <= CheckedRank[u]
       IN  IF named # {} /\ Checked[s].pid # NoPid
           THEN slot' = [Checked EXCEPT ![s].locked = TRUE] /\ UNCHANGED job
           ELSE slot' = Checked
                /\ job' = [NoJob EXCEPT !.at = "find", !.exe = x, !.use = "lock"]
    /\ CheckUp
    /\ UNCHANGED <<sz, pr_pno, hist>>

\* pr_setcache: a forced flush, before which the names of the locked processes
\* are noted.
SetCache(n) ==
    /\ job.at = "none"
    /\ ResizeBusy \/ \A s \in Linked : ~Checked[s].active
    /\ slot' = Checked /\ CheckUp
    /\ job' = [NoJob EXCEPT !.at = "dump", !.break = TRUE, !.size = n,
                  !.todo = {s \in Linked : Checked[s].pid # NoPid},
                  !.again = {slot[s].exe : s \in {t \in Linked : slot[t].pid # NoPid
                                                               /\ slot[t].locked}}]
    /\ UNCHANGED <<sz, pr_pno, stack, hist>>

\* Then the list is made anew and they are reconnected, as many as leave a slot.
Resize ==
    /\ job.at = "dump" /\ job.todo = {} /\ job.size # 0
    /\ sz' = job.size
    /\ slot' = [s \in Slots |-> NoProcess]
    /\ rank' = InitRank(job.size)
    /\ pr_pno' = 1
    /\ hist' = [hist EXCEPT !.reset = \E i \in 1..Top : stack[i].pno # 0]
    /\ \E again \in SUBSET job.again :
          /\ Cardinality(again) < job.size
          /\ again # job.again => Cardinality(again) = job.size - 1
          /\ IF again = {} THEN job' = NoJob
             ELSE \E x \in again :
                    job' = [NoJob EXCEPT !.at = "find", !.use = "relock", !.exe = x,
                                         !.again = again \ {x}]
    /\ UNCHANGED <<child, stack>>

-----------------------------------------------------------------------------
(* The tasks, and what happens to the CL.                                  *)

\* A script starts; it may define a package, whose tasks are then run by an
\* interactive cl that the script calls.
RunScript ==
    /\ job.at = "none" /\ Top < MaxDepth
    /\ stack' = Append(Called, NewTask("script", NoPid, NoExe))
    /\ UNCHANGED <<sz, slot, rank, pr_pno, child, job, hist>>

DefinePackage ==
    /\ Packages /\ job.at = "none" /\ Top > 1 /\ stack[Top].kind = "script"
    /\ stack[Top-1].pno = 0 /\ pr_pno < MaxPno
    /\ stack' = [Called EXCEPT
                   ![Top-1].pno = pr_pno,
                   ![Top-1].before = {slot[s].pid : s \in Linked} \ {NoPid}]
    /\ pr_pno' = pr_pno + 1
    /\ hist' = [hist EXCEPT !.reset = @ /\ \E i \in 1..Top : stack[i].pno # 0]
    /\ UNCHANGED <<sz, slot, rank, child, job>>

RunCl ==
    /\ job.at = "none" /\ Top < MaxDepth /\ stack[Top].kind = "script"
    /\ stack' = Append(Called, NewTask("cl", NoPid, NoExe))
    /\ UNCHANGED <<sz, slot, rank, pr_pno, child, job, hist>>

\* oneof: the current task ends, by "bye" or because its process has died.
Bye ==
    /\ job.at = "none" /\ Top > 1
    /\ FinishTasks(Processes(Top - 1), stack[Top-1].pno # 0)
    /\ stack' = SubSeq(stack, 1, Top - 1)
    /\ job' = Restored(Top - 1)
    /\ UNCHANGED <<sz, pr_pno, hist>>

\* The current task fails in the CL: what it has asked for is wrong, or it is
\* interrupted too often.
TaskFails ==
    /\ job.at = "none"
    /\ Recover(Top)
    /\ UNCHANGED <<sz, pr_pno, hist>>

\* clerror: the current task says that it has failed, and is popped at once.
ErrorStatement ==
    /\ job.at = "none" /\ Top > 1
    /\ Recover(Top - 1)
    /\ UNCHANGED <<sz, pr_pno, hist>>

\* onint: while a task in a process is current the CL only drops what it does
\* and passes the interrupt on, until there are too many (MAX_INTERRUPTS); but a
\* builtin is a task of the CL.
Dropped == /\ stack[Top].kind = "ext"
           /\ \/ job.at = "unwind" \/ job.prune \/ job.size # 0
              \/ job.exe # NoExe /\ job.use # "lock"

\* The tasks that are current again although they were finished.
Revived == {stack[i].pid : i \in {j \in 1..Top : ~stack[j].running}} \ {NoPid}

Interrupt ==
    /\ job.at \in {"find", "get", "stat", "start", "close", "dump", "unwind"}
    /\ hist.events < MaxEvents
    /\ \E drop \in {b \in BOOLEAN : b => Dropped} :
          /\ job' = IF drop THEN NoJob ELSE [NoJob EXCEPT !.at = "raise"]
          /\ hist' = [hist EXCEPT
                !.leaked = IF job.at = "start" THEN @ \cup {slot[job.s].pid} ELSE @,
                !.hurt = IF job.at \in {"stat", "close"} THEN @ \cup {slot[job.s].pid}
                         ELSE IF job.at = "unwind" /\ drop THEN @ \cup Revived
                         ELSE @,
                !.events = @ + 1]
    /\ child' = IF job.at = "close" THEN [child EXCEPT ![slot[job.s].pid].st = "closing"]
                                    ELSE child
    /\ UNCHANGED <<sz, slot, rank, pr_pno, stack>>

ChildDies(p) ==
    /\ child[p].st = "up"
    /\ child' = [child EXCEPT ![p].st = "dead"]
    /\ UNCHANGED <<sz, slot, rank, pr_pno, stack, job>>

Relink(x) ==
    /\ \E p \in Pid : child[p].exe = x /\ child[p].new
    /\ child' = [p \in Pid |-> IF child[p].exe = x THEN [child[p] EXCEPT !.new = FALSE]
                                                  ELSE child[p]]
    /\ slot' = [s \in Slots |-> IF slot[s].exe = x THEN [slot[s] EXCEPT !.fresh = FALSE]
                                                  ELSE slot[s]]
    /\ job' = IF job.exe = x /\ job.time = "new" THEN [job EXCEPT !.time = "old"] ELSE job
    /\ UNCHANGED <<sz, rank, pr_pno, stack>>

Environment ==
    /\ hist.events < MaxEvents
    /\ hist' = [hist EXCEPT !.events = @ + 1]
    /\ (\E p \in Pid : ChildDies(p)) \/ (\E x \in Exe : Relink(x))

Step ==
    \/ FindReuse \/ FindStale \/ FindNone \/ GetSlot \/ GetFails \/ Spawn \/ SpawnFails
    \/ Stat \/ Start \/ StartLocked \/ StartFails \/ Raise \/ Close \/ CloseFails
    \/ DumpNext \/ DumpEnd \/ Resize \/ Unwind \/ Resume

Command ==
    \/ \E x \in Exe : Run(x) \/ CacheTask(x)
    \/ FlushAll \/ FlushOne
    \/ \E n \in Sizes : SetCache(n)
    \/ RunScript \/ DefinePackage \/ RunCl \/ Bye \/ TaskFails \/ ErrorStatement

Next == Step \/ Command \/ Interrupt \/ Environment

Spec == Init /\ [][Next]_vars

-----------------------------------------------------------------------------
TypeOK ==
    /\ sz \in Sizes
    /\ slot \in [Slots -> Process]
    /\ rank \in [Slots -> 0..MAXSUBPROC]
    /\ pr_pno \in 1..MaxPno
    /\ child \in [Pid -> Child]
    /\ stack \in Seq(Task) /\ Top \in 1..MaxDepth
    /\ job \in Job
    /\ hist \in [leaked : SUBSET Pid, hurt : SUBSET Pid, raced : SUBSET Pid,
                  reset : BOOLEAN, events : 0..MaxEvents]

\* Whatever was interrupted, flushed or relinked: a task that runs in a process
\* that is alive has it for itself, in the cache and marked in use, and it runs
\* the program the task is in (pr_findproc, P_ACTIVE, iofinish, killtask) -
\* unless an interrupt came while the process was being connected or
\* disconnected or its task killed.
OwnProcess ==
    \A i \in 1..Top :
        LET p == stack[i].pid
        IN  /\ stack[i].kind = "ext" /\ stack[i].running
            /\ child[p].st = "up" /\ p \notin hist.hurt
            => /\ child[p].exe = stack[i].exe
               /\ \A j \in 1..Top : stack[j].pid = p => j = i
               /\ \E s \in Linked : slot[s].pid = p /\ slot[s].active

\* "Zero or one tasks may be active in a process at a given time": no two tasks
\* on the stack are in one process that is alive.
OneTask ==
    \A i, j \in 1..Top :
        stack[i].kind = "ext" /\ stack[j].pid = stack[i].pid
        /\ child[stack[i].pid].st = "up" => j = i

\* A slot is marked in use only while a task that runs, or one that is being
\* started, is in it: error recovery gives every process back.  The exceptions
\* are a start that was interrupted before the task was on the stack, and a
\* child whose death has been seen and that the next pr_checkup removes.
ActiveIsOwned ==
    \A s \in Linked :
        slot[s].active
        => \/ \E i \in 1..Top : stack[i].pid = slot[s].pid /\ stack[i].running
           \/ job.at = "start" /\ job.s = s
           \/ slot[s].pid \in hist.leaked
           \/ child[slot[s].pid].st = "known"

\* A process is not used again after its executable was relinked, unless it is
\* locked (or the relink came between the spawn and c_finfo).
UsesNewImage ==
    [][job.at = "find" /\ job'.at = "start"
       => LET e == slot[job'.s]
          IN  \/ e.locked
              \/ child[e.pid].new
              \/ e.pid \in hist.raced \cup hist.hurt]_vars

\* When a package is unloaded, and the prune is not interrupted, no idle unlocked
\* process is left that was connected since it was loaded, unless a forced flush
\* has begun the process numbers anew (clpackage, restor, pr_prunecache).
PruneComplete ==
    [][job.at = "dump" /\ job.prune /\ job.todo = {} /\ job'.at = "none" /\ ~hist.reset
       => \A s \in Linked : slot[s].pid # NoPid /\ ~Busy(slot[s])
            => slot[s].pid \in stack[Top].before \cup hist.hurt]_vars

\* The cache keeps the promises of ProcPool for all processes but those that an
\* interrupt has hurt.
InUse(active) == {slot[s].pid : s \in {t \in Linked : slot[t].active = active}}
                   \ ({NoPid} \cup hist.hurt)
Pool == INSTANCE ProcPool WITH
            Proc <- Pid,
            running <- InUse(TRUE),
            idle <- InUse(FALSE),
            dead <- {p \in InUse(TRUE) \cup InUse(FALSE) : child[p].st \in {"dead", "known"}}
Refinement == Pool!Spec

\* "If the process is found idling in the cache, relink it": what a task is
\* started in is a process of its program that was not disconnected.
RightProcess ==
    \A i \in 1..Top : stack[i].kind = "ext" =>
        /\ child[stack[i].pid].exe \in {stack[i].exe, NoExe}
        /\ child[stack[i].pid].st # "closing"

=============================================================================
