--------------------------- MODULE PrCacheProofs ----------------------------
(***************************************************************************)
(* What holds of the process cache for every number of processes, programs,*)
(* slots and tasks.                                                        *)
(***************************************************************************)
EXTENDS PrCache, LeastElement, FiniteSetTheorems, SequenceTheorems, TLAPS

-----------------------------------------------------------------------------
(* Slots, children and the list.                                           *)

LEMMA SlotNumbers ==
  ASSUME sz \in Sizes
  PROVE  /\ sz \in Nat /\ sz <= MAXSUBPROC /\ 2 <= sz
         /\ Linked \subseteq Slots
         /\ 1 \in Slots /\ 1 \in 0..MAXSUBPROC
         /\ Slots \subseteq Nat
  BY CacheAssumption DEF Slots, Linked

LEMMA ProcessTypes ==
  /\ NoProcess \in Process /\ NoProcess.pid = NoPid /\ ~NoProcess.active
  /\ ~NoProcess.fresh /\ ~NoProcess.locked
  /\ \A e \in Process : /\ Emptied(e) \in Process /\ Emptied(e).pid = NoPid
                        /\ ~Emptied(e).active /\ ~Emptied(e).fresh
                        /\ ~Emptied(e).locked /\ Emptied(e).exe = e.exe
  /\ Gone \in Child /\ Gone.st = "none"
  <1>1. 0 \in 0..MaxPno
    BY CacheAssumption
  <1>2. /\ NoProcess \in Process /\ NoProcess.pid = NoPid /\ ~NoProcess.active
        /\ ~NoProcess.fresh /\ ~NoProcess.locked
    BY <1>1 DEF NoProcess, Process
  <1>3. Gone \in Child /\ Gone.st = "none"
    BY DEF Gone, Child
  <1>4. ASSUME NEW e \in Process
        PROVE  /\ Emptied(e) \in Process /\ Emptied(e).pid = NoPid
               /\ ~Emptied(e).active /\ ~Emptied(e).fresh
               /\ ~Emptied(e).locked /\ Emptied(e).exe = e.exe
    BY <1>1 DEF Emptied, NoProcess, Process
  <1> QED BY <1>2, <1>3, <1>4

LEMMA ToHeadType ==
  ASSUME sz \in Sizes, NEW r \in [Slots -> 0..MAXSUBPROC], NEW s \in Slots
  PROVE  ToHead(r, s) \in [Slots -> 0..MAXSUBPROC]
  <1>1. ASSUME NEW t \in Slots
        PROVE  ToHead(r, s)[t] \in 0..MAXSUBPROC
    <2>1. r[t] \in 0..MAXSUBPROC /\ r[s] \in 0..MAXSUBPROC /\ 1 \in 0..MAXSUBPROC
      BY SlotNumbers
    <2>2. CASE t = s
      BY <2>1, <2>2 DEF ToHead
    <2>3. CASE t # s /\ r[t] < r[s]
      <3>1. r[t] + 1 \in 0..MAXSUBPROC
        BY <2>1, <2>3, CacheAssumption
      <3> QED BY <2>3, <3>1 DEF ToHead
    <2>4. CASE t # s /\ ~(r[t] < r[s])
      BY <2>1, <2>4 DEF ToHead
    <2> QED BY <2>2, <2>3, <2>4
  <1> QED BY <1>1 DEF ToHead

LEMMA ToTailType ==
  ASSUME sz \in Sizes, NEW r \in [Slots -> 0..MAXSUBPROC], NEW D \in SUBSET Linked
  PROVE  ToTail(r, D) \in [Slots -> 0..MAXSUBPROC]
  <1>1. IsFiniteSet(Linked) /\ Cardinality(Linked) = sz
    BY SlotNumbers, FS_Interval DEF Linked
  <1>2. ASSUME NEW S \in SUBSET Linked
        PROVE  IsFiniteSet(S) /\ Cardinality(S) \in Nat /\ Cardinality(S) <= sz
    BY <1>1, FS_Subset, FS_CardinalityType
  <1>3. ASSUME NEW t \in Slots
        PROVE  ToTail(r, D)[t] \in 0..MAXSUBPROC
    <2> DEFINE upto == {u \in D : u <= t}
               ahead == {u \in Linked \ D : r[u] <= r[t]}
    <2>1. Cardinality(upto) \in Nat /\ Cardinality(upto) <= Cardinality(D)
      BY <1>2, FS_Subset, FS_CardinalityType
    <2>2. Cardinality(D) \in Nat /\ Cardinality(D) <= sz
      BY <1>2
    <2>3. Cardinality(ahead) \in Nat /\ Cardinality(ahead) <= sz
      BY <1>2
    <2>4. sz \in Nat /\ sz <= MAXSUBPROC /\ MAXSUBPROC \in Nat
      BY SlotNumbers, CacheAssumption
    <2>5. ToTail(r, D)[t] = IF t \notin Linked THEN r[t]
                            ELSE IF t \in D THEN sz - Cardinality(D) + Cardinality(upto)
                            ELSE Cardinality(ahead)
      BY DEF ToTail
    <2> HIDE DEF upto, ahead
    <2> QED BY <2>1, <2>2, <2>3, <2>4, <2>5
  <1> QED BY <1>3 DEF ToTail

-----------------------------------------------------------------------------
(* The invariant: slots, tasks and the operation that is going on.         *)

Filling(s) == job.at = "stat" /\ job.s = s

SlotInv ==
    /\ \A s \in Slots : s \notin Linked => slot[s].pid = NoPid
    /\ \A s, t \in Slots : slot[s].pid = slot[t].pid /\ slot[s].pid # NoPid => s = t
    /\ \A s \in Slots : slot[s].pid = NoPid => ~slot[s].active /\ ~slot[s].fresh
    /\ \A s \in Slots : slot[s].locked => slot[s].exe \in Exe
    /\ \A s \in Slots : slot[s].pid \in Pid =>
          /\ \/ slot[s].pid \in hist.hurt
             \/ Filling(s)
             \/ child[slot[s].pid].exe = slot[s].exe
          /\ slot[s].fresh => \/ child[slot[s].pid].new
                              \/ slot[s].pid \in hist.raced \cup hist.hurt

TaskInv ==
    /\ stack[1].kind = "cl"
    /\ \A i \in 1..Top : stack[i].kind = "ext" <=> stack[i].pid \in Pid

Connecting == \/ job.at \in {"find", "get", "spawn", "stat", "start"}
              \/ job.at = "close" /\ job.then \in {"get", "spawn"}

\* Error recovery has finished the tasks that it kills.
Ended ==
    \A i \in 1..Top : stack[i].kind = "ext" /\ stack[i].running
                      => \E j \in i..Top : stack[j].kind = "cl"

JobInv ==
    /\ job.at = "unwind" => Ended
    /\ \A s \in job.todo : s \in Linked /\ slot[s].pid \in Pid
    /\ job.todo # {} \/ job.size # 0 =>
          \/ job.at = "dump"
          \/ job.at = "close" /\ job.then = "dump" /\ job.s \notin job.todo
    /\ job.at = "spawn" => job.s \in Linked /\ slot[job.s].pid = NoPid
    /\ job.at \in {"stat", "start", "close"} =>
          /\ job.s \in Linked /\ slot[job.s].pid \in Pid
          /\ slot[job.s].active <=> job.at = "start"
    /\ job.at = "stat" =>
          /\ pr_getpno <= MaxPno
          /\ ~slot[job.s].fresh
          /\ child[slot[job.s].pid].exe = job.exe
          /\ \A i \in 1..Top : stack[i].pid # slot[job.s].pid
    /\ job.at = "start" => slot[job.s].exe = job.exe
    /\ Connecting => job.exe \in Exe /\ (job.use = "run" => Top < MaxDepth)

IInv == TypeOK /\ SlotInv /\ TaskInv /\ JobInv

-----------------------------------------------------------------------------
(* What the searches find, and what pr_checkup and pr_disconnect leave.    *)

LEMMA CheckedTypes ==
  ASSUME TypeOK
  PROVE  /\ Checked \in [Slots -> Process]
         /\ CheckedRank \in [Slots -> 0..MAXSUBPROC]
         /\ CheckedChild \in [Pid -> Child]
         /\ Dead \subseteq Linked
  <1>1. Dead \subseteq Linked
    BY DEF Dead
  <1>2. Checked \in [Slots -> Process]
    BY ProcessTypes DEF Checked, TypeOK
  <1>3. CheckedRank \in [Slots -> 0..MAXSUBPROC]
    BY <1>1, ToTailType DEF CheckedRank, TypeOK
  <1>4. CheckedChild \in [Pid -> Child]
    BY ProcessTypes DEF CheckedChild, TypeOK
  <1> QED BY <1>1, <1>2, <1>3, <1>4

LEMMA FoundIdling ==
  ASSUME TypeOK, Idling # {}
  PROVE  Found \in Idling
  <1>1. \A s \in Idling : CheckedRank[s] \in Nat
    BY CheckedTypes, SlotNumbers DEF Idling, TypeOK
  <1> QED BY <1>1, LeastRank DEF Found

LEMMA LastUsable ==
  ASSUME TypeOK, Usable # {}
  PROVE  Last(Usable) \in Usable
  <1>1. \A s \in Usable : rank[s] \in 0..MAXSUBPROC
    BY SlotNumbers DEF Usable, TypeOK
  <1> QED BY <1>1, GreatestRank, CacheAssumption DEF Last

LEMMA LowestIn ==
  ASSUME NEW S, S \subseteq Slots, S # {}
  PROVE  Lowest(S) \in S
  <1>1. S \subseteq Nat
    BY CacheAssumption DEF Slots
  <1> QED BY <1>1, LeastIsMember DEF Lowest

LEMMA InteractiveCl ==
  ASSUME TypeOK, TaskInv, NEW n \in 1..Top
  PROVE  /\ Interactive(n) \in 1..n
         /\ stack[Interactive(n)].kind = "cl"
         /\ \A i \in (Interactive(n) + 1)..n : stack[i].kind # "cl"
  <1> DEFINE C == {k \in 1..n : stack[k].kind = "cl"}
             r == [k \in C |-> k]
  <1>1. n \in Nat /\ 1 \in C /\ \A k \in C : r[k] \in 0..n
    BY CacheAssumption DEF TypeOK, TaskInv
  <1>2. PICK k \in C : \A j \in C : r[j] <= r[k]
    <2> HIDE DEF C, r
    <2> QED BY <1>1, GreatestRank
  <1>3. /\ k \in 1..n /\ stack[k].kind = "cl"
        /\ \A i \in (k + 1)..n : stack[i].kind # "cl"
    <2>1. k \in C
      BY <1>2
    <2>2. ASSUME NEW i \in (k + 1)..n, stack[i].kind = "cl"
          PROVE  FALSE
      <3>1. i \in C /\ r[i] = i /\ r[k] = k /\ i > k
        BY <1>1, <2>1, <2>2
      <3>2. r[i] <= r[k]
        BY <1>2, <3>1
      <3> QED BY <1>1, <2>1, <3>1, <3>2
    <2> QED BY <2>1, <2>2
  <1> QED BY <1>3 DEF Interactive

-----------------------------------------------------------------------------
(* Types.                                                                  *)

LEMMA JobTypes ==
  /\ NoJob \in Job /\ NoJob.at = "none" /\ NoJob.todo = {} /\ NoJob.size = 0
  /\ NoJob.use = "run" /\ NoJob.exe = NoExe
  <1>1. 1 \in Slots
    BY SlotNumbers, CacheAssumption DEF Slots
  <1> QED BY <1>1 DEF NoJob, Job

LEMMA DisconnectedTypes ==
  ASSUME TypeOK, NEW P
  PROVE  Disconnected(P) \in [Slots -> Process]
  <1>1. ASSUME NEW s \in Slots
        PROVE  Disconnected(P)[s] \in Process
    <2>1. Checked[s] \in Process /\ [Checked[s] EXCEPT !.active = FALSE] \in Process
      BY CheckedTypes DEF Process
    <2> QED BY <2>1 DEF Disconnected
  <1> QED BY <1>1 DEF Disconnected

LEMMA FinishTypes ==
  ASSUME TypeOK, NEW P, NEW pruned, FinishTasks(P, pruned)
  PROVE  /\ slot' \in [Slots -> Process]
         /\ rank' \in [Slots -> 0..MAXSUBPROC]
         /\ child' \in [Pid -> Child]
  <1>1. CASE P = {} /\ ~pruned
    BY <1>1 DEF FinishTasks, TypeOK
  <1>2. CASE ~(P = {} /\ ~pruned)
    BY <1>2, CheckedTypes, DisconnectedTypes DEF FinishTasks, CheckUp
  <1> QED BY <1>1, <1>2

LEMMA RestoredJob ==
  ASSUME TypeOK, NEW k
  PROVE  /\ Restored(k) \in Job
         /\ Restored(k).at \in {"none", "dump"}
         /\ Restored(k).at = "none" => Restored(k).todo = {}
         /\ Restored(k).todo \subseteq {s \in Linked : slot'[s].pid # NoPid}
         /\ Restored(k).size = 0
  <1> DEFINE S == {s \in Linked : slot'[s].pid # NoPid /\ slot'[s].pno > stack[k].pno}
             j == [NoJob EXCEPT !.at = "dump", !.prune = TRUE, !.todo = S]
  <1>1. S \subseteq Slots
    BY SlotNumbers DEF TypeOK
  <1>2. Restored(k) = IF stack[k].pno = 0 THEN NoJob ELSE j
    BY DEF Restored
  <1>3. S \subseteq {s \in Linked : slot'[s].pid # NoPid}
    OBVIOUS
  <1> HIDE DEF S
  <1>4. j \in Job /\ j.at = "dump" /\ j.todo = S /\ j.size = 0
    BY <1>1, JobTypes DEF Job
  <1> HIDE DEF j
  <1> QED BY <1>2, <1>3, <1>4, JobTypes

LEMMA FunctionSeq ==
  ASSUME NEW S, NEW n \in Nat, NEW f \in [1..n -> S]
  PROVE  f \in Seq(S) /\ Len(f) = n
  OBVIOUS

\* The stack in which a task has called, or has lost the tasks above it.
LEMMA CalledStack ==
  ASSUME TypeOK
  PROVE  /\ Called \in Seq(Task) /\ Len(Called) = Top
         /\ \A i \in 1..Top : /\ Called[i].kind = stack[i].kind
                              /\ Called[i].pid = stack[i].pid
                              /\ Called[i].exe = stack[i].exe
                              /\ Called[i].running = stack[i].running
  <1> DEFINE c == [stack[Top] EXCEPT !.pno = 0, !.before = {}]
  <1>1. Top \in 1..Len(stack) /\ stack[Top] \in Task /\ 0 \in 0..MaxPno
    BY CacheAssumption DEF TypeOK, Top
  <1>2. /\ c \in Task /\ c.kind = stack[Top].kind /\ c.pid = stack[Top].pid
        /\ c.exe = stack[Top].exe /\ c.running = stack[Top].running
    BY <1>1 DEF Task
  <1>3. Called = [stack EXCEPT ![Top] = c]
    BY <1>1 DEF Called, TypeOK
  <1> HIDE DEF c
  <1>4. /\ Called \in Seq(Task) /\ Len(Called) = Top
        /\ \A i \in 1..Top : Called[i] = IF i = Top THEN c ELSE stack[i]
    BY <1>1, <1>2, <1>3, ExceptSeq DEF TypeOK, Top
  <1> QED BY <1>2, <1>4

LEMMA Prefix ==
  ASSUME TypeOK, NEW k \in 1..Top, stack' = SubSeq(stack, 1, k)
  PROVE  /\ stack' \in Seq(Task) /\ Len(stack') = k /\ Len(stack') \in 1..MaxDepth
         /\ \A i \in 1..k : stack'[i] = stack[i]
  <1>1. /\ k \in Nat /\ 1 <= k /\ k <= MaxDepth /\ MaxDepth \in Nat
        /\ \A i \in 1..k : stack[i] \in Task
    BY CacheAssumption DEF TypeOK, Top
  <1>2. /\ stack' \in Seq(Task) /\ Len(stack') = k
        /\ \A i \in 1..k : stack'[i] = stack[1 + i - 1]
    BY <1>1, SubSeqProperties
  <1> QED BY <1>1, <1>2

\* The actions that begin error recovery, and how many tasks they leave.
Failure == GetFails \/ SpawnFails \/ Raise \/ TaskFails \/ ErrorStatement

LEMMA FailureRecovers ==
  ASSUME TypeOK, Failure
  PROVE  /\ \E n \in 1..Top : Recover(n)
         /\ UNCHANGED <<sz, pr_pno, hist>>
         /\ job.at \in {"get", "spawn", "raise", "none"}
  <1>1. Top \in 1..Top /\ (Top > 1 => Top - 1 \in 1..Top)
    BY CacheAssumption DEF TypeOK
  <1>2. CASE GetFails \/ SpawnFails \/ Raise \/ TaskFails
    BY <1>1, <1>2 DEF GetFails, SpawnFails, Raise, TaskFails
  <1>3. CASE ErrorStatement
    BY <1>1, <1>3 DEF ErrorStatement
  <1> QED BY <1>2, <1>3 DEF Failure

\* The tasks that are left are what they were, but do not all run any more.
LEMMA RecoveredStack ==
  ASSUME TypeOK, TaskInv, NEW n \in 1..Top, Recover(n)
  PROVE  /\ Interactive(n) \in 1..n
         /\ stack' \in Seq(Task) /\ Len(stack') = n /\ n \in 1..MaxDepth
         /\ \A i \in 1..n :
               /\ stack'[i].kind = stack[i].kind /\ stack'[i].pid = stack[i].pid
               /\ stack'[i].exe = stack[i].exe /\ stack'[i].pno = stack[i].pno
               /\ stack'[i].before = stack[i].before
               /\ stack'[i].running <=> i <= Interactive(n) /\ stack[i].running
  <1> DEFINE k == Interactive(n)
             f == [i \in 1..n |-> IF i > k THEN [stack[i] EXCEPT !.running = FALSE]
                                          ELSE stack[i]]
  <1>1. k \in 1..n /\ stack' = f
    BY InteractiveCl DEF Recover
  <1>2. /\ n \in Nat /\ n \in 1..MaxDepth
        /\ \A i \in 1..n : stack[i] \in Task
    BY CacheAssumption DEF TypeOK, Top
  <1> HIDE DEF k
  <1>3. ASSUME NEW i \in 1..n
        PROVE  /\ f[i] \in Task
               /\ f[i].kind = stack[i].kind /\ f[i].pid = stack[i].pid
               /\ f[i].exe = stack[i].exe /\ f[i].pno = stack[i].pno
               /\ f[i].before = stack[i].before
               /\ f[i].running <=> i <= k /\ stack[i].running
    <2>1. stack[i] \in Task /\ k \in Nat /\ i \in Nat
      BY <1>1, <1>2
    <2>2. CASE i > k
      <3>1. f[i] = [stack[i] EXCEPT !.running = FALSE]
        BY <2>2
      <3>2. [stack[i] EXCEPT !.running = FALSE] \in Task
        BY <2>1 DEF Task
      <3>3. ~(i <= k)
        BY <2>1, <2>2
      <3> QED BY <2>1, <3>1, <3>2, <3>3 DEF Task
    <2>3. CASE ~(i > k)
      <3>1. f[i] = stack[i] /\ i <= k
        BY <2>1, <2>3
      <3>2. stack[i].running \in BOOLEAN
        BY <2>1 DEF Task
      <3> QED BY <2>1, <3>1, <3>2
    <2> QED BY <2>2, <2>3
  <1>4. f \in [1..n -> Task]
    BY <1>3
  <1> HIDE DEF f
  <1>5. stack' \in Seq(Task) /\ Len(stack') = n
    BY <1>1, <1>2, <1>4, FunctionSeq
  <1> QED BY <1>1, <1>2, <1>3, <1>5 DEF k

LEMMA UnwindJob ==
  /\ [NoJob EXCEPT !.at = "unwind"] \in Job /\ ~[NoJob EXCEPT !.at = "unwind"].prune
  /\ [NoJob EXCEPT !.at = "unwind"].at = "unwind"
  /\ [NoJob EXCEPT !.at = "unwind"].todo = {}
  /\ [NoJob EXCEPT !.at = "unwind"].size = 0
  <1>1. ~[NoJob EXCEPT !.at = "unwind"].prune
    BY DEF NoJob
  <1> QED BY <1>1, JobTypes DEF Job

LEMMA RecoverTypes ==
  ASSUME TypeOK, TaskInv, NEW n \in 1..Top, Recover(n), UNCHANGED <<sz, pr_pno, hist>>
  PROVE  TypeOK'
  <1>1. /\ FinishTasks(Processes(Interactive(n)), FALSE)
        /\ job' = [NoJob EXCEPT !.at = "unwind"]
    BY DEF Recover
  <1>2. /\ slot' \in [Slots -> Process] /\ rank' \in [Slots -> 0..MAXSUBPROC]
        /\ child' \in [Pid -> Child]
    BY <1>1, FinishTypes
  <1> QED BY <1>1, <1>2, RecoveredStack, UnwindJob DEF TypeOK, Top

LEMMA UnwindTypes ==
  ASSUME TypeOK, TaskInv, Unwind \/ Resume
  PROVE  TypeOK'
  <1>1. CASE Unwind
    <2>1. Top # 1 /\ Top \in Nat /\ Top >= 1
      BY <1>1, CacheAssumption DEF Unwind, TaskInv, TypeOK
    <2>2. Top - 1 \in 1..Top /\ stack' = SubSeq(stack, 1, Top - 1)
      BY <1>1, <2>1 DEF Unwind
    <2>3. stack' \in Seq(Task) /\ Len(stack') \in 1..MaxDepth
      BY <2>2, Prefix
    <2> QED BY <1>1, <2>3 DEF Unwind, TypeOK, Top
  <1>2. CASE Resume
    BY <1>2, FinishTypes, RestoredJob DEF Resume, TypeOK, Top
  <1> QED BY <1>1, <1>2

LEMMA InitTypes == Init => TypeOK
  <1> SUFFICES ASSUME Init
               PROVE  TypeOK
    OBVIOUS
  <1>1. sz \in Sizes /\ pr_pno \in 1..MaxPno /\ 0 \in 0..MaxPno /\ 0 \in 0..MaxEvents
    BY CacheAssumption DEF Init
  <1>2. slot \in [Slots -> Process] /\ child \in [Pid -> Child] /\ job \in Job
    BY ProcessTypes, JobTypes DEF Init
  <1>3. rank \in [Slots -> 0..MAXSUBPROC]
    <2>1. \A s \in Slots : InitRank(2)[s] \in 0..MAXSUBPROC
      BY CacheAssumption DEF InitRank, Slots
    <2> QED BY <2>1 DEF Init, InitRank
  <1>4. stack \in Seq(Task) /\ Top \in 1..MaxDepth
    <2>1. NewTask("cl", NoPid, NoExe) \in Task
      BY <1>1 DEF NewTask, Task
    <2>2. /\ <<NewTask("cl", NoPid, NoExe)>> \in Seq(Task)
          /\ Len(<<NewTask("cl", NoPid, NoExe)>>) = 1
      BY <2>1
    <2> QED BY <2>2, CacheAssumption DEF Init, Top
  <1>5. hist \in [leaked : SUBSET Pid, hurt : SUBSET Pid, raced : SUBSET Pid,
                  reset : BOOLEAN, events : 0..MaxEvents]
    BY <1>1 DEF Init
  <1> QED BY <1>1, <1>2, <1>3, <1>4, <1>5 DEF TypeOK

LEMMA FindTypes ==
  ASSUME TypeOK, FindReuse \/ FindStale \/ FindNone
  PROVE  TypeOK'
  <1>1. UNCHANGED <<sz, pr_pno, stack, hist>>
    BY DEF FindReuse, FindStale, FindNone
  <1>2. /\ Checked \in [Slots -> Process]
        /\ CheckedRank \in [Slots -> 0..MAXSUBPROC]
        /\ CheckedChild \in [Pid -> Child]
    BY CheckedTypes
  <1>3. Idling # {} => Found \in Slots
    BY FoundIdling, SlotNumbers DEF Idling, TypeOK
  <1>4. CASE FindReuse
    <2>1. slot' \in [Slots -> Process]
      BY <1>2, <1>3, <1>4 DEF FindReuse, Process
    <2>2. rank' \in [Slots -> 0..MAXSUBPROC]
      BY <1>2, <1>3, <1>4, ToHeadType DEF FindReuse, TypeOK
    <2>3. child' \in [Pid -> Child]
      BY <1>2, <1>4 DEF FindReuse
    <2>4. job' \in Job
      BY <1>3, <1>4 DEF FindReuse, TypeOK, Job
    <2> QED BY <1>1, <2>1, <2>2, <2>3, <2>4 DEF TypeOK, Top
  <1>5. CASE FindStale \/ FindNone
    <2>1. /\ slot' \in [Slots -> Process] /\ rank' \in [Slots -> 0..MAXSUBPROC]
          /\ child' \in [Pid -> Child]
      BY <1>2, <1>5 DEF FindStale, FindNone, CheckUp
    <2>2. job' \in Job
      <3>1. CASE FindNone
        BY <3>1 DEF FindNone, TypeOK, Job
      <3>2. CASE FindStale
        <4>1. PICK found \in BOOLEAN :
                 job' = [job EXCEPT !.at = "close", !.s = Found, !.then = "get",
                                    !.time = IF found THEN "new" ELSE "unread"]
          BY <3>2 DEF FindStale
        <4>2. Found \in Slots /\ job \in Job
          BY <1>3, <3>2 DEF FindStale, TypeOK
        <4> QED BY <4>1, <4>2 DEF Job
      <3> QED BY <1>5, <3>1, <3>2
    <2> QED BY <1>1, <2>1, <2>2 DEF TypeOK, Top
  <1> QED BY <1>4, <1>5

LEMMA GetTypes ==
  ASSUME TypeOK, GetSlot
  PROVE  TypeOK'
  <1> DEFINE s == Last(Usable)
  <1>1. s \in Slots
    BY LastUsable, SlotNumbers DEF GetSlot, Usable, TypeOK
  <1>2. UNCHANGED <<sz, slot, pr_pno, child, stack, hist>>
    BY DEF GetSlot
  <1>3. \/ rank' = ToHead(rank, s) /\ job' = [job EXCEPT !.at = "spawn", !.s = s]
        \/ rank' = rank /\ job' = [job EXCEPT !.at = "close", !.s = s, !.then = "spawn"]
    BY DEF GetSlot
  <1> HIDE DEF s
  <1>4. rank' \in [Slots -> 0..MAXSUBPROC]
    BY <1>1, <1>3, ToHeadType DEF TypeOK
  <1>5. job' \in Job
    <2>1. job \in Job
      BY DEF TypeOK
    <2>2. CASE job' = [job EXCEPT !.at = "spawn", !.s = s]
      BY <1>1, <2>1, <2>2 DEF Job
    <2>3. CASE job' = [job EXCEPT !.at = "close", !.s = s, !.then = "spawn"]
      BY <1>1, <2>1, <2>3 DEF Job
    <2> QED BY <1>3, <2>2, <2>3
  <1> QED BY <1>2, <1>4, <1>5 DEF TypeOK, Top

LEMMA SpawnTypes ==
  ASSUME IInv, Spawn
  PROVE  TypeOK'
  <1>1. PICK p \in Unused :
          /\ child' = [child EXCEPT ![p] = [st |-> "up", exe |-> job.exe, new |-> TRUE]]
          /\ slot' = [slot EXCEPT ![job.s].pid = p]
          /\ stack' = [i \in 1..Top |-> [stack[i] EXCEPT !.before = @ \ {p}]]
          /\ hist' = [hist EXCEPT !.leaked = @ \ {p}, !.hurt = @ \ {p}, !.raced = @ \ {p}]
    BY DEF Spawn
  <1>2. /\ p \in Pid /\ job.s \in Slots /\ job \in Job
        /\ UNCHANGED <<sz, rank, pr_pno>> /\ job' = [job EXCEPT !.at = "stat"]
    BY SlotNumbers DEF Spawn, Unused, IInv, JobInv, TypeOK
  <1>3. child' \in [Pid -> Child]
    <2>1. [st |-> "up", exe |-> job.exe, new |-> TRUE] \in Child
      BY <1>2 DEF Child, Job
    <2> QED BY <1>1, <2>1 DEF IInv, TypeOK
  <1>4. slot' \in [Slots -> Process]
    <2>1. slot[job.s] \in Process /\ slot \in [Slots -> Process]
      BY <1>2 DEF IInv, TypeOK
    <2>2. [slot[job.s] EXCEPT !.pid = p] \in Process
      BY <1>2, <2>1 DEF Process
    <2>3. slot' = [slot EXCEPT ![job.s] = [slot[job.s] EXCEPT !.pid = p]]
      BY <1>1
    <2> QED BY <2>1, <2>2, <2>3
  <1>5. stack' \in Seq(Task) /\ Len(stack') \in 1..MaxDepth
    <2>1. Top \in Nat /\ Top \in 1..MaxDepth /\ \A i \in 1..Top : stack[i] \in Task
      BY CacheAssumption DEF IInv, TypeOK, Top
    <2>2. ASSUME NEW t \in Task
          PROVE  [t EXCEPT !.before = @ \ {p}] \in Task
      BY DEF Task
    <2>3. stack' \in [1..Top -> Task]
      BY <1>1, <2>1, <2>2
    <2>4. stack' \in Seq(Task) /\ Len(stack') = Top
      BY <2>1, <2>3, FunctionSeq
    <2> QED BY <2>1, <2>4
  <1>6. job' \in Job
    BY <1>2 DEF Job
  <1>7. hist' \in [leaked : SUBSET Pid, hurt : SUBSET Pid, raced : SUBSET Pid,
                   reset : BOOLEAN, events : 0..MaxEvents]
    BY <1>1 DEF IInv, TypeOK
  <1> QED BY <1>2, <1>3, <1>4, <1>5, <1>6, <1>7 DEF IInv, TypeOK, Top

LEMMA StatTypes ==
  ASSUME IInv, Stat
  PROVE  TypeOK'
  <1>1. PICK fresh \in BOOLEAN :
          /\ slot' = [slot EXCEPT ![job.s] =
                        [@ EXCEPT !.exe = job.exe, !.active = TRUE, !.locked = FALSE,
                                  !.pno = pr_pno, !.fresh = fresh]]
          /\ hist' = IF fresh /\ ~child[slot[job.s].pid].new
                     THEN [hist EXCEPT !.raced = @ \cup {slot[job.s].pid}] ELSE hist
    BY DEF Stat
  <1>2. /\ job.s \in Slots /\ job \in Job /\ slot[job.s].pid \in Pid
        /\ pr_getpno <= MaxPno /\ pr_pno' = pr_getpno
        /\ UNCHANGED <<sz, rank, child, stack>> /\ job' = [job EXCEPT !.at = "start"]
    BY SlotNumbers DEF Stat, IInv, JobInv, TypeOK
  <1>3. slot' \in [Slots -> Process]
    <2>1. [slot[job.s] EXCEPT !.exe = job.exe, !.active = TRUE, !.locked = FALSE,
                              !.pno = pr_pno, !.fresh = fresh] \in Process
      <3>1. /\ slot[job.s] \in Process /\ job.exe \in Exe \cup {NoExe}
            /\ pr_pno \in 0..MaxPno
        BY <1>2, CacheAssumption DEF IInv, TypeOK, Job
      <3> QED BY <3>1 DEF Process
    <2> QED BY <1>1, <2>1 DEF IInv, TypeOK
  <1>4. pr_pno' \in 1..MaxPno
    BY <1>2, CacheAssumption DEF pr_getpno, IInv, TypeOK
  <1>5. job' \in Job
    BY <1>2 DEF Job
  <1>6. hist' \in [leaked : SUBSET Pid, hurt : SUBSET Pid, raced : SUBSET Pid,
                   reset : BOOLEAN, events : 0..MaxEvents]
    BY <1>1, <1>2 DEF IInv, TypeOK
  <1> QED BY <1>2, <1>3, <1>4, <1>5, <1>6 DEF IInv, TypeOK, Top

LEMMA Pushed ==
  ASSUME NEW st \in Seq(Task), Len(st) < MaxDepth, NEW t \in Task,
         stack' = Append(st, t)
  PROVE  /\ stack' \in Seq(Task) /\ Len(stack') = Len(st) + 1
         /\ Len(stack') \in 1..MaxDepth
         /\ stack'[Len(st) + 1] = t /\ \A i \in 1..Len(st) : stack'[i] = st[i]
  BY AppendProperties, CacheAssumption

LEMMA NewTaskType ==
  ASSUME NEW k \in {"cl", "script", "ext"}, NEW p \in Pid \cup {NoPid},
         NEW x \in Exe \cup {NoExe}
  PROVE  /\ NewTask(k, p, x) \in Task /\ NewTask(k, p, x).kind = k
         /\ NewTask(k, p, x).pid = p /\ NewTask(k, p, x).exe = x
         /\ NewTask(k, p, x).running
  BY CacheAssumption DEF NewTask, Task

LEMMA StartTypes ==
  ASSUME IInv, Start
  PROVE  TypeOK'
  <1> DEFINE t == NewTask("ext", slot[job.s].pid, job.exe)
  <1>1. /\ slot[job.s].pid \in Pid /\ job.exe \in Exe \cup {NoExe} /\ Top < MaxDepth
        /\ stack' = Append(stack, t)
        /\ job' = NoJob /\ UNCHANGED <<sz, slot, rank, pr_pno, child, hist>>
    BY DEF Start, IInv, JobInv, Connecting, TypeOK, Job
  <1>2. t \in Task
    BY <1>1, NewTaskType
  <1> HIDE DEF t
  <1>3. stack' \in Seq(Task) /\ Len(stack') \in 1..MaxDepth
    BY <1>1, <1>2, Pushed DEF IInv, TypeOK, Top
  <1> QED BY <1>1, <1>3, JobTypes DEF IInv, TypeOK, Top

LEMMA AgainJob ==
  ASSUME TypeOK, NEW x \in job.again \cup {NoExe}
  PROVE  /\ Again(x) \in Job /\ Again(x).at \in {"none", "find"}
         /\ Again(x).todo = {} /\ Again(x).size = 0
         /\ Again(x).at = "find" => Again(x).use = "relock"
         /\ Again(x).then = "none"
  <1> DEFINE j == [NoJob EXCEPT !.at = "find", !.use = "relock", !.exe = x,
                                !.again = job.again \ {x}]
  <1>1. job.again \subseteq Exe
    BY DEF TypeOK, Job
  <1>2. /\ j \in Job /\ j.at = "find" /\ j.todo = {} /\ j.size = 0 /\ j.use = "relock"
        /\ j.then = "none"
    BY <1>1, JobTypes DEF NoJob, Job
  <1>3. Again(x) = IF job.again = {} THEN NoJob ELSE j
    BY DEF Again
  <1>4. NoJob.then = "none"
    BY DEF NoJob
  <1> HIDE DEF j
  <1> QED BY <1>2, <1>3, <1>4, JobTypes

LEMMA StartLockedTypes ==
  ASSUME IInv, StartLocked
  PROVE  TypeOK'
  <1> DEFINE p == slot[job.s].pid
             e(s) == IF s \in Linked /\ slot[s].pid = p
                     THEN [Disconnected({p})[s] EXCEPT !.locked = TRUE]
                     ELSE Disconnected({p})[s]
  <1>1. /\ slot' = [s \in Slots |-> e(s)]
        /\ CheckUp /\ UNCHANGED <<sz, pr_pno, stack, hist>>
    BY DEF StartLocked
  <1>2. ASSUME NEW s \in Slots
        PROVE  e(s) \in Process
    <2>1. Disconnected({p})[s] \in Process
      BY DisconnectedTypes DEF IInv
    <2> QED BY <2>1 DEF Process
  <1> HIDE DEF e
  <1>3. slot' \in [Slots -> Process]
    BY <1>1, <1>2
  <1>4. rank' \in [Slots -> 0..MAXSUBPROC] /\ child' \in [Pid -> Child]
    BY <1>1, CheckedTypes DEF CheckUp, IInv
  <1>5. job' \in Job
    BY AgainJob DEF StartLocked, IInv
  <1> QED BY <1>1, <1>3, <1>4, <1>5 DEF IInv, TypeOK, Top

LEMMA SeenDeadTypes ==
  ASSUME IInv, job.at \in {"start", "close"}, SeenDead
  PROVE  TypeOK'
  <1>1. /\ child' = [child EXCEPT ![slot[job.s].pid].st = "known"]
        /\ job' = [NoJob EXCEPT !.at = "raise"]
        /\ UNCHANGED <<sz, slot, rank, pr_pno, stack, hist>>
    BY DEF SeenDead
  <1>2. child' \in [Pid -> Child]
    <2>1. child \in [Pid -> Child]
      BY DEF IInv, TypeOK
    <2>2. \A c \in Child : [c EXCEPT !.st = "known"] \in Child
      BY DEF Child
    <2> QED BY <1>1, <2>1, <2>2
  <1>3. job' \in Job
    BY <1>1, JobTypes DEF Job
  <1> QED BY <1>1, <1>2, <1>3 DEF IInv, TypeOK, Top

LEMMA CloseTypes ==
  ASSUME IInv, Close
  PROVE  TypeOK'
  <1>1. job.s \in Linked /\ job.s \in Slots /\ job \in Job
    BY SlotNumbers DEF Close, IInv, JobInv, TypeOK
  <1>2. UNCHANGED <<sz, pr_pno, stack, hist>>
    BY DEF Close
  <1>3. slot' \in [Slots -> Process]
    <2>1. slot' = [slot EXCEPT ![job.s] = Emptied(slot[job.s])]
      BY DEF Close
    <2>2. Emptied(slot[job.s]) \in Process
      BY <1>1, ProcessTypes DEF IInv, TypeOK
    <2> QED BY <2>1, <2>2 DEF IInv, TypeOK
  <1>4. child' \in [Pid -> Child]
    <2>1. child' = [child EXCEPT ![slot[job.s].pid] = Gone]
      BY DEF Close
    <2> QED BY <2>1, ProcessTypes DEF IInv, TypeOK
  <1>5. rank' \in [Slots -> 0..MAXSUBPROC]
    <2>1. ToTail(rank, {job.s}) \in [Slots -> 0..MAXSUBPROC]
      BY <1>1, ToTailType DEF IInv, TypeOK
    <2>2. ToHead(ToTail(rank, {job.s}), job.s) \in [Slots -> 0..MAXSUBPROC]
      BY <1>1, <2>1, ToHeadType DEF IInv, TypeOK
    <2> QED BY <2>1, <2>2 DEF Close
  <1>6. job' \in Job
    <2>1. job' = [job EXCEPT !.at = job.then, !.then = "none"]
      BY DEF Close
    <2> QED BY <1>1, <2>1 DEF Job
  <1> QED BY <1>2, <1>3, <1>4, <1>5, <1>6 DEF IInv, TypeOK, Top

LEMMA DumpTypes ==
  ASSUME IInv, DumpNext \/ DumpEnd \/ Resize
  PROVE  TypeOK'
  <1>1. CASE DumpNext
    <2> DEFINE s == Lowest(job.todo)
               e == [slot[s] EXCEPT !.locked = @ /\ ~(job.break /\ ~slot[s].active)]
               rest == [job EXCEPT !.todo = @ \ {s}]
    <2>1. /\ slot' = [slot EXCEPT ![s] = e]
          /\ job' = IF Busy(e) THEN rest
                    ELSE [rest EXCEPT !.at = "close", !.s = s, !.then = "dump"]
          /\ UNCHANGED <<sz, rank, pr_pno, child, stack, hist>>
      BY <1>1 DEF DumpNext
    <2>2. s \in Slots /\ job \in Job
      <3>1. job.todo \subseteq Slots /\ job.todo # {}
        BY <1>1, SlotNumbers DEF DumpNext, IInv, JobInv, TypeOK
      <3> QED BY <3>1, LowestIn DEF IInv, TypeOK
    <2> HIDE DEF s
    <2>3. e \in Process
      <3>1. slot[s] \in Process /\ job.break \in BOOLEAN
        BY <2>2 DEF IInv, TypeOK, Job
      <3> QED BY <3>1 DEF Process
    <2>4. slot' \in [Slots -> Process]
      <3> HIDE DEF e
      <3> QED BY <2>1, <2>2, <2>3 DEF IInv, TypeOK
    <2>5. rest \in Job
      BY <2>2 DEF Job
    <2>6. job' \in Job
      <3> HIDE DEF e, rest
      <3>1. [rest EXCEPT !.at = "close", !.s = s, !.then = "dump"] \in Job
        BY <2>2, <2>5, ZenonT(60) DEF Job
      <3> QED BY <2>1, <2>5, <3>1
    <2> QED BY <2>1, <2>4, <2>6 DEF IInv, TypeOK, Top
  <1>2. CASE DumpEnd
    <2>1. /\ job' = NoJob /\ UNCHANGED <<sz, slot, rank, child, stack>>
          /\ \/ pr_pno' = 1 /\ hist' = [hist EXCEPT !.reset = \E i \in 1..Top : stack[i].pno # 0]
             \/ pr_pno' = pr_pno /\ hist' = hist
      BY <1>2 DEF DumpEnd
    <2>2. 1 \in 1..MaxPno
      BY CacheAssumption
    <2> QED BY <2>1, <2>2, JobTypes DEF IInv, TypeOK, Top
  <1>3. CASE Resize
    <2>1. /\ sz' = job.size /\ slot' = [s \in Slots |-> NoProcess]
          /\ rank' = InitRank(job.size) /\ pr_pno' = 1
          /\ hist' = [hist EXCEPT !.reset = \E i \in 1..Top : stack[i].pno # 0]
          /\ UNCHANGED <<child, stack>>
      BY <1>3 DEF Resize
    <2>2. job.size \in Sizes /\ job.size \in 0..MAXSUBPROC
      <3>1. job.size \in Sizes \cup {0} /\ job.size # 0
        BY <1>3 DEF Resize, IInv, TypeOK, Job
      <3>2. Sizes \subseteq 0..MAXSUBPROC
        BY CacheAssumption
      <3> QED BY <3>1, <3>2
    <2>3. rank' \in [Slots -> 0..MAXSUBPROC]
      <3>1. \A s \in Slots : InitRank(job.size)[s] \in 0..MAXSUBPROC
        BY <2>2, CacheAssumption DEF InitRank, Slots
      <3> QED BY <2>1, <3>1 DEF InitRank
    <2>4. job' \in Job
      <3>1. PICK again \in SUBSET job.again :
              IF again = {} THEN job' = NoJob
              ELSE \E x \in again :
                     job' = [NoJob EXCEPT !.at = "find", !.use = "relock", !.exe = x,
                                          !.again = again \ {x}]
        BY <1>3 DEF Resize
      <3>2. again \subseteq Exe
        BY DEF IInv, TypeOK, Job
      <3>3. ASSUME NEW x \in again
            PROVE  [NoJob EXCEPT !.at = "find", !.use = "relock", !.exe = x,
                                 !.again = again \ {x}] \in Job
        BY <3>2, JobTypes DEF Job
      <3> QED BY <3>1, <3>3, JobTypes
    <2>5. slot' \in [Slots -> Process] /\ 1 \in 1..MaxPno
      BY <2>1, ProcessTypes, CacheAssumption
    <2> QED BY <2>1, <2>2, <2>3, <2>4, <2>5 DEF IInv, TypeOK, Top
  <1> QED BY <1>1, <1>2, <1>3

LEMMA FlushTypes ==
  ASSUME TypeOK, NEW S \in SUBSET Linked, NEW break \in BOOLEAN, Flush(S, break)
  PROVE  TypeOK'
  <1> DEFINE todo == {s \in S : Checked[s].pid # NoPid}
  <1>1. /\ stack' = Called /\ slot' = Checked /\ CheckUp
        /\ job' = [NoJob EXCEPT !.at = "dump", !.break = break, !.todo = todo]
        /\ UNCHANGED <<sz, pr_pno, hist>>
    BY DEF Flush
  <1>2. todo \subseteq Slots
    BY SlotNumbers DEF TypeOK
  <1> HIDE DEF todo
  <1>3. job' \in Job
    BY <1>1, <1>2, JobTypes DEF Job
  <1> QED BY <1>1, <1>3, CheckedTypes, CalledStack DEF CheckUp, TypeOK, Top

LEMMA FlushCases ==
  ASSUME FlushAll \/ FlushOne
  PROVE  job.at = "none" /\ \E S \in SUBSET Linked, break \in BOOLEAN : Flush(S, break)
  <1>1. CASE FlushAll
    BY <1>1 DEF FlushAll
  <1>2. CASE FlushOne
    <2>1. job.at = "none"
      BY <1>2 DEF FlushOne
    <2>2. PICK s \in Linked : Flush({t \in Linked : slot[t].pid = slot[s].pid}, TRUE)
      BY <1>2 DEF FlushOne
    <2>3. {t \in Linked : slot[t].pid = slot[s].pid} \in SUBSET Linked
      OBVIOUS
    <2> QED BY <2>1, <2>2, <2>3
  <1> QED BY <1>1, <1>2

LEMMA CacheTaskTypes ==
  ASSUME TypeOK, NEW x \in Exe, CacheTask(x)
  PROVE  TypeOK'
  <1> DEFINE named == {s \in Linked : Checked[s].exe = x}
             t == CHOOSE t \in named : \A u \in named : CheckedRank[t] <= CheckedRank[u]
  <1>1. /\ stack' = Called /\ CheckUp /\ UNCHANGED <<sz, pr_pno, hist>>
        /\ \/ slot' = [Checked EXCEPT ![t].locked = TRUE] /\ job' = job
           \/ slot' = Checked
              /\ job' = [NoJob EXCEPT !.at = "find", !.exe = x, !.use = "lock"]
    BY DEF CacheTask
  <1> HIDE DEF t
  <1>2. slot' \in [Slots -> Process]
    <2>1. CASE slot' = [Checked EXCEPT ![t].locked = TRUE]
      BY <2>1, CheckedTypes DEF Process
    <2> QED BY <1>1, <2>1, CheckedTypes
  <1>3. job' \in Job
    <2>1. [NoJob EXCEPT !.at = "find", !.exe = x, !.use = "lock"] \in Job
      BY JobTypes DEF Job
    <2> QED BY <1>1, <2>1 DEF TypeOK
  <1> QED BY <1>1, <1>2, <1>3, CheckedTypes, CalledStack DEF CheckUp, TypeOK, Top

LEMMA SetCacheTypes ==
  ASSUME TypeOK, NEW n \in Sizes, SetCache(n), SlotInv
  PROVE  TypeOK'
  <1> DEFINE todo == {s \in Linked : Checked[s].pid # NoPid}
             again == {slot[s].exe : s \in {t \in Linked : slot[t].pid # NoPid
                                                           /\ slot[t].locked}}
  <1>1. /\ slot' = Checked /\ CheckUp /\ UNCHANGED <<sz, pr_pno, stack, hist>>
        /\ job' = [NoJob EXCEPT !.at = "dump", !.break = TRUE, !.size = n,
                                !.todo = todo, !.again = again]
    BY DEF SetCache
  <1>2. todo \subseteq Slots
    BY SlotNumbers DEF TypeOK
  <1>3. again \subseteq Exe
    BY SlotNumbers DEF TypeOK, SlotInv
  <1> HIDE DEF todo, again
  <1>4. job' \in Job
    BY <1>1, <1>2, <1>3, JobTypes DEF Job
  <1> QED BY <1>1, <1>4, CheckedTypes DEF CheckUp, TypeOK, Top

LEMMA TaskTypes ==
  ASSUME IInv, RunScript \/ DefinePackage \/ RunCl \/ Bye \/ \E x \in Exe : Run(x)
  PROVE  TypeOK'
  <1>1. ASSUME NEW x \in Exe, Run(x)
        PROVE  TypeOK'
    <2>1. stack' = Called /\ UNCHANGED <<sz, slot, rank, pr_pno, child, hist>>
      BY <1>1 DEF Run
    <2>2. job' \in Job
      BY <1>1, JobTypes DEF Run, Job
    <2> QED BY <2>1, <2>2, CalledStack DEF IInv, TypeOK, Top
  <1>2. CASE RunScript \/ RunCl
    <2>1. PICK k \in {"cl", "script"} :
            /\ stack' = Append(Called, NewTask(k, NoPid, NoExe)) /\ Top < MaxDepth
            /\ UNCHANGED <<sz, slot, rank, pr_pno, child, job, hist>>
      BY <1>2 DEF RunScript, RunCl
    <2>2. NewTask(k, NoPid, NoExe) \in Task
      BY NewTaskType
    <2>3. stack' \in Seq(Task) /\ Len(stack') \in 1..MaxDepth
      BY <2>1, <2>2, CalledStack, Pushed DEF IInv
    <2> QED BY <2>1, <2>3 DEF IInv, TypeOK, Top
  <1>3. CASE DefinePackage
    <2> DEFINE B == {slot[s].pid : s \in Linked} \ {NoPid}
               c == [Called[Top - 1] EXCEPT !.pno = pr_pno, !.before = B]
    <2>1. /\ stack' = [Called EXCEPT ![Top-1].pno = pr_pno, ![Top-1].before = B]
          /\ pr_pno' = pr_pno + 1 /\ pr_pno < MaxPno /\ Top > 1
          /\ hist' = [hist EXCEPT !.reset = @ /\ \E i \in 1..Top : stack[i].pno # 0]
          /\ UNCHANGED <<sz, slot, rank, child, job>>
      BY <1>3 DEF DefinePackage
    <2>2. B \subseteq Pid
      BY SlotNumbers DEF IInv, TypeOK, Process
    <2>3. /\ Top - 1 \in 1..Top /\ Called \in Seq(Task) /\ Len(Called) = Top
          /\ Called[Top - 1] \in Task
      BY <2>1, CalledStack, CacheAssumption, SMTT(30) DEF IInv, TypeOK
    <2>4. c \in Task
      <3> HIDE DEF B
      <3>1. pr_pno \in 0..MaxPno
        BY CacheAssumption DEF IInv, TypeOK
      <3> QED BY <2>2, <2>3, <3>1 DEF Task
    <2>5. stack' = [Called EXCEPT ![Top - 1] = c]
      BY <2>1, <2>3
    <2> HIDE DEF B, c
    <2>6. stack' \in Seq(Task) /\ Len(stack') = Top
      BY <2>3, <2>4, <2>5, ExceptSeq
    <2>7. pr_pno' \in 1..MaxPno
      BY <2>1, CacheAssumption DEF IInv, TypeOK
    <2>8. hist' \in [leaked : SUBSET Pid, hurt : SUBSET Pid, raced : SUBSET Pid,
                     reset : BOOLEAN, events : 0..MaxEvents]
      BY <2>1 DEF IInv, TypeOK
    <2> QED BY <2>1, <2>6, <2>7, <2>8 DEF IInv, TypeOK, Top
  <1>4. CASE Bye
    <2> DEFINE P == Processes(Top - 1)
    <2>1. /\ FinishTasks(P, stack[Top-1].pno # 0) /\ job' = Restored(Top - 1)
          /\ stack' = SubSeq(stack, 1, Top - 1) /\ Top - 1 \in 1..Top
          /\ UNCHANGED <<sz, pr_pno, hist>>
      BY <1>4, CacheAssumption DEF Bye, IInv, TypeOK
    <2> HIDE DEF P
    <2>2. stack' \in Seq(Task) /\ Len(stack') \in 1..MaxDepth
      BY <2>1, Prefix DEF IInv
    <2> QED BY <2>1, <2>2, FinishTypes, RestoredJob DEF IInv, TypeOK, Top
  <1> QED BY <1>1, <1>2, <1>3, <1>4

LEMMA RevivedPids ==
  ASSUME TypeOK
  PROVE  Revived \subseteq Pid
  <1>1. \A i \in 1..Top : stack[i] \in Task
    BY DEF TypeOK, Top
  <1>2. \A i \in 1..Top : stack[i].pid \in Pid \cup {NoPid}
    BY <1>1 DEF Task
  <1> QED BY <1>2 DEF Revived

LEMMA EventTypes ==
  ASSUME IInv, Interrupt \/ Environment
  PROVE  TypeOK'
  <1>1. hist.events + 1 \in 0..MaxEvents /\ hist.events \in Nat
    <2>1. hist.events < MaxEvents
      BY Zenon DEF Interrupt, Environment
    <2>2. hist.events \in 0..MaxEvents
      BY DEF IInv, TypeOK
    <2> QED BY <2>1, <2>2, CacheAssumption
  <1>2. CASE Interrupt
    <2> DEFINE p == slot[job.s].pid
    <2>1. PICK drop \in BOOLEAN :
            /\ job' = IF drop THEN NoJob ELSE [NoJob EXCEPT !.at = "raise"]
            /\ hist' = [hist EXCEPT
                 !.leaked = IF job.at = "start" THEN @ \cup {p} ELSE @,
                 !.hurt = IF job.at \in {"stat", "close"} THEN @ \cup {p}
                          ELSE IF job.at = "unwind" /\ drop THEN @ \cup Revived
                          ELSE @,
                 !.events = @ + 1]
            /\ child' = IF job.at = "close" THEN [child EXCEPT ![p].st = "closing"] ELSE child
            /\ UNCHANGED <<sz, slot, rank, pr_pno, stack>>
      BY <1>2 DEF Interrupt
    <2>2. /\ job.at \in {"stat", "start", "close"} => p \in Pid
          /\ Revived \subseteq Pid
      BY RevivedPids DEF IInv, JobInv
    <2> HIDE DEF p
    <2>3. hist' \in [leaked : SUBSET Pid, hurt : SUBSET Pid, raced : SUBSET Pid,
                     reset : BOOLEAN, events : 0..MaxEvents]
      BY <1>1, <2>1, <2>2 DEF IInv, TypeOK
    <2>4. child' \in [Pid -> Child]
      BY <2>1 DEF IInv, TypeOK, Child
    <2>5. job' \in Job
      <3>1. [NoJob EXCEPT !.at = "raise"] \in Job
        BY JobTypes DEF Job
      <3> QED BY <2>1, <3>1, JobTypes
    <2> QED BY <2>1, <2>3, <2>4, <2>5 DEF IInv, TypeOK, Top
  <1>3. CASE Environment
    <2>1. hist' \in [leaked : SUBSET Pid, hurt : SUBSET Pid, raced : SUBSET Pid,
                     reset : BOOLEAN, events : 0..MaxEvents]
      BY <1>1, <1>3 DEF Environment, IInv, TypeOK
    <2>2. ASSUME NEW p \in Pid, ChildDies(p)
          PROVE  TypeOK'
      <3>1. child' \in [Pid -> Child]
        BY <2>2 DEF ChildDies, IInv, TypeOK, Child
      <3> QED BY <2>1, <2>2, <3>1 DEF ChildDies, IInv, TypeOK, Top
    <2>3. ASSUME NEW x \in Exe, Relink(x)
          PROVE  TypeOK'
      <3>1. child' \in [Pid -> Child]
        <4>1. \A p \in Pid : [child[p] EXCEPT !.new = FALSE] \in Child
          BY DEF IInv, TypeOK, Child
        <4> QED BY <2>3, <4>1 DEF Relink, IInv, TypeOK
      <3>2. slot' \in [Slots -> Process]
        <4>1. \A s \in Slots : [slot[s] EXCEPT !.fresh = FALSE] \in Process
          BY DEF IInv, TypeOK, Process
        <4> QED BY <2>3, <4>1 DEF Relink, IInv, TypeOK
      <3>3. job' \in Job
        <4>1. job \in Job /\ [job EXCEPT !.time = "old"] \in Job
          BY DEF IInv, TypeOK, Job
        <4> QED BY <2>3, <4>1 DEF Relink
      <3> QED BY <2>1, <2>3, <3>1, <3>2, <3>3 DEF Relink, IInv, TypeOK, Top
    <2> QED BY <1>3, <2>2, <2>3 DEF Environment
  <1> QED BY <1>2, <1>3

LEMMA NextTypes ==
  ASSUME IInv, [Next]_vars
  PROVE  TypeOK'
  <1>0. TypeOK /\ SlotInv /\ TaskInv
    BY DEF IInv
  <1>1. CASE Step
    <2>1. CASE FindReuse \/ FindStale \/ FindNone \/ GetSlot \/ Spawn \/ Stat \/ Start
               \/ StartLocked \/ Close \/ DumpNext \/ DumpEnd \/ Resize
      BY <1>0, <2>1, FindTypes, GetTypes, SpawnTypes, StatTypes, StartTypes,
         StartLockedTypes, CloseTypes, DumpTypes
    <2>2. CASE GetFails \/ SpawnFails \/ Raise
      BY <1>0, <2>2, FailureRecovers, RecoverTypes DEF Failure
    <2>3. CASE StartFails \/ CloseFails
      BY <2>3, SeenDeadTypes DEF StartFails, CloseFails
    <2>4. CASE Unwind \/ Resume
      BY <1>0, <2>4, UnwindTypes
    <2> QED BY <1>1, <2>1, <2>2, <2>3, <2>4 DEF Step
  <1>2. CASE Command
    <2>1. CASE FlushAll \/ FlushOne
      BY <1>0, <2>1, FlushCases, FlushTypes
    <2>2. CASE TaskFails \/ ErrorStatement
      BY <1>0, <2>2, FailureRecovers, RecoverTypes DEF Failure
    <2>3. CASE (\E x \in Exe : CacheTask(x)) \/ \E n \in Sizes : SetCache(n)
      BY <1>0, <2>3, CacheTaskTypes, SetCacheTypes
    <2>4. CASE RunScript \/ DefinePackage \/ RunCl \/ Bye \/ \E x \in Exe : Run(x)
      BY <2>4, TaskTypes
    <2> QED BY <1>2, <2>1, <2>2, <2>3, <2>4 DEF Command
  <1>3. CASE Interrupt \/ Environment
    BY <1>3, EventTypes
  <1>4. CASE UNCHANGED vars
    BY <1>0, <1>4 DEF vars, TypeOK, Top
  <1> QED BY <1>1, <1>2, <1>3, <1>4 DEF Next

-----------------------------------------------------------------------------
(* What a step does to the slots, the children and the tasks.              *)

\* Slots are emptied, the processes P lose the tasks in them, and the slots A
\* are marked in use.
Tidied(P, A) ==
    /\ \A s \in Slots :
          \/ /\ slot'[s].pid = NoPid /\ ~slot'[s].active /\ ~slot'[s].fresh
             /\ slot[s].active => child[slot[s].pid].st = "known"
          \/ /\ slot[s].pid \in Pid /\ slot'[s].pid = slot[s].pid
             /\ slot'[s].exe = slot[s].exe /\ slot'[s].fresh = slot[s].fresh
             /\ slot'[s].active <=> s \in A \/ (slot[s].active /\ slot[s].pid \notin P)
             /\ child'[slot[s].pid] = child[slot[s].pid]
    /\ \A s \in Slots : slot'[s].locked => slot'[s].exe \in Exe
    /\ \A p \in Pid : child'[p] \in {child[p], Gone}
    /\ sz' = sz
    /\ hist'.hurt = hist.hurt /\ hist'.raced = hist.raced /\ hist'.leaked = hist.leaked

\* No task is started; some may be gone.
Kept ==
    /\ Len(stack') \in 1..Top
    /\ \A i \in 1..Len(stack') : /\ stack'[i].kind = stack[i].kind
                                 /\ stack'[i].pid = stack[i].pid
                                 /\ stack'[i].exe = stack[i].exe
                                 /\ stack'[i].running => stack[i].running

\* The same tasks are left, and run as before.
SameTasks ==
    /\ Len(stack') = Top
    /\ \A i \in 1..Top : /\ stack'[i].kind = stack[i].kind
                         /\ stack'[i].pid = stack[i].pid
                         /\ stack'[i].exe = stack[i].exe
                         /\ stack'[i].running = stack[i].running

\* Of the tasks the first n are left, and of these the first k run as before.
Left(n, k) ==
    /\ Len(stack') = n
    /\ \A i \in 1..n : /\ stack'[i].kind = stack[i].kind
                       /\ stack'[i].pid = stack[i].pid
                       /\ stack'[i].exe = stack[i].exe
                       /\ stack'[i].pno = stack[i].pno
                       /\ stack'[i].before = stack[i].before
                       /\ stack'[i].running <=> i <= k /\ stack[i].running

LEMMA StackKept ==
  ASSUME TypeOK, SameTasks \/ \E n \in 1..Top : \E k \in 1..n : Left(n, k)
  PROVE  Kept
  <1>1. Top \in 1..Top /\ Top \in Nat
    BY CacheAssumption DEF TypeOK
  <1> QED BY <1>1 DEF Kept, SameTasks, Left

LEMMA StackSame ==
  ASSUME TypeOK, stack' = stack \/ stack' = Called
  PROVE  SameTasks /\ Kept
  <1>1. CASE stack' = stack
    BY <1>1, StackKept DEF SameTasks, Top
  <1>2. CASE stack' = Called
    BY <1>2, CalledStack, StackKept DEF SameTasks
  <1> QED BY <1>1, <1>2

LEMMA PrefixLeft ==
  ASSUME TypeOK, NEW k \in 1..Top, stack' = SubSeq(stack, 1, k)
  PROVE  Left(k, k)
  <1>1. Len(stack') = k /\ \A i \in 1..k : stack'[i] = stack[i] /\ i <= k
    BY Prefix, CacheAssumption DEF TypeOK
  <1>2. \A i \in 1..k : stack[i].running \in BOOLEAN
    <2>1. \A i \in 1..k : stack[i] \in Task
      BY CacheAssumption DEF TypeOK, Top
    <2> QED BY <2>1 DEF Task
  <1> QED BY <1>1, <1>2 DEF Left

LEMMA CheckedSlots ==
  ASSUME TypeOK, SlotInv, NEW s \in Slots
  PROVE  \/ /\ s \in Dead /\ Checked[s].pid = NoPid /\ ~Checked[s].active
            /\ ~Checked[s].fresh /\ ~Checked[s].locked
            /\ Checked[s].exe = slot[s].exe
            /\ slot[s].pid \in Pid /\ child[slot[s].pid].st = "known"
         \/ /\ s \notin Dead /\ Checked[s] = slot[s]
            /\ slot[s].pid \in Pid => CheckedChild[slot[s].pid] = child[slot[s].pid]
  <1>1. slot[s] \in Process /\ slot[s].pid \in Pid \cup {NoPid}
    BY DEF TypeOK, Process
  <1>2. CASE s \in Dead
    <2>1. Checked[s] = Emptied(slot[s])
      BY <1>2 DEF Checked
    <2> QED BY <1>1, <1>2, <2>1, ProcessTypes DEF Dead
  <1>3. CASE s \notin Dead
    <2>1. Checked[s] = slot[s]
      BY <1>3 DEF Checked
    <2>2. ASSUME slot[s].pid \in Pid
          PROVE  ~\E t \in Dead : slot[t].pid = slot[s].pid
      <3>1. slot[s].pid # NoPid
        BY <2>2, CacheAssumption
      <3>2. Dead \subseteq Slots
        BY CheckedTypes, SlotNumbers DEF TypeOK
      <3> QED BY <1>3, <3>1, <3>2 DEF SlotInv
    <2> QED BY <1>3, <2>1, <2>2 DEF CheckedChild
  <1> QED BY <1>2, <1>3

LEMMA CheckedChildren ==
  ASSUME TypeOK, NEW p \in Pid
  PROVE  CheckedChild[p] \in {child[p], Gone}
  BY DEF CheckedChild

\* pr_checkup alone, or as the first part of pr_disconnect.
LEMMA DisconnectTidies ==
  ASSUME IInv, NEW P, slot' = Disconnected(P) \/ (slot' = Checked /\ P = {}), CheckUp,
         UNCHANGED <<sz, hist>>
  PROVE  Tidied(P, {})
  <1>1. ASSUME NEW s \in Slots
        PROVE  /\ \/ /\ slot'[s].pid = NoPid /\ ~slot'[s].active /\ ~slot'[s].fresh
                     /\ slot[s].active => child[slot[s].pid].st = "known"
                  \/ /\ slot[s].pid \in Pid /\ slot'[s].pid = slot[s].pid
                     /\ slot'[s].exe = slot[s].exe /\ slot'[s].fresh = slot[s].fresh
                     /\ slot'[s].active <=> slot[s].active /\ slot[s].pid \notin P
                     /\ child'[slot[s].pid] = child[slot[s].pid]
               /\ slot'[s].locked => slot'[s].exe \in Exe
    <2>1. Checked[s] \in Process /\ slot[s] \in Process /\ slot[s].pid \in Pid \cup {NoPid}
      BY CheckedTypes DEF IInv, TypeOK, Process
    <2>2. child' = CheckedChild
      BY DEF CheckUp
    <2>3. /\ slot'[s].pid = Checked[s].pid /\ slot'[s].exe = Checked[s].exe
          /\ slot'[s].fresh = Checked[s].fresh /\ slot'[s].locked = Checked[s].locked
          /\ slot'[s].active <=> Checked[s].active /\ ~(s \in Linked /\ Checked[s].pid \in P)
      <3>1. CASE slot' = Disconnected(P)
        <4>1. slot'[s] = IF s \in Linked /\ Checked[s].pid \in P
                         THEN [Checked[s] EXCEPT !.active = FALSE] ELSE Checked[s]
          BY <3>1 DEF Disconnected
        <4> QED BY <2>1, <4>1 DEF Process
      <3>2. CASE slot' = Checked /\ P = {}
        BY <3>2
      <3> QED BY <3>1, <3>2
    <2>4. slot[s].locked => slot[s].exe \in Exe
      BY DEF IInv, SlotInv
    <2>5. CASE s \in Dead
      BY <2>3, <2>5, CheckedSlots DEF IInv
    <2>6. CASE s \notin Dead
      <3>1. Checked[s] = slot[s] /\ (slot[s].pid \in Pid => child'[slot[s].pid] = child[slot[s].pid])
        BY <2>2, <2>6, CheckedSlots DEF IInv
      <3>2. CASE slot[s].pid = NoPid
        <4>1. ~slot[s].active /\ ~slot[s].fresh
          BY <3>2 DEF IInv, SlotInv
        <4> QED BY <2>3, <2>4, <3>1, <3>2, <4>1
      <3>3. CASE slot[s].pid \in Pid
        <4>1. s \in Linked
          BY <3>3, CacheAssumption DEF IInv, SlotInv
        <4> QED BY <2>3, <2>4, <3>1, <3>3, <4>1
      <3> QED BY <2>1, <3>2, <3>3
    <2> QED BY <2>5, <2>6
  <1>2. \A p \in Pid : child'[p] \in {child[p], Gone}
    BY CheckedChildren DEF CheckUp, IInv
  <1> QED BY <1>1, <1>2 DEF Tidied

LEMMA UnchangedTidies ==
  ASSUME IInv, UNCHANGED <<sz, slot, child>>,
         hist'.hurt = hist.hurt, hist'.raced = hist.raced, hist'.leaked = hist.leaked
  PROVE  Tidied({}, {})
  <1>1. \A s \in Slots : slot[s].pid \in Pid \cup {NoPid}
    BY DEF IInv, TypeOK, Process
  <1>2. \A s \in Slots : slot[s].pid = NoPid => ~slot[s].active /\ ~slot[s].fresh
    BY DEF IInv, SlotInv
  <1>3. \A s \in Slots : slot[s].locked => slot[s].exe \in Exe
    BY DEF IInv, SlotInv
  <1> QED BY <1>1, <1>2, <1>3 DEF Tidied

LEMMA FinishTidies ==
  ASSUME IInv, NEW P, NEW pruned, FinishTasks(P, pruned), UNCHANGED <<sz, hist>>
  PROVE  Tidied(P, {})
  <1>1. CASE P = {} /\ ~pruned
    BY <1>1, UnchangedTidies DEF FinishTasks
  <1>2. CASE ~(P = {} /\ ~pruned)
    BY <1>2, DisconnectTidies DEF FinishTasks
  <1> QED BY <1>1, <1>2

LEMMA TidiedSlots ==
  ASSUME IInv, TypeOK', NEW P, NEW A, Tidied(P, A), job.at # "stat"
  PROVE  SlotInv'
  <1>1. ASSUME NEW s \in Slots, s \notin Linked'
        PROVE  slot'[s].pid = NoPid
    <2>1. s \notin Linked /\ slot[s].pid = NoPid
      BY <1>1 DEF Tidied, Linked, IInv, SlotInv
    <2> QED BY <2>1, CacheAssumption DEF Tidied
  <1>2. ASSUME NEW s \in Slots, NEW t \in Slots,
               slot'[s].pid = slot'[t].pid, slot'[s].pid # NoPid
        PROVE  s = t
    <2>1. slot[s].pid = slot[t].pid /\ slot[s].pid # NoPid
      BY <1>2 DEF Tidied
    <2> QED BY <2>1 DEF IInv, SlotInv
  <1>3. ASSUME NEW s \in Slots, slot'[s].pid = NoPid
        PROVE  ~slot'[s].active /\ ~slot'[s].fresh
    BY <1>3, CacheAssumption DEF Tidied
  <1>4. ASSUME NEW s \in Slots, slot'[s].pid \in Pid
        PROVE  /\ \/ slot'[s].pid \in hist'.hurt
                  \/ child'[slot'[s].pid].exe = slot'[s].exe
               /\ slot'[s].fresh => \/ child'[slot'[s].pid].new
                                    \/ slot'[s].pid \in hist'.raced \cup hist'.hurt
    <2>1. /\ slot[s].pid \in Pid /\ slot'[s].pid = slot[s].pid
          /\ slot'[s].exe = slot[s].exe /\ slot'[s].fresh = slot[s].fresh
          /\ child'[slot[s].pid] = child[slot[s].pid]
          /\ hist'.hurt = hist.hurt /\ hist'.raced = hist.raced
      BY <1>4, CacheAssumption DEF Tidied
    <2> QED BY <2>1 DEF IInv, SlotInv, Filling
  <1>5. \A s \in Slots : slot'[s].locked => slot'[s].exe \in Exe
    BY DEF Tidied
  <1> QED BY <1>1, <1>2, <1>3, <1>4, <1>5 DEF SlotInv

\* A process that is found is taken into use.
LEMMA ReuseTidies ==
  ASSUME IInv, FindReuse
  PROVE  /\ Tidied({}, {Found})
         /\ Found \in Linked /\ slot'[Found].pid \in Pid /\ slot'[Found].active
         /\ slot'[Found].exe = job.exe /\ slot[Found] = Checked[Found]
         /\ ~slot[Found].active /\ slot'[Found].pid = slot[Found].pid
  <1>1. /\ slot' = [Checked EXCEPT ![Found].active = TRUE]
        /\ child' = CheckedChild /\ UNCHANGED <<sz, hist>>
    BY DEF FindReuse
  <1>2. /\ Found \in Linked /\ Found \in Slots /\ Checked[Found].pid # NoPid
        /\ ~Checked[Found].active /\ Checked[Found].exe = job.exe
    BY FoundIdling, SlotNumbers DEF FindReuse, IInv, TypeOK, Idling
  <1>3. Checked \in [Slots -> Process]
    BY CheckedTypes DEF IInv
  <1>4. Found \notin Dead /\ slot[Found] = Checked[Found] /\ slot[Found].pid \in Pid
    BY <1>2, <1>3, CheckedSlots DEF IInv, Process
  <1>5. /\ slot'[Found].pid = Checked[Found].pid /\ slot'[Found].exe = Checked[Found].exe
        /\ slot'[Found].fresh = Checked[Found].fresh /\ slot'[Found].active
        /\ slot'[Found].locked = Checked[Found].locked
        /\ \A s \in Slots \ {Found} : slot'[s] = Checked[s]
    BY <1>1, <1>2, <1>3 DEF Process
  <1>6. ASSUME NEW s \in Slots
        PROVE  /\ \/ /\ slot'[s].pid = NoPid /\ ~slot'[s].active /\ ~slot'[s].fresh
                     /\ slot[s].active => child[slot[s].pid].st = "known"
                  \/ /\ slot[s].pid \in Pid /\ slot'[s].pid = slot[s].pid
                     /\ slot'[s].exe = slot[s].exe /\ slot'[s].fresh = slot[s].fresh
                     /\ slot'[s].active <=> s \in {Found} \/ slot[s].active
                     /\ child'[slot[s].pid] = child[slot[s].pid]
               /\ slot'[s].locked => slot'[s].exe \in Exe
    <2>1. slot[s].locked => slot[s].exe \in Exe
      BY DEF IInv, SlotInv
    <2>2. CASE s = Found
      BY <1>1, <1>4, <1>5, <2>1, <2>2, CheckedSlots DEF IInv
    <2>3. CASE s # Found /\ s \in Dead
      BY <1>5, <2>3, CheckedSlots DEF IInv
    <2>4. CASE s # Found /\ s \notin Dead
      <3>1. slot'[s] = slot[s] /\ (slot[s].pid \in Pid => child'[slot[s].pid] = child[slot[s].pid])
        BY <1>1, <1>5, <2>4, CheckedSlots DEF IInv
      <3>2. slot[s].pid \in Pid \cup {NoPid}
        BY DEF IInv, TypeOK, Process
      <3>3. slot[s].pid = NoPid => ~slot[s].active /\ ~slot[s].fresh
        BY DEF IInv, SlotInv
      <3> QED BY <2>1, <2>4, <3>1, <3>2, <3>3
    <2> QED BY <2>2, <2>3, <2>4
  <1>7. \A p \in Pid : child'[p] \in {child[p], Gone}
    BY <1>1, CheckedChildren DEF IInv
  <1>8. Tidied({}, {Found})
    BY <1>1, <1>6, <1>7 DEF Tidied
  <1> QED BY <1>2, <1>4, <1>5, <1>8

LEMMA FindTidies ==
  ASSUME IInv, FindStale \/ FindNone
  PROVE  Tidied({}, {})
  BY DisconnectTidies DEF FindStale, FindNone

\* Close empties the slot of the process and nothing else.
LEMMA CloseTidies ==
  ASSUME IInv, Close
  PROVE  /\ Tidied({}, {}) /\ slot'[job.s].pid = NoPid
         /\ \A s \in Slots \ {job.s} : slot'[s] = slot[s]
  <1> DEFINE p == slot[job.s].pid
             e == Emptied(slot[job.s])
  <1>1. /\ slot' = [slot EXCEPT ![job.s] = e] /\ child' = [child EXCEPT ![p] = Gone]
        /\ UNCHANGED <<sz, hist>>
    BY DEF Close
  <1>2. job.s \in Slots /\ p \in Pid /\ ~slot[job.s].active
    BY SlotNumbers DEF Close, IInv, JobInv, TypeOK
  <1>3. e.pid = NoPid /\ ~e.active /\ ~e.fresh /\ ~e.locked
    BY <1>2, ProcessTypes DEF IInv, TypeOK
  <1> HIDE DEF e
  <1>4. /\ slot'[job.s] = e /\ \A s \in Slots \ {job.s} : slot'[s] = slot[s]
        /\ \A q \in Pid : child'[q] = IF q = p THEN Gone ELSE child[q]
    BY <1>1, <1>2 DEF IInv, TypeOK
  <1>5. ASSUME NEW s \in Slots
        PROVE  /\ \/ /\ slot'[s].pid = NoPid /\ ~slot'[s].active /\ ~slot'[s].fresh
                     /\ slot[s].active => child[slot[s].pid].st = "known"
                  \/ /\ slot[s].pid \in Pid /\ slot'[s].pid = slot[s].pid
                     /\ slot'[s].exe = slot[s].exe /\ slot'[s].fresh = slot[s].fresh
                     /\ slot'[s].active <=> slot[s].active
                     /\ child'[slot[s].pid] = child[slot[s].pid]
               /\ slot'[s].locked => slot'[s].exe \in Exe
    <2>1. CASE s = job.s
      BY <1>2, <1>3, <1>4, <2>1
    <2>2. CASE s # job.s
      <3>1. /\ slot[s].pid \in Pid \cup {NoPid} /\ (slot[s].pid # NoPid => slot[s].pid # p)
            /\ slot[s].locked => slot[s].exe \in Exe
            /\ slot[s].pid = NoPid => ~slot[s].active /\ ~slot[s].fresh
        BY <1>2, <2>2 DEF IInv, TypeOK, SlotInv, Process
      <3> QED BY <1>4, <2>2, <3>1, CacheAssumption
    <2> QED BY <2>1, <2>2
  <1>6. \A q \in Pid : child'[q] \in {child[q], Gone}
    BY <1>4
  <1>7. Tidied({}, {})
    BY <1>1, <1>5, <1>6 DEF Tidied
  <1> QED BY <1>3, <1>4, <1>7

LEMMA LockTidies ==
  ASSUME IInv, StartLocked
  PROVE  Tidied({slot[job.s].pid}, {})
  <1> DEFINE p == slot[job.s].pid
             d == Disconnected({p})
  <1>1. /\ \A s \in Slots : slot'[s] = IF s \in Linked /\ slot[s].pid = p
                                       THEN [d[s] EXCEPT !.locked = TRUE] ELSE d[s]
        /\ CheckUp /\ UNCHANGED <<sz, hist>>
    BY DEF StartLocked
  <1>2. job.s \in Slots /\ p \in Pid /\ slot[job.s].exe \in Exe
    BY SlotNumbers DEF StartLocked, IInv, JobInv, TypeOK, Connecting
  <1>3. d \in [Slots -> Process]
    BY DisconnectedTypes DEF IInv
  <1> HIDE DEF d, p
  <1>4. ASSUME NEW s \in Slots
        PROVE  /\ slot'[s].pid = d[s].pid /\ slot'[s].exe = d[s].exe
               /\ slot'[s].fresh = d[s].fresh /\ slot'[s].active = d[s].active
               /\ slot'[s].locked => d[s].locked \/ s = job.s
    <2>1. d[s] \in Process
      BY <1>3
    <2>2. slot[s].pid = p => s = job.s
      BY <1>2, CacheAssumption DEF p, IInv, SlotInv
    <2> QED BY <1>1, <2>1, <2>2 DEF Process
  <1>5. ASSUME NEW s \in Slots
        PROVE  /\ \/ /\ d[s].pid = NoPid /\ ~d[s].active /\ ~d[s].fresh
                     /\ slot[s].active => child[slot[s].pid].st = "known"
                  \/ /\ slot[s].pid \in Pid /\ d[s].pid = slot[s].pid
                     /\ d[s].exe = slot[s].exe /\ d[s].fresh = slot[s].fresh
                     /\ d[s].active <=> slot[s].active /\ slot[s].pid \notin {p}
                     /\ child'[slot[s].pid] = child[slot[s].pid]
               /\ d[s].exe = slot[s].exe /\ (d[s].locked => d[s].exe \in Exe)
    <2>1. /\ Checked[s] \in Process /\ slot[s].pid \in Pid \cup {NoPid}
          /\ child' = CheckedChild
          /\ slot[s].locked => slot[s].exe \in Exe
          /\ slot[s].pid = NoPid => ~slot[s].active /\ ~slot[s].fresh
          /\ slot[s].pid # NoPid => s \in Linked
      BY <1>1, CheckedTypes DEF IInv, TypeOK, SlotInv, Process, CheckUp
    <2>2. d[s] = IF s \in Linked /\ Checked[s].pid \in {p}
                 THEN [Checked[s] EXCEPT !.active = FALSE] ELSE Checked[s]
      BY DEF d, Disconnected
    <2>3. /\ d[s].pid = Checked[s].pid /\ d[s].exe = Checked[s].exe
          /\ d[s].fresh = Checked[s].fresh /\ d[s].locked = Checked[s].locked
          /\ d[s].active <=> Checked[s].active /\ ~(s \in Linked /\ Checked[s].pid \in {p})
      BY <2>1, <2>2 DEF Process
    <2>4. CASE s \in Dead
      BY <2>1, <2>3, <2>4, CheckedSlots DEF IInv
    <2>5. CASE s \notin Dead
      <3>1. /\ Checked[s] = slot[s]
            /\ slot[s].pid \in Pid => child'[slot[s].pid] = child[slot[s].pid]
        BY <2>1, <2>5, CheckedSlots DEF IInv
      <3> QED BY <2>1, <2>3, <3>1, CacheAssumption
    <2> QED BY <2>4, <2>5
  <1>6. \A q \in Pid : child'[q] \in {child[q], Gone}
    BY <1>1, CheckedChildren DEF CheckUp, IInv
  <1>7. \A s \in Slots : slot'[s].locked => slot'[s].exe \in Exe
    BY <1>2, <1>4, <1>5
  <1>8. Tidied({p}, {})
    BY <1>1, <1>4, <1>5, <1>6, <1>7 DEF Tidied
  <1> QED BY <1>8 DEF p

LEMMA CacheTaskTidies ==
  ASSUME IInv, NEW x \in Exe, CacheTask(x)
  PROVE  Tidied({}, {})
  <1> DEFINE named == {s \in Linked : Checked[s].exe = x}
             n == CHOOSE t \in named : \A u \in named : CheckedRank[t] <= CheckedRank[u]
  <1>1. /\ CheckUp /\ UNCHANGED <<sz, hist>>
        /\ \/ slot' = [Checked EXCEPT ![n].locked = TRUE] /\ named # {}
           \/ slot' = Checked
    BY DEF CacheTask
  <1>2. named # {} => n \in Slots /\ Checked[n].exe = x
    <2>1. \A s \in named : s \in Slots /\ CheckedRank[s] \in Nat
      BY CheckedTypes, SlotNumbers DEF IInv, TypeOK
    <2> HIDE DEF named
    <2>2. named # {} => n \in named
      BY <2>1, LeastRank
    <2>3. named # {} => Checked[n].exe = x
      BY <2>2 DEF named
    <2> QED BY <2>1, <2>2, <2>3
  <1> HIDE DEF n, named
  <1>3. CASE slot' = Checked
    BY <1>1, <1>3, DisconnectTidies
  <1>4. CASE slot' = [Checked EXCEPT ![n].locked = TRUE] /\ named # {}
    <2>1. Checked \in [Slots -> Process]
      BY CheckedTypes DEF IInv
    <2>2. ASSUME NEW s \in Slots
          PROVE  /\ slot'[s].pid = Checked[s].pid /\ slot'[s].exe = Checked[s].exe
                 /\ slot'[s].fresh = Checked[s].fresh /\ slot'[s].active = Checked[s].active
                 /\ slot'[s].locked => Checked[s].locked \/ s = n
      BY <1>4, <2>1 DEF Process
    <2>3. ASSUME NEW s \in Slots
          PROVE  /\ \/ /\ slot'[s].pid = NoPid /\ ~slot'[s].active /\ ~slot'[s].fresh
                       /\ slot[s].active => child[slot[s].pid].st = "known"
                    \/ /\ slot[s].pid \in Pid /\ slot'[s].pid = slot[s].pid
                       /\ slot'[s].exe = slot[s].exe /\ slot'[s].fresh = slot[s].fresh
                       /\ slot'[s].active <=> slot[s].active
                       /\ child'[slot[s].pid] = child[slot[s].pid]
                 /\ slot'[s].locked => slot'[s].exe \in Exe
      <3>1. /\ slot[s].pid \in Pid \cup {NoPid} /\ child' = CheckedChild
            /\ slot[s].locked => slot[s].exe \in Exe
            /\ slot[s].pid = NoPid => ~slot[s].active /\ ~slot[s].fresh
        BY <1>1 DEF IInv, TypeOK, SlotInv, Process, CheckUp
      <3>2. CASE s \in Dead
        BY <1>2, <1>4, <2>2, <3>1, <3>2, CheckedSlots DEF IInv
      <3>3. CASE s \notin Dead
        <4>1. /\ Checked[s] = slot[s]
              /\ slot[s].pid \in Pid => child'[slot[s].pid] = child[slot[s].pid]
          BY <3>1, <3>3, CheckedSlots DEF IInv
        <4> QED BY <1>2, <1>4, <2>2, <3>1, <4>1
      <3> QED BY <3>2, <3>3
    <2>4. \A q \in Pid : child'[q] \in {child[q], Gone}
      BY <1>1, CheckedChildren DEF CheckUp, IInv
    <2> QED BY <1>1, <2>3, <2>4 DEF Tidied
  <1> QED BY <1>1, <1>3, <1>4

LEMMA DumpTidies ==
  ASSUME IInv, DumpNext
  PROVE  /\ Tidied({}, {})
         /\ \E s \in job.todo : 
              /\ job'.todo = job.todo \ {s} /\ job'.size = job.size
              /\ \/ job'.at = "dump" /\ job'.then = job.then /\ job'.exe = job.exe
                 \/ /\ job'.at = "close" /\ job'.s = s /\ job'.then = "dump"
                    /\ ~slot[s].active
  <1> DEFINE s == Lowest(job.todo)
             e == [slot[s] EXCEPT !.locked = @ /\ ~(job.break /\ ~slot[s].active)]
             rest == [job EXCEPT !.todo = @ \ {s}]
  <1>1. /\ slot' = [slot EXCEPT ![s] = e] /\ job.at = "dump"
        /\ job' = IF Busy(e) THEN rest
                  ELSE [rest EXCEPT !.at = "close", !.s = s, !.then = "dump"]
        /\ UNCHANGED <<sz, child, stack, hist>>
    BY DEF DumpNext
  <1>2. s \in job.todo /\ s \in Slots /\ job \in Job
    <2>1. job.todo \subseteq Slots /\ job.todo # {}
      BY SlotNumbers DEF DumpNext, IInv, JobInv, TypeOK
    <2> QED BY <2>1, LowestIn DEF IInv, TypeOK
  <1> HIDE DEF s
  <1>3. /\ e.pid = slot[s].pid /\ e.exe = slot[s].exe /\ e.fresh = slot[s].fresh
        /\ e.active = slot[s].active /\ (e.locked => slot[s].locked)
    BY <1>2 DEF IInv, TypeOK, Process
  <1>4. /\ job'.todo = job.todo \ {s} /\ job'.size = job.size
        /\ \/ job'.at = "dump" /\ job'.then = job.then /\ job'.exe = job.exe
           \/ job'.at = "close" /\ job'.s = s /\ job'.then = "dump" /\ ~slot[s].active
    <2>1. CASE Busy(e)
      BY <1>1, <1>2, <2>1 DEF Job
    <2>2. CASE ~Busy(e)
      <3>1. ~slot[s].active
        BY <1>3, <2>2 DEF Busy
      <3> HIDE DEF e
      <3> QED BY <1>1, <1>2, <2>2, <3>1 DEF Job
    <2> QED BY <2>1, <2>2
  <1> HIDE DEF e
  <1>5. slot'[s] = e /\ \A t \in Slots \ {s} : slot'[t] = slot[t]
    BY <1>1, <1>2 DEF IInv, TypeOK
  <1>6. ASSUME NEW t \in Slots
        PROVE  /\ slot'[t].pid = slot[t].pid /\ slot'[t].exe = slot[t].exe
               /\ slot'[t].fresh = slot[t].fresh /\ slot'[t].active = slot[t].active
               /\ slot'[t].locked => slot[t].locked
    BY <1>3, <1>5
  <1>7. \A t \in Slots : /\ slot[t].pid \in Pid \cup {NoPid}
                         /\ slot[t].locked => slot[t].exe \in Exe
                         /\ slot[t].pid = NoPid => ~slot[t].active /\ ~slot[t].fresh
    BY DEF IInv, TypeOK, SlotInv, Process
  <1>8. Tidied({}, {})
    BY <1>1, <1>6, <1>7 DEF Tidied
  <1> QED BY <1>2, <1>4, <1>8

-----------------------------------------------------------------------------
(* The invariant, step by step: the slots.                                 *)

\* A child's status changes, and more processes are known to be hurt.
LEMMA StatusSlots ==
  ASSUME IInv, UNCHANGED <<sz, slot>>, hist'.raced = hist.raced,
         hist.hurt \subseteq hist'.hurt,
         \A p \in Pid : child'[p].exe = child[p].exe /\ child'[p].new = child[p].new,
         \/ job'.at = job.at /\ job'.s = job.s
         \/ job.at # "stat" \/ slot[job.s].pid \in hist'.hurt
  PROVE  SlotInv'
  <1>1. ASSUME NEW s \in Slots, slot[s].pid \in Pid
        PROVE  /\ \/ slot[s].pid \in hist'.hurt \/ Filling(s)'
                  \/ child'[slot[s].pid].exe = slot[s].exe
               /\ slot[s].fresh => \/ child'[slot[s].pid].new
                                   \/ slot[s].pid \in hist'.raced \cup hist'.hurt
    BY <1>1 DEF IInv, SlotInv, Filling
  <1> QED BY <1>1 DEF IInv, SlotInv, Linked

LEMMA SpawnSlots ==
  ASSUME IInv, Spawn
  PROVE  /\ SlotInv'
         /\ \E p \in Unused : 
              /\ slot'[job.s] = [slot[job.s] EXCEPT !.pid = p]
              /\ \A t \in Slots \ {job.s} : slot'[t] = slot[t]
              /\ child'[p] = [st |-> "up", exe |-> job.exe, new |-> TRUE]
              /\ \A q \in Pid \ {p} : child'[q] = child[q]
              /\ SameTasks
              /\ hist'.leaked = hist.leaked \ {p} /\ hist'.hurt = hist.hurt \ {p}
  <1>1. PICK p \in Unused :
          /\ child' = [child EXCEPT ![p] = [st |-> "up", exe |-> job.exe, new |-> TRUE]]
          /\ slot' = [slot EXCEPT ![job.s].pid = p]
          /\ stack' = [i \in 1..Top |-> [stack[i] EXCEPT !.before = @ \ {p}]]
          /\ hist' = [hist EXCEPT !.leaked = @ \ {p}, !.hurt = @ \ {p}, !.raced = @ \ {p}]
    BY DEF Spawn
  <1>2. /\ p \in Pid /\ \A t \in Slots : slot[t].pid # p
        /\ job.s \in Slots /\ job.s \in Linked /\ slot[job.s].pid = NoPid
        /\ sz' = sz /\ job' = [job EXCEPT !.at = "stat"] /\ job.at = "spawn" /\ job \in Job
    BY SlotNumbers DEF Spawn, Unused, IInv, JobInv, TypeOK
  <1>3. /\ slot'[job.s] = [slot[job.s] EXCEPT !.pid = p]
        /\ \A t \in Slots \ {job.s} : slot'[t] = slot[t]
        /\ child'[p] = [st |-> "up", exe |-> job.exe, new |-> TRUE]
        /\ \A q \in Pid \ {p} : child'[q] = child[q]
        /\ hist'.leaked = hist.leaked \ {p} /\ hist'.hurt = hist.hurt \ {p}
        /\ hist'.raced = hist.raced \ {p}
    BY <1>1, <1>2 DEF IInv, TypeOK
  <1>4. /\ slot'[job.s].pid = p /\ slot'[job.s].exe = slot[job.s].exe
        /\ slot'[job.s].active = slot[job.s].active
        /\ slot'[job.s].fresh = slot[job.s].fresh
        /\ slot'[job.s].locked = slot[job.s].locked
    BY <1>2, <1>3 DEF IInv, TypeOK, Process
  <1>5. ~slot'[job.s].active /\ ~slot'[job.s].fresh
    <2>1. ~slot[job.s].active /\ ~slot[job.s].fresh
      BY <1>2 DEF IInv, SlotInv
    <2> QED BY <1>4, <2>1
  <1>6. job'.at = "stat" /\ job'.s = job.s
    BY <1>2 DEF Job
  <1>7. SameTasks
    <2>1. Top \in Nat /\ \A i \in 1..Top : stack[i] \in Task
      BY CacheAssumption DEF IInv, TypeOK, Top
    <2>2. stack' \in [1..Top -> Task]
      <3>1. \A t \in Task : [t EXCEPT !.before = @ \ {p}] \in Task
        BY DEF Task
      <3> QED BY <1>1, <2>1, <3>1
    <2>3. Len(stack') = Top
      BY <2>1, <2>2, FunctionSeq
    <2> QED BY <1>1, <2>1, <2>3 DEF Task, SameTasks
  <1>8. SlotInv'
    <2>1. \A s \in Slots : s \notin Linked' => slot'[s].pid = NoPid
      BY <1>2, <1>3 DEF IInv, SlotInv, Linked
    <2>2. ASSUME NEW s \in Slots, NEW t \in Slots,
                 slot'[s].pid = slot'[t].pid, slot'[s].pid # NoPid
          PROVE  s = t
      <3>1. \A u \in Slots \ {job.s} : slot'[u].pid = slot[u].pid /\ slot'[u].pid # p
        BY <1>2, <1>3
      <3>2. CASE s # job.s /\ t # job.s
        BY <2>2, <3>1, <3>2 DEF IInv, SlotInv
      <3>3. CASE s = job.s \/ t = job.s
        BY <1>4, <2>2, <3>1, <3>3
      <3> QED BY <3>2, <3>3
    <2>3. ASSUME NEW s \in Slots, slot'[s].pid = NoPid
          PROVE  ~slot'[s].active /\ ~slot'[s].fresh
      <3>1. CASE s = job.s
        BY <1>5, <3>1
      <3>2. CASE s # job.s
        BY <1>3, <2>3, <3>2 DEF IInv, SlotInv
      <3> QED BY <3>1, <3>2
    <2>4. ASSUME NEW s \in Slots, slot'[s].locked
          PROVE  slot'[s].exe \in Exe
      <3>1. slot[s].locked => slot[s].exe \in Exe
        BY DEF IInv, SlotInv
      <3>2. CASE s = job.s
        BY <1>4, <2>4, <3>1, <3>2
      <3>3. CASE s # job.s
        BY <1>3, <2>4, <3>1, <3>3
      <3> QED BY <3>2, <3>3
    <2>5. ASSUME NEW s \in Slots, slot'[s].pid \in Pid
          PROVE  /\ \/ slot'[s].pid \in hist'.hurt \/ Filling(s)'
                    \/ child'[slot'[s].pid].exe = slot'[s].exe
                 /\ slot'[s].fresh => \/ child'[slot'[s].pid].new
                                      \/ slot'[s].pid \in hist'.raced \cup hist'.hurt
      <3>1. CASE s = job.s
        BY <1>5, <1>6, <3>1 DEF Filling
      <3>2. CASE s # job.s
        BY <1>2, <1>3, <2>5, <3>2 DEF IInv, SlotInv, Filling
      <3> QED BY <3>1, <3>2
    <2> QED BY <2>1, <2>2, <2>3, <2>4, <2>5 DEF SlotInv
  <1> QED BY <1>3, <1>7, <1>8

LEMMA StatSlots ==
  ASSUME IInv, Stat
  PROVE  /\ SlotInv'
         /\ slot'[job.s].pid = slot[job.s].pid /\ slot'[job.s].exe = job.exe
         /\ slot'[job.s].active
         /\ \A s \in Slots \ {job.s} : slot'[s] = slot[s]
         /\ hist'.hurt = hist.hurt /\ hist'.leaked = hist.leaked
  <1>1. PICK fresh \in BOOLEAN :
          /\ slot' = [slot EXCEPT ![job.s] =
                        [@ EXCEPT !.exe = job.exe, !.active = TRUE, !.locked = FALSE,
                                  !.pno = pr_pno, !.fresh = fresh]]
          /\ hist' = IF fresh /\ ~child[slot[job.s].pid].new
                     THEN [hist EXCEPT !.raced = @ \cup {slot[job.s].pid}] ELSE hist
    BY DEF Stat
  <1>2. /\ job.s \in Slots /\ job.s \in Linked /\ slot[job.s].pid \in Pid
        /\ child[slot[job.s].pid].exe = job.exe
        /\ UNCHANGED <<sz, child>> /\ job.at = "stat"
    BY SlotNumbers DEF Stat, IInv, JobInv, TypeOK
  <1>3. /\ slot'[job.s].pid = slot[job.s].pid /\ slot'[job.s].exe = job.exe
        /\ slot'[job.s].active /\ ~slot'[job.s].locked /\ slot'[job.s].fresh = fresh
        /\ \A s \in Slots \ {job.s} : slot'[s] = slot[s]
    BY <1>1, <1>2 DEF IInv, TypeOK, Process
  <1>4. /\ hist'.hurt = hist.hurt /\ hist'.leaked = hist.leaked
        /\ hist.raced \subseteq hist'.raced
        /\ fresh => child[slot[job.s].pid].new \/ slot[job.s].pid \in hist'.raced
    BY <1>1 DEF IInv, TypeOK
  <1>5. SlotInv'
    <2>1. \A s \in Slots : slot'[s].pid = slot[s].pid
      BY <1>3
    <2>2. \A s \in Slots : s \notin Linked' => slot'[s].pid = NoPid
      BY <1>2, <2>1 DEF IInv, SlotInv, Linked
    <2>3. \A s, t \in Slots : slot'[s].pid = slot'[t].pid /\ slot'[s].pid # NoPid => s = t
      BY <2>1 DEF IInv, SlotInv
    <2>4. ASSUME NEW s \in Slots
          PROVE  /\ slot'[s].pid = NoPid => ~slot'[s].active /\ ~slot'[s].fresh
                 /\ slot'[s].locked => slot'[s].exe \in Exe
                 /\ slot'[s].pid \in Pid =>
                      /\ \/ slot'[s].pid \in hist'.hurt \/ Filling(s)'
                         \/ child'[slot'[s].pid].exe = slot'[s].exe
                      /\ slot'[s].fresh => \/ child'[slot'[s].pid].new
                                           \/ slot'[s].pid \in hist'.raced \cup hist'.hurt
      <3>1. CASE s = job.s
        BY <1>2, <1>3, <1>4, <3>1, CacheAssumption
      <3>2. CASE s # job.s
        <4>1. slot'[s] = slot[s] /\ ~Filling(s)
          BY <1>3, <3>2 DEF Filling
        <4> QED BY <1>2, <1>4, <4>1 DEF IInv, SlotInv
      <3> QED BY <3>1, <3>2
    <2> QED BY <2>2, <2>3, <2>4 DEF SlotInv
  <1> QED BY <1>3, <1>4, <1>5

LEMMA ResizeSlots ==
  ASSUME IInv, Resize
  PROVE  SlotInv' /\ \A s \in Slots : slot'[s].pid = NoPid /\ ~slot'[s].active
  <1>1. /\ slot' = [s \in Slots |-> NoProcess]
        /\ hist'.hurt = hist.hurt /\ hist'.raced = hist.raced /\ UNCHANGED child
    BY DEF Resize, IInv, TypeOK
  <1>2. \A s \in Slots : /\ slot'[s].pid = NoPid /\ ~slot'[s].active /\ ~slot'[s].fresh
                         /\ ~slot'[s].locked
    BY <1>1, ProcessTypes
  <1> QED BY <1>2, CacheAssumption DEF SlotInv

LEMMA SeenDeadKeeps ==
  ASSUME IInv, job.at \in {"start", "close"}, SeenDead
  PROVE  /\ UNCHANGED <<sz, slot, stack, hist>> /\ job'.at = "raise"
         /\ child'[slot[job.s].pid].st = "known"
         /\ \A p \in Pid : /\ child'[p].exe = child[p].exe /\ child'[p].new = child[p].new
                           /\ p # slot[job.s].pid => child'[p] = child[p]
  <1>1. slot[job.s].pid \in Pid
    BY DEF IInv, JobInv
  <1> QED BY <1>1, JobTypes DEF SeenDead, IInv, TypeOK, Child, Job

LEMMA InterruptKeeps ==
  ASSUME IInv, Interrupt
  PROVE  /\ UNCHANGED <<sz, slot, stack, pr_pno>> /\ hist'.raced = hist.raced
         /\ hist.hurt \subseteq hist'.hurt
         /\ \/ /\ job.at \in {"stat", "close"}
               /\ hist'.hurt = hist.hurt \cup {slot[job.s].pid}
            \/ /\ job.at = "unwind" /\ job'.at = "none"
               /\ hist'.hurt = hist.hurt \cup Revived
            \/ /\ job.at \notin {"stat", "close"} /\ hist'.hurt = hist.hurt
               /\ job.at = "unwind" => job'.at = "raise"
         /\ hist.leaked \subseteq hist'.leaked
         /\ job.at = "start" => slot[job.s].pid \in hist'.leaked
         /\ job'.at \in {"none", "raise"} /\ job'.todo = {} /\ job'.size = 0
         /\ job.at \notin {"none", "raise"}
         /\ \A p \in Pid :
              /\ child'[p].exe = child[p].exe /\ child'[p].new = child[p].new
              /\ child'[p] = child[p]
                   \/ (job.at = "close" /\ p = slot[job.s].pid /\ child'[p].st = "closing")
  <1> DEFINE q == slot[job.s].pid
  <1>1. PICK drop \in BOOLEAN :
        /\ hist' = [hist EXCEPT
             !.leaked = IF job.at = "start" THEN @ \cup {q} ELSE @,
             !.hurt = IF job.at \in {"stat", "close"} THEN @ \cup {q}
                      ELSE IF job.at = "unwind" /\ drop THEN @ \cup Revived
                      ELSE @,
             !.events = @ + 1]
        /\ child' = IF job.at = "close" THEN [child EXCEPT ![q].st = "closing"] ELSE child
        /\ job' = IF drop THEN NoJob ELSE [NoJob EXCEPT !.at = "raise"]
        /\ UNCHANGED <<sz, slot, pr_pno, stack>>
        /\ job.at \in {"find", "get", "stat", "start", "close", "dump", "unwind"}
    BY DEF Interrupt
  <1>2. job.at \in {"stat", "start", "close"} => q \in Pid
    BY DEF IInv, JobInv
  <1> HIDE DEF q
  <1>3. /\ hist'.raced = hist.raced /\ hist.hurt \subseteq hist'.hurt
        /\ job.at \in {"stat", "close"} => hist'.hurt = hist.hurt \cup {q}
        /\ job.at \notin {"stat", "close", "unwind"} => hist'.hurt = hist.hurt
        /\ job.at = "unwind" =>
             hist'.hurt = IF drop THEN hist.hurt \cup Revived ELSE hist.hurt
        /\ hist.leaked \subseteq hist'.leaked
        /\ job.at = "start" => q \in hist'.leaked
    BY <1>1 DEF IInv, TypeOK
  <1>4. /\ job'.at = IF drop THEN "none" ELSE "raise"
        /\ job'.todo = {} /\ job'.size = 0
    <2>1. /\ [NoJob EXCEPT !.at = "raise"].at = "raise"
          /\ [NoJob EXCEPT !.at = "raise"].todo = {}
          /\ [NoJob EXCEPT !.at = "raise"].size = 0
      BY DEF NoJob
    <2> QED BY <1>1, <2>1, JobTypes
  <1>5. ASSUME NEW p \in Pid
        PROVE  /\ child'[p].exe = child[p].exe /\ child'[p].new = child[p].new
               /\ child'[p] = child[p]
                    \/ (job.at = "close" /\ p = q /\ child'[p].st = "closing")
    BY <1>1, <1>2 DEF IInv, TypeOK, Child
  <1> QED BY <1>1, <1>3, <1>4, <1>5 DEF q

LEMMA DeathKeeps ==
  ASSUME IInv, NEW p \in Pid, ChildDies(p)
  PROVE  /\ UNCHANGED <<sz, slot, pr_pno, stack, job>>
         /\ child[p].st = "up" /\ child'[p].st = "dead"
         /\ \A q \in Pid : /\ child'[q].exe = child[q].exe /\ child'[q].new = child[q].new
                           /\ q # p => child'[q] = child[q]
  BY DEF ChildDies, IInv, TypeOK, Child

LEMMA RelinkKeeps ==
  ASSUME IInv, NEW x \in Exe, Relink(x)
  PROVE  /\ UNCHANGED <<sz, pr_pno, stack>>
         /\ job'.at = job.at /\ job'.s = job.s /\ job'.exe = job.exe /\ job'.use = job.use
         /\ job'.todo = job.todo /\ job'.then = job.then /\ job'.size = job.size
         /\ \A s \in Slots :
              /\ slot'[s].pid = slot[s].pid /\ slot'[s].exe = slot[s].exe
              /\ slot'[s].active = slot[s].active /\ slot'[s].locked = slot[s].locked
              /\ slot'[s].fresh => slot[s].fresh /\ slot[s].exe # x
         /\ \A p \in Pid : /\ child'[p].exe = child[p].exe /\ child'[p].st = child[p].st
                           /\ child[p].exe # x => child'[p] = child[p]
  <1>1. /\ child' = [p \in Pid |-> IF child[p].exe = x THEN [child[p] EXCEPT !.new = FALSE]
                                                      ELSE child[p]]
        /\ slot' = [s \in Slots |-> IF slot[s].exe = x THEN [slot[s] EXCEPT !.fresh = FALSE]
                                                      ELSE slot[s]]
        /\ job' = IF job.exe = x /\ job.time = "new" THEN [job EXCEPT !.time = "old"] ELSE job
        /\ UNCHANGED <<sz, pr_pno, stack>>
    BY DEF Relink
  <1>2. /\ job'.at = job.at /\ job'.s = job.s /\ job'.exe = job.exe /\ job'.use = job.use
        /\ job'.todo = job.todo /\ job'.then = job.then /\ job'.size = job.size
    BY <1>1 DEF IInv, TypeOK, Job
  <1>3. ASSUME NEW s \in Slots
        PROVE  /\ slot'[s].pid = slot[s].pid /\ slot'[s].exe = slot[s].exe
               /\ slot'[s].active = slot[s].active /\ slot'[s].locked = slot[s].locked
               /\ slot'[s].fresh => slot[s].fresh /\ slot[s].exe # x
    BY <1>1 DEF IInv, TypeOK, Process
  <1>4. ASSUME NEW p \in Pid
        PROVE  /\ child'[p].exe = child[p].exe /\ child'[p].st = child[p].st
               /\ child[p].exe # x => child'[p] = child[p]
    BY <1>1 DEF IInv, TypeOK, Child
  <1> QED BY <1>1, <1>2, <1>3, <1>4

LEMMA EventSlots ==
  ASSUME IInv, Interrupt \/ Environment
  PROVE  SlotInv'
  <1>1. CASE Interrupt
    BY <1>1, InterruptKeeps, StatusSlots
  <1>2. CASE Environment
    <2>1. /\ hist'.hurt = hist.hurt /\ hist'.raced = hist.raced
      BY <1>2 DEF Environment, IInv, TypeOK
    <2>2. ASSUME NEW p \in Pid, ChildDies(p)
          PROVE  SlotInv'
      BY <2>1, <2>2, DeathKeeps, StatusSlots
    <2>3. ASSUME NEW x \in Exe, Relink(x)
          PROVE  SlotInv'
      <3>1. /\ sz' = sz /\ job'.at = job.at /\ job'.s = job.s
            /\ \A s \in Slots : slot'[s].pid = slot[s].pid
        BY <2>3, RelinkKeeps
      <3>2. \A s \in Slots : s \notin Linked' => slot'[s].pid = NoPid
        BY <3>1 DEF IInv, SlotInv, Linked
      <3>3. \A s, t \in Slots : slot'[s].pid = slot'[t].pid /\ slot'[s].pid # NoPid => s = t
        BY <3>1 DEF IInv, SlotInv
      <3>4. ASSUME NEW s \in Slots
            PROVE  /\ slot'[s].pid = NoPid => ~slot'[s].active /\ ~slot'[s].fresh
                   /\ slot'[s].locked => slot'[s].exe \in Exe
        <4>1. /\ slot[s].pid = NoPid => ~slot[s].active /\ ~slot[s].fresh
              /\ slot[s].locked => slot[s].exe \in Exe
          BY DEF IInv, SlotInv
        <4> QED BY <2>3, <4>1, RelinkKeeps
      <3>5. ASSUME NEW s \in Slots, slot[s].pid \in Pid
            PROVE  /\ \/ slot'[s].pid \in hist'.hurt \/ Filling(s)'
                      \/ child'[slot'[s].pid].exe = slot'[s].exe
                   /\ slot'[s].fresh => \/ child'[slot'[s].pid].new
                                        \/ slot'[s].pid \in hist'.raced \cup hist'.hurt
        <4> DEFINE p == slot[s].pid
        <4>1. /\ p \in hist.hurt \/ Filling(s) \/ child[p].exe = slot[s].exe
              /\ slot[s].fresh => child[p].new \/ p \in hist.raced \cup hist.hurt
          BY <3>5 DEF IInv, SlotInv
        <4>2. Filling(s) => ~slot[s].fresh
          BY DEF Filling, IInv, JobInv
        <4>3. /\ slot'[s].pid = p /\ slot'[s].exe = slot[s].exe
              /\ slot'[s].fresh => slot[s].fresh /\ slot[s].exe # x
              /\ child'[p].exe = child[p].exe
              /\ child[p].exe # x => child'[p] = child[p]
              /\ Filling(s)' <=> Filling(s)
          BY <2>3, <3>5, <3>1, RelinkKeeps DEF Filling
        <4> HIDE DEF p
        <4> QED BY <2>1, <4>1, <4>2, <4>3
      <3> QED BY <3>1, <3>2, <3>3, <3>4, <3>5 DEF SlotInv
    <2> QED BY <1>2, <2>2, <2>3 DEF Environment
  <1> QED BY <1>1, <1>2

\* Error recovery, its steps, and the end of a task.
Back == Failure \/ Bye \/ Unwind \/ Resume

\* Tasks end, or are finished: their processes are given back.
LEMMA BackKeeps ==
  ASSUME IInv, Back
  PROVE  /\ \E n \in 1..Top : \E k \in 1..n :
              /\ Left(n, k)
              /\ Tidied(Processes(k), {})
              /\ \/ job'.at = "unwind" /\ ~job'.prune /\ stack[k].kind = "cl"
                    /\ (\A i \in (k+1)..n : stack[i].kind # "cl")
                 \/ n = k /\ job.at = "unwind" /\ stack[Top].kind # "cl" /\ n = Top - 1
                    /\ job' = job
                 \/ n = k /\ job' = Restored(n) /\ n \in {Top - 1, Top}
                    /\ (n = Top - 1 => job.at = "none")
                    /\ (n = Top => job.at = "unwind" /\ stack[Top].kind = "cl")
         /\ slot' = slot \/ \E P, pruned : FinishTasks(P, pruned)
         /\ UNCHANGED <<sz, pr_pno, hist>>
         /\ job.at \in {"get", "spawn", "raise", "none", "unwind"}
  <1>1. Top \in 1..Top /\ Top \in Nat /\ TypeOK /\ TaskInv
    BY CacheAssumption DEF IInv, TypeOK
  <1>2. CASE Failure
    <2>1. PICK n \in 1..Top : Recover(n) /\ UNCHANGED <<sz, pr_pno, hist>>
      BY <1>1, <1>2, FailureRecovers
    <2> DEFINE k == Interactive(n)
    <2>2. /\ k \in 1..n /\ stack[k].kind = "cl"
          /\ \A i \in (k+1)..n : stack[i].kind # "cl"
      BY <1>1, <2>1, InteractiveCl
    <2>3. Left(n, k)
      BY <1>1, <2>1, RecoveredStack DEF Left
    <2>4. FinishTasks(Processes(k), FALSE) /\ job'.at = "unwind" /\ ~job'.prune
      BY <2>1, UnwindJob DEF Recover
    <2> HIDE DEF k
    <2>5. Tidied(Processes(k), {})
      BY <2>1, <2>4, FinishTidies
    <2>6. job.at \in {"get", "spawn", "raise", "none"}
      BY <1>1, <1>2, FailureRecovers
    <2>7. \E m \in 1..Top : \E j \in 1..m :
             /\ Left(m, j)
             /\ Tidied(Processes(j), {})
             /\ job'.at = "unwind" /\ ~job'.prune /\ stack[j].kind = "cl"
             /\ (\A i \in (j+1)..m : stack[i].kind # "cl")
      BY <2>1, <2>2, <2>3, <2>4, <2>5
    <2>8. \E P, pruned : FinishTasks(P, pruned)
      BY <2>4
    <2> QED BY <2>1, <2>6, <2>7, <2>8
  <1>3. CASE Bye
    <2>1. /\ FinishTasks(Processes(Top - 1), stack[Top-1].pno # 0)
          /\ stack' = SubSeq(stack, 1, Top - 1) /\ job' = Restored(Top - 1)
          /\ UNCHANGED <<sz, pr_pno, hist>> /\ Top - 1 \in 1..Top /\ Top - 1 \in 1..(Top - 1)
          /\ job.at = "none"
      BY <1>1, <1>3 DEF Bye
    <2>2. Left(Top - 1, Top - 1)
      BY <1>1, <2>1, PrefixLeft
    <2>3. Tidied(Processes(Top - 1), {})
      BY <2>1, FinishTidies
    <2> QED BY <1>1, <2>1, <2>2, <2>3
  <1>4. CASE Unwind
    <2>1. /\ job.at = "unwind" /\ stack[Top].kind # "cl"
          /\ stack' = SubSeq(stack, 1, Top - 1)
          /\ UNCHANGED <<sz, slot, rank, pr_pno, child, job, hist>>
      BY <1>4 DEF Unwind
    <2>2. Top # 1
      BY <1>1, <2>1 DEF TaskInv
    <2>3. Top - 1 \in 1..Top /\ Top - 1 \in 1..(Top - 1) /\ ((Top - 1) + 1)..Top = {Top}
      BY <1>1, <2>2
    <2>4. Left(Top - 1, Top - 1)
      BY <1>1, <2>1, <2>3, PrefixLeft
    <2>5. Processes(Top - 1) = {}
      <3>1. stack[Top].running => stack[Top].kind # "ext"
        <4>1. Top..Top = {Top}
          BY <1>1
        <4> QED BY <1>1, <2>1, <4>1 DEF IInv, JobInv, Ended
      <3>2. stack[Top] \in Task
        BY <1>1 DEF TypeOK, Top
      <3>3. stack[Top].running => stack[Top].pid = NoPid
        BY <1>1, <3>1, <3>2 DEF TaskInv, Task
      <3> QED BY <2>3, <3>3 DEF Processes
    <2>6. Tidied(Processes(Top - 1), {})
      <3>1. Tidied({}, {})
        BY <2>1, UnchangedTidies
      <3> QED BY <2>5, <3>1
    <2> QED BY <1>1, <2>1, <2>3, <2>4, <2>6
  <1>5. CASE Resume
    <2>1. /\ job.at = "unwind" /\ stack[Top].kind = "cl"
          /\ FinishTasks({}, stack[Top].pno # 0) /\ stack' = stack
          /\ job' = Restored(Top) /\ UNCHANGED <<sz, pr_pno, hist>>
      BY <1>5 DEF Resume
    <2>2. Left(Top, Top)
      <3>1. \A i \in 1..Top : i <= Top /\ stack[i] \in Task
        BY <1>1 DEF TypeOK, Top
      <3>2. \A i \in 1..Top : stack[i].running \in BOOLEAN
        BY <3>1 DEF Task
      <3> QED BY <2>1, <3>1, <3>2 DEF Left, Top
    <2>3. Processes(Top) = {}
      <3>1. (Top + 1)..Top = {}
        BY <1>1
      <3> QED BY <3>1 DEF Processes
    <2>4. Tidied({}, {})
      BY <2>1, FinishTidies
    <2> QED BY <1>1, <2>1, <2>2, <2>3, <2>4
  <1> QED BY <1>2, <1>3, <1>4, <1>5 DEF Back

LEMMA FlushKeeps ==
  ASSUME IInv, NEW S \in SUBSET Linked, NEW break \in BOOLEAN, Flush(S, break)
  PROVE  /\ Tidied({}, {}) /\ Kept
         /\ job'.at = "dump" /\ job'.size = 0
         /\ job'.todo \subseteq {s \in Linked : slot'[s].pid # NoPid}
  <1> DEFINE todo == {s \in S : Checked[s].pid # NoPid}
  <1>1. /\ stack' = Called /\ slot' = Checked /\ CheckUp
        /\ job' = [NoJob EXCEPT !.at = "dump", !.break = break, !.todo = todo]
        /\ UNCHANGED <<sz, hist>>
    BY DEF Flush
  <1>2. todo \subseteq {s \in Linked : slot'[s].pid # NoPid}
    BY <1>1
  <1> HIDE DEF todo
  <1>3. job'.at = "dump" /\ job'.todo = todo /\ job'.size = 0
    BY <1>1 DEF NoJob
  <1> QED BY <1>1, <1>2, <1>3, DisconnectTidies, StackSame DEF IInv

LEMMA SetCacheKeeps ==
  ASSUME IInv, NEW n \in Sizes, SetCache(n)
  PROVE  /\ Tidied({}, {}) /\ stack' = stack
         /\ job'.at = "dump" /\ slot' = Checked
         /\ job'.todo \subseteq {s \in Linked : slot'[s].pid # NoPid}
  <1> DEFINE todo == {s \in Linked : Checked[s].pid # NoPid}
             again == {slot[s].exe : s \in {t \in Linked : slot[t].pid # NoPid
                                                           /\ slot[t].locked}}
  <1>1. /\ slot' = Checked /\ CheckUp /\ UNCHANGED <<sz, pr_pno, stack, hist>>
        /\ job' = [NoJob EXCEPT !.at = "dump", !.break = TRUE, !.size = n,
                                !.todo = todo, !.again = again]
    BY DEF SetCache
  <1>2. todo \subseteq {s \in Linked : slot'[s].pid # NoPid}
    BY <1>1
  <1> HIDE DEF todo, again
  <1>3. job'.at = "dump" /\ job'.todo = todo
    BY <1>1 DEF NoJob
  <1> QED BY <1>1, <1>2, <1>3, DisconnectTidies

LEMMA QuietKeeps ==
  ASSUME IInv, GetSlot \/ Start \/ DumpEnd \/ RunScript \/ DefinePackage \/ RunCl
               \/ \E x \in Exe : Run(x)
  PROVE  Tidied({}, {}) /\ UNCHANGED <<sz, slot, child>>
  <1>1. /\ UNCHANGED <<sz, slot, child>>
        /\ hist'.hurt = hist.hurt /\ hist'.raced = hist.raced /\ hist'.leaked = hist.leaked
    BY DEF GetSlot, Start, DumpEnd, RunScript, DefinePackage, RunCl, Run, IInv, TypeOK
  <1> QED BY <1>1, UnchangedTidies

LEMMA NextSlots ==
  ASSUME IInv, [Next]_vars
  PROVE  SlotInv'
  <1>0. TypeOK'
    BY NextTypes
  <1>1. CASE Spawn
    BY <1>1, SpawnSlots
  <1>2. CASE Stat
    BY <1>2, StatSlots
  <1>3. CASE Resize
    BY <1>3, ResizeSlots
  <1>4. CASE StartFails \/ CloseFails
    <2>1. job.at \in {"start", "close"} /\ SeenDead
      BY <1>4 DEF StartFails, CloseFails
    <2>2. /\ UNCHANGED <<sz, slot, hist>> /\ job.at # "stat"
          /\ \A p \in Pid : child'[p].exe = child[p].exe /\ child'[p].new = child[p].new
      BY <2>1, SeenDeadKeeps
    <2> QED BY <2>2, StatusSlots
  <1>5. CASE Interrupt \/ Environment
    BY <1>5, EventSlots
  <1>6. CASE Back
    <2>1. \E P : Tidied(P, {}) /\ job.at # "stat"
      BY <1>6, BackKeeps
    <2> QED BY <1>0, <2>1, TidiedSlots
  <1>7. CASE FindReuse \/ FindStale \/ FindNone
    <2>1. job.at # "stat"
      BY <1>7 DEF FindReuse, FindStale, FindNone
    <2> QED BY <1>0, <1>7, <2>1, ReuseTidies, FindTidies, TidiedSlots
  <1>8. CASE Close \/ DumpNext \/ StartLocked
    <2>1. job.at # "stat"
      BY <1>8 DEF Close, DumpNext, StartLocked
    <2> QED BY <1>0, <1>8, <2>1, CloseTidies, DumpTidies, LockTidies, TidiedSlots
  <1>9. CASE GetSlot \/ Start \/ DumpEnd \/ RunScript \/ DefinePackage \/ RunCl
             \/ \E x \in Exe : Run(x)
    <2>1. job.at # "stat"
      BY <1>9 DEF GetSlot, Start, DumpEnd, RunScript, DefinePackage, RunCl, Run
    <2> QED BY <1>0, <1>9, <2>1, QuietKeeps, TidiedSlots
  <1>10. CASE FlushAll \/ FlushOne \/ (\E x \in Exe : CacheTask(x))
              \/ \E n \in Sizes : SetCache(n)
    <2>1. job.at # "stat"
      BY <1>10 DEF FlushAll, FlushOne, CacheTask, SetCache
    <2>2. FlushAll \/ FlushOne => Tidied({}, {})
      BY FlushCases, FlushKeeps
    <2>3. \E P : Tidied(P, {})
      BY <1>10, <2>2, CacheTaskTidies, SetCacheKeeps
    <2> QED BY <1>0, <2>1, <2>3, TidiedSlots
  <1>11. CASE UNCHANGED vars
    BY <1>11 DEF vars, IInv, SlotInv, Linked, Filling
  <1> QED BY <1>1, <1>2, <1>3, <1>4, <1>5, <1>6, <1>7, <1>8, <1>9, <1>10, <1>11
      DEF Next, Step, Command, Back, Failure

-----------------------------------------------------------------------------
(* The invariant, step by step: the tasks.                                 *)

\* A task t is started.
Grown(t) ==
    /\ Len(stack') = Top + 1 /\ stack'[Top + 1] = t
    /\ \A i \in 1..Top : /\ stack'[i].kind = stack[i].kind
                         /\ stack'[i].pid = stack[i].pid
                         /\ stack'[i].exe = stack[i].exe
                         /\ stack'[i].running = stack[i].running

LEMMA StartGrows ==
  ASSUME IInv, Start
  PROVE  \E t \in Task : /\ Grown(t) /\ t.kind = "ext" /\ t.pid = slot[job.s].pid
                         /\ t.exe = job.exe /\ t.running
  <1> DEFINE t == NewTask("ext", slot[job.s].pid, job.exe)
  <1>1. /\ slot[job.s].pid \in Pid /\ job.exe \in Exe \cup {NoExe} /\ Top < MaxDepth
        /\ stack' = Append(stack, t)
    BY DEF Start, IInv, JobInv, Connecting, TypeOK, Job
  <1>2. /\ t \in Task /\ t.kind = "ext" /\ t.pid = slot[job.s].pid /\ t.exe = job.exe
        /\ t.running
    BY <1>1, NewTaskType
  <1> HIDE DEF t
  <1>3. Grown(t)
    BY <1>1, <1>2, Pushed DEF IInv, TypeOK, Top, Grown
  <1> QED BY <1>2, <1>3

LEMMA ScriptGrows ==
  ASSUME IInv, RunScript \/ RunCl
  PROVE  \E t \in Task : /\ Grown(t) /\ t.kind # "ext" /\ t.pid = NoPid
  <1>1. PICK k \in {"cl", "script"} :
          stack' = Append(Called, NewTask(k, NoPid, NoExe)) /\ Top < MaxDepth
    BY DEF RunScript, RunCl
  <1>2. /\ NewTask(k, NoPid, NoExe) \in Task /\ NewTask(k, NoPid, NoExe).kind # "ext"
        /\ NewTask(k, NoPid, NoExe).pid = NoPid
    BY NewTaskType
  <1>3. Grown(NewTask(k, NoPid, NoExe))
    <2>1. Top \in Nat
      BY CacheAssumption DEF IInv, TypeOK
    <2> QED BY <1>1, <1>2, <2>1, CalledStack, Pushed DEF IInv, Grown
  <1> QED BY <1>2, <1>3

LEMMA PackageKeeps ==
  ASSUME IInv, DefinePackage
  PROVE  SameTasks
  <1> DEFINE B == {slot[s].pid : s \in Linked} \ {NoPid}
             c == [Called[Top - 1] EXCEPT !.pno = pr_pno, !.before = B]
  <1>1. Top - 1 \in 1..Top /\ Top \in 1..Top
    <2>1. Top > 1 /\ Top \in 1..MaxDepth
      BY DEF DefinePackage, IInv, TypeOK
    <2> QED BY <2>1, CacheAssumption
  <1>2. Called \in Seq(Task) /\ Len(Called) = Top /\ Called[Top - 1] \in Task
    BY <1>1, CalledStack DEF IInv
  <1>3. stack' = [Called EXCEPT ![Top - 1] = c]
    BY <1>1, <1>2 DEF DefinePackage
  <1>4. /\ c.kind = Called[Top - 1].kind /\ c.pid = Called[Top - 1].pid
        /\ c.exe = Called[Top - 1].exe /\ c.running = Called[Top - 1].running
    BY <1>2 DEF Task
  <1> HIDE DEF B, c
  <1>5. /\ Len(stack') = Top
        /\ \A i \in 1..Top : stack'[i] = IF i = Top - 1 THEN c ELSE Called[i]
    BY <1>1, <1>2, <1>3
  <1>6. \A i \in 1..Top : /\ stack'[i].kind = Called[i].kind
                          /\ stack'[i].pid = Called[i].pid
                          /\ stack'[i].exe = Called[i].exe
                          /\ stack'[i].running = Called[i].running
    BY <1>4, <1>5
  <1> QED BY <1>1, <1>5, <1>6, CalledStack DEF SameTasks, IInv

LEMMA NextStack ==
  ASSUME IInv, [Next]_vars
  PROVE  \/ SameTasks
         \/ Back
         \/ \E t \in Task :
               /\ Grown(t)
               /\ \/ t.kind # "ext" /\ t.pid = NoPid /\ (RunScript \/ RunCl)
                  \/ /\ t.kind = "ext" /\ t.pid = slot[job.s].pid /\ t.exe = job.exe
                     /\ t.running /\ Start
  <1>1. CASE Spawn
    BY <1>1, SpawnSlots
  <1>2. CASE Start
    BY <1>2, StartGrows
  <1>3. CASE RunScript \/ RunCl
    BY <1>3, ScriptGrows
  <1>4. CASE DefinePackage
    BY <1>4, PackageKeeps
  <1>5. CASE Back
    BY <1>5
  <1>6. CASE FindReuse \/ FindStale \/ FindNone \/ GetSlot \/ Stat \/ StartLocked
             \/ StartFails \/ CloseFails \/ Close \/ DumpNext \/ DumpEnd \/ Resize
             \/ (\E n \in Sizes : SetCache(n)) \/ Interrupt \/ Environment \/ UNCHANGED vars
    <2>1. stack' = stack
      BY <1>6 DEF FindReuse, FindStale, FindNone, GetSlot, Stat, StartLocked, StartFails,
         CloseFails, SeenDead, Close, DumpNext, DumpEnd, Resize, SetCache, Interrupt,
         Environment, ChildDies, Relink, vars
    <2> QED BY <2>1, StackSame DEF IInv
  <1>7. CASE (\E x \in Exe : Run(x) \/ CacheTask(x)) \/ FlushAll \/ FlushOne
    <2>1. stack' = Called
      BY <1>7, FlushCases DEF Run, CacheTask, Flush
    <2> QED BY <2>1, StackSame DEF IInv
  <1> QED BY <1>1, <1>2, <1>3, <1>4, <1>5, <1>6, <1>7
      DEF Next, Step, Command, Back, Failure

LEMMA NextTasks ==
  ASSUME IInv, [Next]_vars
  PROVE  TaskInv'
  <1>1. Top \in Nat /\ 1 <= Top /\ Top' = Len(stack')
    BY CacheAssumption DEF IInv, TypeOK, Top
  <1>2. CASE SameTasks \/ Back
    <2>1. Kept
      BY <1>2, BackKeeps, StackKept DEF IInv
    <2> QED BY <1>1, <2>1 DEF Kept, IInv, TaskInv
  <1>3. ASSUME NEW t \in Task, Grown(t), t.kind = "ext" <=> t.pid \in Pid
        PROVE  TaskInv'
    BY <1>1, <1>3 DEF Grown, IInv, TaskInv
  <1>4. Start => slot[job.s].pid \in Pid
    BY DEF Start, IInv, JobInv
  <1> QED BY <1>2, <1>3, <1>4, NextStack, CacheAssumption

-----------------------------------------------------------------------------
(* The invariant, step by step: the operation that is going on.            *)

\* Nothing is going on, or a flush.
LEMMA RestJob ==
  ASSUME IInv, TypeOK', job'.at \in {"none", "raise", "dump"},
         job'.at # "dump" => job'.todo = {} /\ job'.size = 0,
         sz' = sz, job'.todo \subseteq {s \in Linked : slot'[s].pid # NoPid}
  PROVE  JobInv'
  <1>1. Linked' = Linked
    BY DEF Linked
  <1>2. \A s \in job'.todo : s \in Linked' /\ slot'[s].pid \in Pid
    BY <1>1, SlotNumbers DEF TypeOK, Process, IInv
  <1> QED BY <1>2 DEF JobInv, Connecting

\* Tasks are killed, or the task that is left goes on.
LEMMA BackJob ==
  ASSUME IInv, TypeOK', Back
  PROVE  JobInv'
  <1>1. PICK n \in 1..Top, k \in 1..Top :
              /\ k \in 1..n /\ Left(n, k) /\ UNCHANGED <<sz, pr_pno, hist>>
              /\ \/ job'.at = "unwind" /\ stack[k].kind = "cl"
                    /\ (\A i \in (k+1)..n : stack[i].kind # "cl")
                 \/ n = k /\ job.at = "unwind" /\ stack[Top].kind # "cl" /\ n = Top - 1
                    /\ job' = job
                 \/ n = k /\ job' = Restored(n)
    <2>1. Top \in Nat
      BY CacheAssumption DEF IInv, TypeOK
    <2> QED BY <2>1, BackKeeps
  <1>2. Top \in Nat /\ Top' = n /\ n \in Nat /\ k \in Nat
    BY <1>1, CacheAssumption DEF IInv, TypeOK, Left, Top
  <1>3. CASE job' = Restored(n)
    BY <1>1, <1>3, RestoredJob, RestJob DEF IInv
  <1>4. ASSUME job'.at = "unwind"
        PROVE  Ended'
    <2> SUFFICES ASSUME NEW i \in 1..n, stack'[i].kind = "ext", stack'[i].running
                 PROVE  \E j \in i..n : stack'[j].kind = "cl"
      BY <1>2 DEF Ended
    <2>1. i <= k /\ stack[i].kind = "ext" /\ stack[i].running
      BY <1>1 DEF Left
    <2>2. CASE stack[k].kind = "cl"
      <3>1. k \in i..n /\ stack'[k].kind = "cl"
        BY <1>1, <1>2, <2>1, <2>2 DEF Left
      <3> QED BY <3>1
    <2>3. CASE n = k /\ job.at = "unwind" /\ stack[Top].kind # "cl" /\ n = Top - 1
      <3>1. PICK j \in i..Top : stack[j].kind = "cl"
        BY <1>2, <2>1, <2>3 DEF IInv, JobInv, Ended
      <3>2. j \in i..n /\ j \in 1..n
        BY <1>2, <2>3, <3>1
      <3>3. stack'[j].kind = "cl"
        BY <1>1, <3>1, <3>2 DEF Left
      <3> QED BY <3>2, <3>3
    <2>4. CASE job' = Restored(n)
      BY <1>4, <2>4, RestoredJob DEF IInv
    <2> QED BY <1>1, <2>2, <2>3, <2>4
  <1>5. CASE job' # Restored(n)
    <2>1. job'.at = "unwind"
      BY <1>1, <1>5
    <2>2. job'.todo = {} /\ job'.size = 0
      <3>1. CASE job' = job
        BY <2>1, <3>1 DEF IInv, JobInv
      <3>2. CASE job' # job
        <4>1. ~Unwind /\ ~Bye /\ ~Resume
          <5>1. ~Unwind
            BY <3>2 DEF Unwind
          <5>2. ~Bye /\ ~Resume
            BY <2>1, RestoredJob DEF Bye, Resume, IInv
          <5> QED BY <5>1, <5>2
        <4>2. PICK m \in 1..Top : Recover(m)
          BY <4>1, FailureRecovers DEF Back, IInv
        <4> QED BY <4>2, UnwindJob DEF Recover
      <3> QED BY <3>1, <3>2
    <2> QED BY <1>4, <2>1, <2>2 DEF JobInv, Connecting
  <1> QED BY <1>3, <1>5

LEMMA FindJob ==
  ASSUME IInv, FindReuse \/ FindStale \/ FindNone
  PROVE  JobInv'
  <1>1. /\ job.at = "find" /\ job.todo = {} /\ job.size = 0 /\ job.exe \in Exe
        /\ job.use = "run" => Top < MaxDepth
    BY DEF FindReuse, FindStale, FindNone, IInv, JobInv, Connecting
  <1>2. UNCHANGED <<sz, stack, pr_pno, hist>>
    BY DEF FindReuse, FindStale, FindNone
  <1>3. CASE FindReuse
    <2>1. /\ job'.at = "start" /\ job'.s = Found /\ job'.todo = {} /\ job'.size = 0
          /\ job'.exe = job.exe /\ job'.use = job.use
      BY <1>1, <1>3 DEF FindReuse, IInv, TypeOK, Job
    <2> QED BY <1>1, <1>2, <1>3, <2>1, ReuseTidies DEF JobInv, Connecting, Linked, Top
  <1>4. CASE FindStale
    <2>1. PICK found \in BOOLEAN :
             job' = [job EXCEPT !.at = "close", !.s = Found, !.then = "get",
                                !.time = IF found THEN "new" ELSE "unread"]
      BY <1>4 DEF FindStale
    <2>2. /\ job'.at = "close" /\ job'.s = Found /\ job'.todo = {} /\ job'.size = 0
          /\ job'.exe = job.exe /\ job'.use = job.use /\ job'.then = "get"
      BY <1>1, <2>1 DEF IInv, TypeOK, Job
    <2>3. Found \in Linked /\ Found \in Slots /\ Checked[Found].pid # NoPid
          /\ ~Checked[Found].active /\ slot' = Checked
      BY <1>4, FoundIdling, SlotNumbers DEF FindStale, IInv, TypeOK, Idling
    <2>4. slot'[Found].pid \in Pid
      BY <2>3, CheckedTypes DEF IInv, Process
    <2> QED BY <1>1, <1>2, <2>2, <2>3, <2>4 DEF JobInv, Connecting, Linked, Top
  <1>5. CASE FindNone
    <2>1. /\ job'.at = "get" /\ job'.todo = {} /\ job'.size = 0
          /\ job'.exe = job.exe /\ job'.use = job.use
      BY <1>1, <1>5 DEF FindNone, IInv, TypeOK, Job
    <2> QED BY <1>1, <1>2, <2>1 DEF JobInv, Connecting, Top
  <1> QED BY <1>3, <1>4, <1>5

LEMMA GetJob ==
  ASSUME IInv, GetSlot
  PROVE  JobInv'
  <1> DEFINE s == Last(Usable)
  <1>1. /\ job.at = "get" /\ job.todo = {} /\ job.size = 0 /\ job.exe \in Exe
        /\ job.use = "run" => Top < MaxDepth
    BY DEF GetSlot, IInv, JobInv, Connecting
  <1>2. UNCHANGED <<sz, slot, stack, pr_pno, hist, child>>
    BY DEF GetSlot
  <1>3. s \in Linked /\ ~slot[s].active /\ slot[s].pid \in Pid \cup {NoPid}
    <2>1. s \in Usable
      BY LastUsable DEF GetSlot, IInv
    <2> HIDE DEF s
    <2> QED BY <2>1, SlotNumbers DEF Usable, Busy, IInv, TypeOK, Process
  <1>4. IF slot[s].pid = NoPid THEN job' = [job EXCEPT !.at = "spawn", !.s = s]
        ELSE job' = [job EXCEPT !.at = "close", !.s = s, !.then = "spawn"]
    BY DEF GetSlot
  <1> HIDE DEF s
  <1>5. /\ job'.s = s /\ job'.todo = {} /\ job'.size = 0
        /\ job'.exe = job.exe /\ job'.use = job.use
        /\ slot[s].pid = NoPid => job'.at = "spawn"
        /\ slot[s].pid # NoPid => job'.at = "close" /\ job'.then = "spawn"
    <2>1. job \in Job
      BY DEF IInv, TypeOK
    <2>2. CASE slot[s].pid = NoPid
      BY <1>1, <1>4, <2>1, <2>2 DEF Job
    <2>3. CASE slot[s].pid # NoPid
      BY <1>1, <1>4, <2>1, <2>3 DEF Job
    <2> QED BY <2>2, <2>3
  <1> QED BY <1>1, <1>2, <1>3, <1>5 DEF JobInv, Connecting, Linked, Top

LEMMA SpawnJob ==
  ASSUME IInv, Spawn
  PROVE  JobInv'
  <1>1. /\ job.at = "spawn" /\ job.todo = {} /\ job.size = 0 /\ job.exe \in Exe
        /\ job.use = "run" => Top < MaxDepth
        /\ job.s \in Linked /\ job.s \in Slots /\ slot[job.s].pid = NoPid
        /\ pr_getpno <= MaxPno /\ job \in Job
    BY SlotNumbers DEF Spawn, IInv, JobInv, Connecting, TypeOK
  <1>2. UNCHANGED <<sz, pr_pno>> /\ job' = [job EXCEPT !.at = "stat"]
    BY DEF Spawn
  <1>3. /\ job'.at = "stat" /\ job'.todo = {} /\ job'.size = 0 /\ job'.exe = job.exe
        /\ job'.use = job.use /\ job'.s = job.s
    BY <1>1, <1>2 DEF Job
  <1>4. PICK p \in Unused :
              /\ slot'[job.s] = [slot[job.s] EXCEPT !.pid = p]
              /\ child'[p] = [st |-> "up", exe |-> job.exe, new |-> TRUE]
              /\ SameTasks
    BY SpawnSlots
  <1>5. p \in Pid /\ \A i \in 1..Top : stack[i].pid # p
    BY DEF Unused
  <1>6. /\ slot'[job.s].pid = p /\ slot'[job.s].fresh = slot[job.s].fresh
        /\ slot'[job.s].active = slot[job.s].active
    BY <1>1, <1>4 DEF IInv, TypeOK, Process
  <1>7. ~slot'[job.s].fresh /\ ~slot'[job.s].active
    <2>1. ~slot[job.s].fresh /\ ~slot[job.s].active
      BY <1>1 DEF IInv, SlotInv
    <2> QED BY <1>6, <2>1
  <1>8. pr_getpno' = pr_getpno /\ Linked' = Linked /\ Top' = Top
    BY <1>2, <1>4 DEF pr_getpno, Linked, Top, SameTasks
  <1>9. child'[p].exe = job.exe
    BY <1>4
  <1>10. \A i \in 1..Top' : stack'[i].pid # slot'[job.s].pid
    BY <1>4, <1>5, <1>6, <1>8 DEF SameTasks
  <1> QED BY <1>1, <1>3, <1>5, <1>6, <1>7, <1>8, <1>9, <1>10 DEF JobInv, Connecting

LEMMA StatJob ==
  ASSUME IInv, Stat
  PROVE  JobInv'
  <1>1. /\ job.at = "stat" /\ job.todo = {} /\ job.size = 0 /\ job.exe \in Exe
        /\ job.use = "run" => Top < MaxDepth
        /\ job.s \in Linked /\ slot[job.s].pid \in Pid /\ job \in Job
    BY DEF Stat, IInv, JobInv, Connecting, TypeOK
  <1>2. UNCHANGED <<sz, stack>> /\ job' = [job EXCEPT !.at = "start"]
    BY DEF Stat
  <1>3. /\ job'.at = "start" /\ job'.todo = {} /\ job'.size = 0 /\ job'.exe = job.exe
        /\ job'.use = job.use /\ job'.s = job.s
    BY <1>1, <1>2 DEF Job
  <1>4. Linked' = Linked /\ Top' = Top
    BY <1>2 DEF Linked, Top
  <1> QED BY <1>1, <1>3, <1>4, StatSlots DEF JobInv, Connecting

\* The next process is reconnected.
LEMMA RelockJob ==
  ASSUME job'.at = "find", job'.use = "relock", job'.exe \in Exe,
         job'.todo = {}, job'.size = 0
  PROVE  JobInv'
  BY DEF JobInv, Connecting

LEMMA StartLockedJob ==
  ASSUME IInv, TypeOK', StartLocked
  PROVE  JobInv'
  <1>1. PICK x \in job.again \cup {NoExe} : (x = NoExe <=> job.again = {}) /\ job' = Again(x)
    BY DEF StartLocked
  <1>2. /\ job'.at \in {"none", "find"} /\ job'.todo = {} /\ job'.size = 0
        /\ job'.at = "find" => job'.use = "relock"
    BY <1>1, AgainJob DEF IInv
  <1>3. job'.at = "find" => job'.exe \in Exe
    <2>1. job.again \subseteq Exe
      BY DEF IInv, TypeOK, Job
    <2>2. CASE job.again = {}
      BY <1>1, <2>2, JobTypes DEF Again
    <2>3. CASE job.again # {}
      <3>1. x \in Exe
        BY <1>1, <2>1, <2>3
      <3>2. job'.exe = x
        BY <1>1, <2>3 DEF Again, NoJob
      <3> QED BY <3>1, <3>2
    <2> QED BY <2>2, <2>3
  <1>4. sz' = sz
    BY DEF StartLocked
  <1> QED BY <1>2, <1>3, <1>4, RelockJob, RestJob

LEMMA CloseJob ==
  ASSUME IInv, Close
  PROVE  JobInv'
  <1>1. /\ job.at = "close" /\ job.s \in Linked /\ job \in Job
        /\ \A s \in job.todo : s \in Linked /\ s \in Slots /\ slot[s].pid \in Pid
        /\ job.todo # {} \/ job.size # 0 => job.then = "dump" /\ job.s \notin job.todo
        /\ job.then \in {"get", "spawn"} =>
             job.exe \in Exe /\ (job.use = "run" => Top < MaxDepth)
    BY SlotNumbers DEF Close, IInv, JobInv, Connecting, TypeOK
  <1>2. UNCHANGED <<sz, stack>> /\ job' = [job EXCEPT !.at = job.then, !.then = "none"]
    BY DEF Close
  <1>3. /\ job'.at = job.then /\ job'.s = job.s /\ job'.todo = job.todo
        /\ job'.size = job.size /\ job'.exe = job.exe /\ job'.use = job.use
        /\ job.then \in {"none", "get", "spawn", "dump"}
    BY <1>1, <1>2 DEF Job
  <1>4. Linked' = Linked /\ Top' = Top
    BY <1>2 DEF Linked, Top
  <1>5. \A s \in job'.todo : s \in Linked' /\ slot'[s].pid \in Pid
    BY <1>1, <1>3, <1>4, CloseTidies
  <1>6. slot'[job.s].pid = NoPid
    BY CloseTidies
  <1> QED BY <1>1, <1>3, <1>4, <1>5, <1>6 DEF JobInv, Connecting

LEMMA DumpJob ==
  ASSUME IInv, TypeOK', DumpNext \/ DumpEnd \/ Resize
  PROVE  JobInv'
  <1>1. CASE DumpNext
    <2>1. PICK s \in job.todo :
              /\ job'.todo = job.todo \ {s} /\ job'.size = job.size
              /\ \/ job'.at = "dump" /\ job'.then = job.then /\ job'.exe = job.exe
                 \/ /\ job'.at = "close" /\ job'.s = s /\ job'.then = "dump"
                    /\ ~slot[s].active
      BY <1>1, DumpTidies
    <2>2. \A t \in job.todo : t \in Linked /\ t \in Slots /\ slot[t].pid \in Pid
      BY SlotNumbers DEF IInv, JobInv, TypeOK
    <2>3. /\ Tidied({}, {}) /\ sz' = sz
      BY <1>1, DumpTidies DEF DumpNext
    <2>4. \A t \in Slots : slot'[t].pid = slot[t].pid
      BY <1>1 DEF DumpNext, IInv, TypeOK, Process
    <2>5. ~slot[s].active => ~slot'[s].active
      BY <2>2, <2>3 DEF Tidied
    <2>6. Linked' = Linked
      BY <2>3 DEF Linked
    <2> QED BY <2>1, <2>2, <2>4, <2>5, <2>6 DEF JobInv, Connecting
  <1>2. CASE DumpEnd
    <2>1. job' = NoJob /\ sz' = sz
      BY <1>2 DEF DumpEnd
    <2> QED BY <2>1, RestJob, JobTypes
  <1>3. CASE Resize
    <2>1. PICK again \in SUBSET job.again :
            IF again = {} THEN job' = NoJob
            ELSE \E x \in again :
                   job' = [NoJob EXCEPT !.at = "find", !.use = "relock", !.exe = x,
                                        !.again = again \ {x}]
      BY <1>3 DEF Resize
    <2>2. CASE again = {}
      BY <2>1, <2>2, JobTypes DEF JobInv, Connecting
    <2>3. CASE again # {}
      <3>1. PICK x \in again :
              job' = [NoJob EXCEPT !.at = "find", !.use = "relock", !.exe = x,
                                   !.again = again \ {x}]
        BY <2>1, <2>3
      <3>2. x \in Exe
        BY DEF IInv, TypeOK, Job
      <3>3. /\ job'.at = "find" /\ job'.use = "relock" /\ job'.exe = x
            /\ job'.todo = {} /\ job'.size = 0
        BY <3>1 DEF NoJob
      <3> QED BY <3>2, <3>3, RelockJob
    <2> QED BY <2>2, <2>3
  <1> QED BY <1>1, <1>2, <1>3

LEMMA CommandJob ==
  ASSUME IInv, TypeOK', Command \/ Start \/ StartFails \/ CloseFails
                        \/ Back
  PROVE  JobInv'
  <1>1. CASE Back
    BY <1>1, BackJob
  <1>3. CASE FlushAll \/ FlushOne
    <2>1. PICK S \in SUBSET Linked, break \in BOOLEAN : Flush(S, break)
      BY <1>3, FlushCases
    <2> QED BY <2>1, FlushKeeps, RestJob DEF Tidied
  <1>4. ASSUME NEW n \in Sizes, SetCache(n)
        PROVE  JobInv'
    BY <1>4, SetCacheKeeps, RestJob DEF Tidied
  <1>5. ASSUME NEW x \in Exe, Run(x)
        PROVE  JobInv'
    <2>1. /\ job' = [NoJob EXCEPT !.at = "find", !.exe = x] /\ stack' = Called
          /\ Top < MaxDepth
      BY <1>5 DEF Run
    <2>2. job'.at = "find" /\ job'.exe = x /\ job'.todo = {} /\ job'.size = 0
      BY <2>1 DEF NoJob
    <2>3. Top' = Top
      BY <2>1, CalledStack DEF Top, IInv
    <2> QED BY <2>1, <2>2, <2>3 DEF JobInv, Connecting
  <1>6. ASSUME NEW x \in Exe, CacheTask(x)
        PROVE  JobInv'
    <2>1. /\ sz' = sz /\ job.at = "none" /\ job.todo = {} /\ job.size = 0
          /\ \/ job' = job
             \/ job' = [NoJob EXCEPT !.at = "find", !.exe = x, !.use = "lock"]
      BY <1>6 DEF CacheTask, IInv, JobInv
    <2>2. CASE job' = job
      BY <2>1, <2>2, RestJob
    <2>3. CASE job' = [NoJob EXCEPT !.at = "find", !.exe = x, !.use = "lock"]
      <3>1. /\ job'.at = "find" /\ job'.exe = x /\ job'.use = "lock" /\ job'.todo = {}
            /\ job'.size = 0
        BY <2>3 DEF NoJob
      <3> QED BY <3>1 DEF JobInv, Connecting
    <2> QED BY <2>1, <2>2, <2>3
  <1>7. CASE RunScript \/ RunCl \/ DefinePackage
    <2>1. job' = job /\ job.at = "none" /\ job.todo = {} /\ job.size = 0 /\ sz' = sz
      BY <1>7 DEF RunScript, RunCl, DefinePackage, IInv, JobInv
    <2> QED BY <2>1, RestJob
  <1>8. CASE Start
    BY <1>8, JobTypes, RestJob DEF Start
  <1>9. CASE StartFails \/ CloseFails
    <2>1. job' = [NoJob EXCEPT !.at = "raise"] /\ sz' = sz
      BY <1>9 DEF StartFails, CloseFails, SeenDead
    <2>2. job'.at = "raise" /\ job'.todo = {} /\ job'.size = 0
      BY <2>1 DEF NoJob
    <2> QED BY <2>1, <2>2, RestJob
  <1> QED BY <1>1, <1>3, <1>4, <1>5, <1>6, <1>7, <1>8, <1>9 DEF Command, Back, Failure

LEMMA EventJob ==
  ASSUME IInv, TypeOK', Interrupt \/ Environment
  PROVE  JobInv'
  <1>1. CASE Interrupt
    BY <1>1, InterruptKeeps, RestJob
  <1>2. ASSUME NEW p \in Pid, ChildDies(p)
        PROVE  JobInv'
    <2>1. /\ Linked' = Linked /\ Top' = Top /\ pr_getpno' = pr_getpno
          /\ job' = job /\ slot' = slot /\ stack' = stack
          /\ \A q \in Pid : child'[q].exe = child[q].exe
      BY <1>2, DeathKeeps DEF Linked, Top, pr_getpno
    <2> QED BY <2>1 DEF IInv, JobInv, Ended, Connecting
  <1>3. ASSUME NEW x \in Exe, Relink(x)
        PROVE  JobInv'
    <2>1. /\ Linked' = Linked /\ Top' = Top /\ pr_getpno' = pr_getpno /\ stack' = stack
          /\ job'.at = job.at /\ job'.s = job.s /\ job'.exe = job.exe /\ job'.use = job.use
          /\ job'.todo = job.todo /\ job'.then = job.then /\ job'.size = job.size
          /\ job.s \in Slots
          /\ \A q \in Pid : child'[q].exe = child[q].exe
          /\ \A s \in Slots :
               /\ slot'[s].pid = slot[s].pid /\ slot'[s].exe = slot[s].exe
               /\ slot'[s].active = slot[s].active
               /\ slot'[s].fresh => slot[s].fresh
      BY <1>3, RelinkKeeps DEF Linked, Top, pr_getpno, IInv, TypeOK, Job
    <2>2. \A s \in job.todo : s \in Linked /\ s \in Slots /\ slot[s].pid \in Pid
      BY SlotNumbers DEF IInv, JobInv, TypeOK
    <2>3. Ended' <=> Ended
      BY <2>1 DEF Ended
    <2> QED BY <2>1, <2>2, <2>3 DEF IInv, JobInv, Connecting
  <1> QED BY <1>1, <1>2, <1>3 DEF Environment

LEMMA NextInv ==
  ASSUME IInv, [Next]_vars
  PROVE  IInv'
  <1>1. TypeOK' /\ SlotInv' /\ TaskInv'
    BY NextTypes, NextSlots, NextTasks
  <1>2. CASE FindReuse \/ FindStale \/ FindNone \/ GetSlot \/ Spawn \/ Stat \/ StartLocked
             \/ Close \/ DumpNext \/ DumpEnd \/ Resize
    BY <1>1, <1>2, FindJob, GetJob, SpawnJob, StatJob, StartLockedJob, CloseJob, DumpJob
       DEF IInv
  <1>3. CASE Command \/ Start \/ StartFails \/ CloseFails \/ Back
    BY <1>1, <1>3, CommandJob DEF IInv
  <1>4. CASE Interrupt \/ Environment
    BY <1>1, <1>4, EventJob DEF IInv
  <1>5. CASE UNCHANGED vars
    BY <1>1, <1>5 DEF vars, IInv, JobInv, Ended, Connecting, Linked, Top, pr_getpno
  <1> QED BY <1>2, <1>3, <1>4, <1>5 DEF Next, Step, Back, Failure

LEMMA InitInv == Init => IInv
  <1> SUFFICES ASSUME Init
               PROVE  IInv
    OBVIOUS
  <1>1. TypeOK
    BY InitTypes
  <1>2. \A s \in Slots : slot[s].pid = NoPid /\ ~slot[s].active /\ ~slot[s].fresh
                         /\ ~slot[s].locked
    BY ProcessTypes DEF Init
  <1>3. SlotInv
    BY <1>2, CacheAssumption DEF SlotInv
  <1>4. TaskInv
    <2>1. stack = <<NewTask("cl", NoPid, NoExe)>> /\ Top = 1
      BY DEF Init, Top
    <2> QED BY <2>1, NewTaskType, CacheAssumption DEF TaskInv
  <1>5. JobInv
    BY JobTypes DEF Init, JobInv, Connecting
  <1> QED BY <1>1, <1>3, <1>4, <1>5 DEF IInv

\* However processes die, are locked, flushed and interrupted: every slot, child,
\* task and operation is well formed, the cache is never resized beyond its
\* slots, and no operation goes on with a slot that has lost its process
\* (pr_pconnect, pr_pdisconnect, pr_setcache).
THEOREM TypeCorrect == Spec => []TypeOK
  <1>1. IInv => TypeOK
    BY DEF IInv
  <1> QED BY <1>1, InitInv, NextInv, PTL DEF Spec

-----------------------------------------------------------------------------
(* Who runs in the processes.                                              *)

\* A process is not used again after its executable was relinked, unless it is
\* locked (or the relink came between the spawn and c_finfo): pr_findproc and
\* the comparison of dates in pr_pconnect.
THEOREM NewImagesAreUsed == Spec => UsesNewImage
  <1> DEFINE NewImage ==
        job.at = "find" /\ job'.at = "start"
        => LET e == slot[job'.s]
           IN  \/ e.locked
               \/ child[e.pid].new
               \/ e.pid \in hist.raced \cup hist.hurt
  <1>1. ASSUME IInv, [Next]_vars
        PROVE  [NewImage]_vars
    <2> SUFFICES ASSUME job.at = "find", job'.at = "start"
                 PROVE  LET e == slot[job'.s]
                        IN  \/ e.locked
                            \/ child[e.pid].new
                            \/ e.pid \in hist.raced \cup hist.hurt
      OBVIOUS
    <2>1. FindReuse
      <3>1. ~Command /\ ~UNCHANGED vars
        BY DEF Command, Run, CacheTask, FlushAll, FlushOne, SetCache, RunScript,
           DefinePackage, RunCl, Bye, TaskFails, ErrorStatement, vars
      <3>2. ~Interrupt
        BY <1>1, InterruptKeeps
      <3>3. ~Environment
        BY <1>1, DeathKeeps, RelinkKeeps DEF Environment
      <3>4. ~FindStale /\ ~FindNone
        BY <1>1 DEF FindStale, FindNone, IInv, TypeOK, Job
      <3> QED BY <1>1, <3>1, <3>2, <3>3, <3>4 DEF Next, Step, GetSlot, GetFails, Spawn,
              SpawnFails, Stat, Start, StartLocked, StartFails, Raise, Close, CloseFails,
              DumpNext, DumpEnd, Resize, Unwind, Resume
    <2>2. job'.s = Found /\ (Checked[Found].locked \/ Checked[Found].fresh)
      BY <1>1, <2>1 DEF FindReuse, IInv, TypeOK, Job
    <2>3. slot[Found] = Checked[Found] /\ Found \in Slots /\ slot[Found].pid \in Pid
      <3>1. slot[Found] = Checked[Found] /\ Found \in Slots /\ slot'[Found].pid \in Pid
            /\ slot'[Found].pid = slot[Found].pid
        BY <1>1, <2>1, ReuseTidies, SlotNumbers DEF IInv, TypeOK
      <3> QED BY <3>1
    <2>4. slot[Found].fresh => \/ child[slot[Found].pid].new
                               \/ slot[Found].pid \in hist.raced \cup hist.hurt
      BY <1>1, <2>3 DEF IInv, SlotInv
    <2> QED BY <2>2, <2>3, <2>4
  <1>2. Spec => [][NewImage]_vars
    <2> HIDE DEF NewImage
    <2> QED BY <1>1, InitInv, NextInv, PTL DEF Spec
  <1> QED BY <1>2 DEF UsesNewImage

\* Slots that are only tidied keep their owners, if the tasks of the processes
\* that are not given back stay.
LEMMA TidiedOwned ==
  ASSUME IInv, IInv', ActiveIsOwned, NEW P, NEW A, Tidied(P, A),
         \A s \in A : job'.at = "start" /\ job'.s = s,
         \A i \in 1..Top : stack[i].running =>
             \/ stack[i].pid \in P \cup {NoPid}
             \/ \E j \in 1..Top' : stack'[j].pid = stack[i].pid /\ stack'[j].running,
         job.at = "start" =>
             \/ slot[job.s].pid \in P
             \/ \E j \in 1..Top' : stack'[j].pid = slot[job.s].pid /\ stack'[j].running
  PROVE  ActiveIsOwned'
  <1> SUFFICES ASSUME NEW s \in Linked', slot'[s].active
               PROVE  \/ \E i \in 1..Top' : stack'[i].pid = slot'[s].pid /\ stack'[i].running
                      \/ job'.at = "start" /\ job'.s = s
                      \/ slot'[s].pid \in hist'.leaked
                      \/ child'[slot'[s].pid].st = "known"
    BY DEF ActiveIsOwned
  <1>1. s \in Linked /\ s \in Slots
    BY SlotNumbers DEF Tidied, Linked, IInv, TypeOK
  <1>2. CASE s \in A
    BY <1>2
  <1>3. CASE s \notin A
    <2>1. /\ slot[s].pid \in Pid /\ slot'[s].pid = slot[s].pid
          /\ slot[s].active /\ slot[s].pid \notin P
          /\ child'[slot[s].pid] = child[slot[s].pid]
          /\ hist'.leaked = hist.leaked
      BY <1>1, <1>3 DEF Tidied
    <2>2. \/ \E i \in 1..Top : stack[i].pid = slot[s].pid /\ stack[i].running
          \/ job.at = "start" /\ job.s = s
          \/ slot[s].pid \in hist.leaked
          \/ child[slot[s].pid].st = "known"
      BY <1>1, <2>1 DEF ActiveIsOwned
    <2> QED BY <2>1, <2>2, CacheAssumption
  <1> QED BY <1>2, <1>3

LEMMA KeptAll ==
  ASSUME SameTasks
  PROVE  \A i \in 1..Top : stack[i].running =>
            \E j \in 1..Top' : stack'[j].pid = stack[i].pid /\ stack'[j].running
  BY DEF SameTasks, Top

LEMMA RecoverOwned ==
  ASSUME IInv, IInv', ActiveIsOwned, Back
  PROVE  ActiveIsOwned'
  <1>1. PICK n \in 1..Top : \E k \in 1..n : Left(n, k) /\ Tidied(Processes(k), {})
    BY BackKeeps
  <1>2. PICK k \in 1..n : Left(n, k) /\ Tidied(Processes(k), {})
    BY <1>1
  <1>3. job.at # "start"
    BY BackKeeps
  <1>4. ASSUME NEW i \in 1..Top, stack[i].running
        PROVE  \/ stack[i].pid \in Processes(k) \cup {NoPid}
               \/ \E j \in 1..Top' : stack'[j].pid = stack[i].pid /\ stack'[j].running
    <2>1. Top \in Nat /\ Top' = n
      BY <1>2, CacheAssumption DEF IInv, TypeOK, Top, Left
    <2>2. CASE i <= k
      <3>1. i \in 1..n
        BY <2>1, <2>2
      <3> QED BY <1>2, <1>4, <2>1, <2>2, <3>1 DEF Left
    <2>3. CASE ~(i <= k)
      <3>1. i \in (k + 1)..Top
        BY <2>1, <2>3
      <3> QED BY <1>4, <3>1 DEF Processes
    <2> QED BY <2>2, <2>3
  <1>5. \A s \in {} : job'.at = "start" /\ job'.s = s
    OBVIOUS
  <1> QED BY <1>2, <1>3, <1>4, <1>5, TidiedOwned

LEMMA NextOwned ==
  ASSUME IInv, ActiveIsOwned, [Next]_vars
  PROVE  ActiveIsOwned'
  <1>0. IInv' /\ TypeOK /\ Top \in Nat
    <2>1. IInv'
      BY NextInv
    <2>2. TypeOK /\ Top \in 1..MaxDepth
      BY DEF IInv, TypeOK
    <2> QED BY <2>1, <2>2, CacheAssumption
  <1>1. CASE Back
    BY <1>0, <1>1, RecoverOwned
  <1>2. CASE FindReuse
    <2>1. stack' = stack /\ job.at # "start" /\ job'.at = "start" /\ job'.s = Found
      BY <1>2 DEF FindReuse, IInv, TypeOK, Job
    <2>2. Top' = Top
      BY <2>1 DEF Top
    <2> QED BY <1>0, <1>2, <2>1, <2>2, ReuseTidies, TidiedOwned
  <1>3. CASE FindStale \/ FindNone \/ GetSlot \/ Close \/ DumpNext \/ DumpEnd
             \/ \E n \in Sizes : SetCache(n)
    <2>1. stack' = stack /\ job.at # "start" /\ Top' = Top
      BY <1>3 DEF FindStale, FindNone, GetSlot, Close, DumpNext, DumpEnd, SetCache, Top
    <2>2. Tidied({}, {})
      BY <1>3, FindTidies, QuietKeeps, CloseTidies, DumpTidies, SetCacheKeeps
    <2> QED BY <1>0, <2>1, <2>2, TidiedOwned
  <1>4. CASE (\E x \in Exe : Run(x) \/ CacheTask(x)) \/ FlushAll \/ FlushOne \/ DefinePackage
    <2>1. job.at # "start"
      BY <1>4 DEF Run, CacheTask, FlushAll, FlushOne, DefinePackage
    <2>2. Tidied({}, {})
      BY <1>4, QuietKeeps, CacheTaskTidies, FlushCases, FlushKeeps
    <2>3. SameTasks
      <3>1. CASE DefinePackage
        BY <3>1, PackageKeeps
      <3>2. CASE ~DefinePackage
        <4>1. stack' = Called
          BY <1>4, <3>2, FlushCases DEF Run, CacheTask, Flush
        <4> QED BY <1>0, <4>1, StackSame
      <3> QED BY <3>1, <3>2
    <2> QED BY <1>0, <2>1, <2>2, <2>3, KeptAll, TidiedOwned
  <1>5. CASE Start \/ RunScript \/ RunCl
    <2>1. PICK t \in Task : Grown(t) /\ (Start => t.pid = slot[job.s].pid /\ t.running)
      BY <1>5, StartGrows, ScriptGrows DEF Start, RunScript, RunCl
    <2>2. Top' = Top + 1
      BY <2>1 DEF Grown, Top
    <2>3. \A i \in 1..Top : stack[i].running =>
             \E j \in 1..Top' : stack'[j].pid = stack[i].pid /\ stack'[j].running
      BY <1>0, <2>1, <2>2 DEF Grown
    <2>4. job.at = "start" =>
             \E j \in 1..Top' : stack'[j].pid = slot[job.s].pid /\ stack'[j].running
      <3>1. job.at = "start" => Start
        BY <1>5 DEF RunScript, RunCl
      <3>2. Top + 1 \in 1..Top'
        BY <1>0, <2>2
      <3> QED BY <2>1, <3>1, <3>2 DEF Grown
    <2>5. Tidied({}, {})
      BY <1>5, QuietKeeps
    <2> QED BY <1>0, <2>3, <2>4, <2>5, TidiedOwned
  <1>6. CASE StartLocked
    <2>1. stack' = stack /\ Top' = Top
      BY <1>6 DEF StartLocked, Top
    <2> QED BY <1>0, <1>6, <2>1, LockTidies, TidiedOwned
  <1>7. CASE Spawn
    <2>1. PICK p \in Unused :
              /\ slot'[job.s] = [slot[job.s] EXCEPT !.pid = p]
              /\ \A t \in Slots \ {job.s} : slot'[t] = slot[t]
              /\ \A q \in Pid \ {p} : child'[q] = child[q]
              /\ SameTasks
              /\ hist'.leaked = hist.leaked \ {p}
      BY <1>7, SpawnSlots
    <2>2. Top' = Top /\ Linked' = Linked /\ job.at = "spawn" /\ Linked \subseteq Slots
          /\ job.s \in Slots
      BY <1>0, <1>7, <2>1, SlotNumbers DEF Top, Linked, Spawn, TypeOK, Job, SameTasks
    <2>3. ~slot'[job.s].active
      <3>1. ~slot[job.s].active /\ slot[job.s] \in Process
        BY <1>7, <2>2 DEF IInv, JobInv, SlotInv, TypeOK
      <3> QED BY <2>1, <3>1 DEF Process
    <2>4. \A t \in Slots : slot[t].pid # p
      BY DEF Unused
    <2>5. ASSUME NEW s \in Linked, slot'[s].active
          PROVE  \/ \E i \in 1..Top' : stack'[i].pid = slot'[s].pid /\ stack'[i].running
                 \/ slot'[s].pid \in hist'.leaked
                 \/ child'[slot'[s].pid].st = "known"
      <3>1. s \in Slots /\ s # job.s /\ slot'[s] = slot[s]
        BY <2>1, <2>2, <2>3, <2>5
      <3>2. slot[s].pid \in Pid \ {p}
        BY <2>4, <2>5, <3>1 DEF IInv, SlotInv, TypeOK, Process
      <3>3. \/ \E i \in 1..Top : stack[i].pid = slot[s].pid /\ stack[i].running
            \/ slot[s].pid \in hist.leaked
            \/ child[slot[s].pid].st = "known"
        BY <2>2, <2>5, <3>1 DEF ActiveIsOwned
      <3> QED BY <2>1, <2>2, <3>1, <3>2, <3>3 DEF SameTasks
    <2> QED BY <2>2, <2>5 DEF ActiveIsOwned
  <1>8. CASE Stat
    <2>1. /\ stack' = stack /\ child' = child /\ job'.at = "start" /\ job'.s = job.s
          /\ Linked' = Linked /\ Top' = Top /\ job.at = "stat" /\ Linked \subseteq Slots
      BY <1>0, <1>8, SlotNumbers DEF Stat, Linked, Top, TypeOK, Job
    <2>2. /\ \A s \in Slots \ {job.s} : slot'[s] = slot[s]
          /\ hist'.leaked = hist.leaked
      BY <1>8, StatSlots
    <2> QED BY <2>1, <2>2 DEF ActiveIsOwned
  <1>9. CASE Resize
    <2>1. Linked' \subseteq Slots
      <3>1. sz' \in Sizes
        BY <1>0 DEF IInv, TypeOK
      <3> QED BY <3>1, CacheAssumption DEF Linked, Slots
    <2>2. \A s \in Slots : ~slot'[s].active
      BY <1>0, <1>9, ResizeSlots
    <2> QED BY <2>1, <2>2 DEF ActiveIsOwned
  <1>10. CASE StartFails \/ CloseFails
    <2>1. job.at \in {"start", "close"} /\ SeenDead
      BY <1>10 DEF StartFails, CloseFails
    <2>2. /\ UNCHANGED <<sz, slot, stack, hist>> /\ Linked' = Linked /\ Top' = Top
          /\ child'[slot[job.s].pid].st = "known"
          /\ \A p \in Pid : p # slot[job.s].pid => child'[p] = child[p]
      BY <2>1, SeenDeadKeeps DEF Linked, Top
    <2>3. \A s \in Linked : slot[s].active => slot[s].pid \in Pid
      BY <1>0, SlotNumbers DEF IInv, SlotInv, TypeOK, Process
    <2> QED BY <2>2, <2>3 DEF ActiveIsOwned
  <1>11. CASE Interrupt
    <2>1. /\ UNCHANGED <<sz, slot, stack>> /\ Linked' = Linked /\ Top' = Top
          /\ hist.leaked \subseteq hist'.leaked
          /\ job.at = "start" => slot[job.s].pid \in hist'.leaked
          /\ \A p \in Pid : \/ child'[p] = child[p]
                            \/ job.at = "close" /\ p = slot[job.s].pid
      BY <1>11, InterruptKeeps DEF Linked, Top
    <2>2. ASSUME NEW s \in Linked, slot[s].active
          PROVE  child'[slot[s].pid] = child[slot[s].pid]
      <3>1. s \in Slots /\ slot[s].pid \in Pid
        BY <1>0, <2>2, SlotNumbers DEF IInv, SlotInv, TypeOK, Process
      <3>2. job.at = "close" => ~slot[job.s].active /\ job.s \in Slots
        BY <1>0, SlotNumbers DEF IInv, JobInv, TypeOK
      <3>3. job.at = "close" => slot[s].pid # slot[job.s].pid
        BY <2>2, <3>1, <3>2, CacheAssumption DEF IInv, SlotInv
      <3> QED BY <2>1, <3>1, <3>3
    <2> QED BY <2>1, <2>2 DEF ActiveIsOwned
  <1>12. CASE Environment
    <2>1. hist'.leaked = hist.leaked
      BY <1>12 DEF Environment, IInv, TypeOK
    <2>2. /\ UNCHANGED <<sz, stack>> /\ Linked' = Linked /\ Top' = Top
          /\ job'.at = job.at /\ job'.s = job.s
          /\ \A s \in Slots : slot'[s].pid = slot[s].pid /\ slot'[s].active = slot[s].active
          /\ \A p \in Pid : child[p].st = "known" => child'[p].st = "known"
      <3>1. ASSUME NEW p \in Pid, ChildDies(p)
            PROVE  /\ UNCHANGED <<sz, stack, slot, job>>
                   /\ \A q \in Pid : child[q].st = "known" => child'[q].st = "known"
        BY <3>1, DeathKeeps
      <3>2. ASSUME NEW x \in Exe, Relink(x)
            PROVE  /\ UNCHANGED <<sz, stack>> /\ job'.at = job.at /\ job'.s = job.s
                   /\ \A s \in Slots : /\ slot'[s].pid = slot[s].pid
                                       /\ slot'[s].active = slot[s].active
                   /\ \A q \in Pid : child'[q].st = child[q].st
        BY <3>2, RelinkKeeps
      <3> QED BY <1>12, <3>1, <3>2 DEF Environment, Linked, Top
    <2>3. \A s \in Linked : s \in Slots /\ (slot[s].active => slot[s].pid \in Pid)
      BY <1>0, SlotNumbers DEF IInv, SlotInv, TypeOK, Process
    <2> QED BY <2>1, <2>2, <2>3 DEF ActiveIsOwned
  <1>13. CASE UNCHANGED vars
    BY <1>13 DEF vars, ActiveIsOwned, Linked, Top
  <1> QED BY <1>1, <1>2, <1>3, <1>4, <1>5, <1>6, <1>7, <1>8, <1>9, <1>10, <1>11, <1>12,
             <1>13 DEF Next, Step, Command, Back, Failure

\* A slot stays marked in use only while a task that runs, or one that is being
\* started, is in it: error recovery and interrupts give every process
\* back, except after an interrupt of a start (P_ACTIVE; pr_pdisconnect,
\* iofinish, cl_error).
THEOREM ActiveAreOwned == Spec => []ActiveIsOwned
  <1>1. Init => ActiveIsOwned
    <2> SUFFICES ASSUME Init
                 PROVE  ActiveIsOwned
      OBVIOUS
    <2>1. \A s \in Linked : ~slot[s].active
      BY ProcessTypes, SlotNumbers, CacheAssumption DEF Init, Linked
    <2> QED BY <2>1 DEF ActiveIsOwned
  <1> QED BY <1>1, InitInv, NextInv, NextOwned, PTL DEF Spec

-----------------------------------------------------------------------------
(* A task has its process for itself, if the cache is not resized while    *)
(* tasks run.                                                              *)

Good(p) == child[p].st = "up" /\ p \notin hist.hurt
GoodNext(p) == child'[p].st = "up" /\ p \notin hist'.hurt

\* A task that was finished is still on the stack only while the tasks are killed,
\* unless an interrupt came then; it is above the interactive task that will go
\* on, and its process is not in use.
FinishedInv ==
    \A i \in 1..Top :
        stack[i].kind = "ext" /\ ~stack[i].running /\ stack[i].pid \notin hist.hurt =>
            /\ job.at \in {"unwind", "raise"}
            /\ \A j \in i..Top : stack[j].kind # "cl"
            /\ \A s \in Linked : slot[s].pid = stack[i].pid => ~slot[s].active

LEMMA FinishedQuiet ==
  ASSUME IInv, FinishedInv, job.at \notin {"unwind", "raise"},
         \/ SameTasks
         \/ \E t \in Task : Grown(t) /\ (t.kind = "ext" => t.running),
         \A i \in 1..Top : stack[i].pid \in hist.hurt => stack[i].pid \in hist'.hurt
  PROVE  FinishedInv'
  <1>1. \A i \in 1..Top : stack[i].kind = "ext" /\ ~stack[i].running
                          => stack[i].pid \in hist'.hurt
    BY DEF FinishedInv
  <1>2. Top \in Nat /\ Top' = Len(stack')
    BY CacheAssumption DEF IInv, TypeOK, Top
  <1>3. ASSUME NEW i \in 1..Top', stack'[i].kind = "ext", ~stack'[i].running
        PROVE  stack'[i].pid \in hist'.hurt
    <2>1. CASE SameTasks
      BY <1>1, <1>2, <1>3, <2>1 DEF SameTasks
    <2>2. ASSUME NEW t \in Task, Grown(t), t.kind = "ext" => t.running
          PROVE  stack'[i].pid \in hist'.hurt
      <3>1. i \in 1..Top
        BY <1>2, <1>3, <2>2 DEF Grown
      <3> QED BY <1>1, <1>3, <2>2, <3>1 DEF Grown
    <2> QED BY <2>1, <2>2
  <1> QED BY <1>3 DEF FinishedInv

LEMMA FinishedBack ==
  ASSUME IInv, FinishedInv, Back
  PROVE  FinishedInv'
  <1>0. Top \in Nat /\ Top' = Len(stack') /\ hist' = hist /\ Linked' = Linked
        /\ Linked \subseteq Slots
    <2>1. hist' = hist /\ sz' = sz
      BY BackKeeps
    <2> QED BY <2>1, SlotNumbers, CacheAssumption DEF IInv, TypeOK, Top, Linked
  <1>1. PICK n \in 1..Top : \E k \in 1..n :
              /\ Left(n, k)
              /\ Tidied(Processes(k), {})
              /\ \/ job'.at = "unwind" /\ stack[k].kind = "cl"
                    /\ (\A i \in (k+1)..n : stack[i].kind # "cl")
                 \/ n = k /\ job.at = "unwind" /\ n = Top - 1 /\ job' = job
                 \/ n = k /\ n = Top - 1 /\ job.at = "none"
                 \/ n = k /\ n = Top /\ stack[Top].kind = "cl"
    BY BackKeeps
  <1>2. PICK k \in 1..n :
              /\ Left(n, k)
              /\ Tidied(Processes(k), {})
              /\ \/ job'.at = "unwind" /\ stack[k].kind = "cl"
                    /\ (\A i \in (k+1)..n : stack[i].kind # "cl")
                 \/ n = k /\ job.at = "unwind" /\ n = Top - 1 /\ job' = job
                 \/ n = k /\ n = Top - 1 /\ job.at = "none"
                 \/ n = k /\ n = Top /\ stack[Top].kind = "cl"
    BY <1>1
  <1>3. Top' = n /\ n \in Nat /\ k \in Nat /\ k <= n /\ n <= Top /\ Top \in Nat
    BY <1>0, <1>2 DEF Left
  <1> SUFFICES ASSUME NEW i \in 1..n, stack'[i].kind = "ext", ~stack'[i].running,
                      stack'[i].pid \notin hist.hurt
               PROVE  /\ job'.at \in {"unwind", "raise"}
                      /\ \A j \in i..n : stack'[j].kind # "cl"
                      /\ \A s \in Linked : slot'[s].pid = stack'[i].pid => ~slot'[s].active
    BY <1>0, <1>3 DEF FinishedInv
  <1>4. /\ stack[i].kind = "ext" /\ stack[i].pid \notin hist.hurt /\ i \in 1..Top
        /\ stack'[i].pid = stack[i].pid /\ stack[i].pid \in Pid
        /\ i > k \/ ~stack[i].running
    <2>1. /\ stack[i].kind = "ext" /\ stack'[i].pid = stack[i].pid
          /\ ~(i <= k) \/ ~stack[i].running
      BY <1>2 DEF Left
    <2>2. i \in 1..Top
      BY <1>0, <1>3
    <2> QED BY <1>3, <2>1, <2>2 DEF IInv, TaskInv
  <1>5. ~stack[i].running => /\ job.at \in {"unwind", "raise"}
                             /\ \A j \in i..Top : stack[j].kind # "cl"
                             /\ \A s \in Linked : slot[s].pid = stack[i].pid => ~slot[s].active
    BY <1>4 DEF FinishedInv
  <1>6. /\ job'.at \in {"unwind", "raise"}
        /\ \A j \in i..n : stack[j].kind # "cl"
    <2>1. CASE job'.at = "unwind" /\ stack[k].kind = "cl"
               /\ (\A j \in (k+1)..n : stack[j].kind # "cl")
      <3>1. i > k
        <4>1. ASSUME ~(i > k)
              PROVE  FALSE
          <5>1. k \in i..Top
            BY <1>3, <4>1
          <5>2. ~stack[i].running
            BY <1>4, <4>1, Zenon
          <5> QED BY <1>5, <2>1, <5>1, <5>2
        <4> QED BY <4>1
      <3>2. \A j \in i..n : j \in (k+1)..n
        BY <1>3, <3>1
      <3> QED BY <2>1, <3>2
    <2>2. CASE n = k /\ job.at = "unwind" /\ n = Top - 1 /\ job' = job
      <3>1. ~stack[i].running
        BY <1>3, <1>4, <2>2
      <3>2. \A j \in i..n : j \in i..Top
        BY <1>3, <2>2
      <3>3. \A j \in i..n : stack[j].kind # "cl"
        BY <1>5, <3>1, <3>2
      <3> QED BY <2>2, <3>3
    <2>3. CASE n = k /\ n = Top - 1 /\ job.at = "none"
      <3>1. ~stack[i].running
        BY <1>3, <1>4, <2>3
      <3> QED BY <1>5, <2>3, <3>1
    <2>4. CASE n = k /\ n = Top /\ stack[Top].kind = "cl"
      <3>1. ~stack[i].running /\ Top \in i..Top
        BY <1>3, <1>4, <2>4
      <3> QED BY <1>5, <2>4, <3>1
    <2> QED BY <1>2, <2>1, <2>2, <2>3, <2>4
  <1>7. \A j \in i..n : stack'[j].kind # "cl"
    <2>1. \A j \in i..n : j \in 1..n
      BY <1>3
    <2> QED BY <1>2, <1>6, <2>1 DEF Left
  <1>8. ASSUME NEW s \in Linked, slot'[s].pid = stack[i].pid
        PROVE  ~slot'[s].active
    <2>1. /\ s \in Slots /\ slot'[s].pid # NoPid
      BY <1>0, <1>4, <1>8, CacheAssumption
    <2>2. /\ slot[s].pid = stack[i].pid
          /\ slot'[s].active => slot[s].active /\ slot[s].pid \notin Processes(k)
      BY <1>2, <1>8, <2>1 DEF Tidied
    <2>3. CASE ~stack[i].running
      BY <1>5, <2>2, <2>3
    <2>4. CASE stack[i].running
      <3>1. i \in (k+1)..Top /\ stack[i].pid # NoPid
        BY <1>3, <1>4, <2>4, CacheAssumption
      <3>2. stack[i].pid \in Processes(k)
        BY <2>4, <3>1 DEF Processes
      <3> QED BY <2>2, <3>2
    <2> QED BY <2>3, <2>4
  <1> QED BY <1>4, <1>6, <1>7, <1>8

LEMMA FinishedEvent ==
  ASSUME IInv, FinishedInv, Interrupt \/ Environment
  PROVE  FinishedInv'
  <1>1. CASE Interrupt
    <2>1. /\ UNCHANGED <<sz, slot, stack>> /\ hist.hurt \subseteq hist'.hurt
          /\ \/ job.at \in {"stat", "close"}
             \/ hist'.hurt = hist.hurt \cup Revived
             \/ job.at \notin {"stat", "close"} /\ (job.at = "unwind" => job'.at = "raise")
          /\ job.at # "raise"
      BY <1>1, InterruptKeeps
    <2>2. CASE job.at \notin {"unwind", "raise"}
      <3>1. SameTasks
        BY <2>1, StackSame DEF IInv
      <3> QED BY <2>1, <2>2, <3>1, FinishedQuiet
    <2>3. CASE job.at = "unwind" /\ job'.at = "raise"
      BY <2>1, <2>3 DEF FinishedInv, Linked, Top
    <2>4. CASE hist'.hurt = hist.hurt \cup Revived
      <3>1. \A i \in 1..Top : stack[i].kind = "ext" /\ ~stack[i].running
                              => stack[i].pid \in hist'.hurt
        BY <2>4, CacheAssumption DEF Revived, IInv, TaskInv
      <3> QED BY <2>1, <3>1 DEF FinishedInv, Top
    <2> QED BY <2>1, <2>2, <2>3, <2>4
  <1>2. CASE Environment
    <2>1. hist'.hurt = hist.hurt
      BY <1>2 DEF Environment, IInv, TypeOK
    <2>2. /\ UNCHANGED <<sz, stack>> /\ job'.at = job.at
          /\ \A s \in Slots : slot'[s].pid = slot[s].pid /\ slot'[s].active = slot[s].active
      <3>1. ASSUME NEW p \in Pid, ChildDies(p)
            PROVE  UNCHANGED <<sz, stack, slot, job>>
        BY <3>1, DeathKeeps
      <3>2. ASSUME NEW x \in Exe, Relink(x)
            PROVE  /\ UNCHANGED <<sz, stack>> /\ job'.at = job.at
                   /\ \A s \in Slots : /\ slot'[s].pid = slot[s].pid
                                       /\ slot'[s].active = slot[s].active
        BY <3>2, RelinkKeeps
      <3> QED BY <1>2, <3>1, <3>2 DEF Environment
    <2>3. Linked' = Linked /\ Linked \subseteq Slots /\ Top' = Top
      BY <2>2, SlotNumbers DEF Linked, Top, IInv, TypeOK
    <2> QED BY <2>1, <2>2, <2>3 DEF FinishedInv
  <1> QED BY <1>1, <1>2

LEMMA NextFinished ==
  ASSUME IInv, FinishedInv, [Next]_vars
  PROVE  FinishedInv'
  <1>1. CASE Back
    BY <1>1, FinishedBack
  <1>2. CASE Interrupt \/ Environment
    BY <1>2, FinishedEvent
  <1>3. CASE UNCHANGED vars
    BY <1>3 DEF vars, FinishedInv, Linked, Top
  <1>4. CASE ~(Back \/ Interrupt \/ Environment \/ UNCHANGED vars)
    <2>1. \/ SameTasks
          \/ \E t \in Task : Grown(t) /\ (t.kind = "ext" => t.running)
      BY <1>4, NextStack
    <2>2. job.at \notin {"unwind", "raise"}
      BY <1>4, Zenon DEF Next, Step, Command, Back, Failure, FindReuse, FindStale, FindNone,
         GetSlot, Spawn, Stat, Start, StartLocked, StartFails, Close, CloseFails, DumpNext,
         DumpEnd, Resize, Run, CacheTask, FlushAll, FlushOne, SetCache, RunScript,
         DefinePackage, RunCl
    <2>3. \A i \in 1..Top : stack[i].pid \in hist.hurt => stack[i].pid \in hist'.hurt
      <3>1. CASE Spawn
        <4>1. PICK p \in Unused : hist'.hurt = hist.hurt \ {p}
          BY <3>1, SpawnSlots
        <4> QED BY <4>1 DEF Unused
      <3>2. CASE ~Spawn
        <4>1. hist'.hurt = hist.hurt
          <5>1. CASE FindReuse \/ FindStale \/ FindNone \/ GetSlot \/ Close \/ DumpNext
                     \/ DumpEnd \/ Start \/ StartLocked \/ RunScript \/ RunCl \/ DefinePackage
                     \/ (\E n \in Sizes : SetCache(n))
                     \/ (\E x \in Exe : Run(x) \/ CacheTask(x)) \/ FlushAll \/ FlushOne
            <6>1. \E P, A : Tidied(P, A)
              BY <5>1, ReuseTidies, FindTidies, QuietKeeps, CloseTidies, DumpTidies,
                 SetCacheKeeps, CacheTaskTidies, FlushCases, FlushKeeps, LockTidies
            <6> QED BY <6>1 DEF Tidied
          <5>2. CASE Stat
            BY <5>2, StatSlots
          <5>3. CASE Resize \/ StartFails \/ CloseFails
            BY <5>3 DEF Resize, StartFails, CloseFails, SeenDead, IInv, TypeOK
          <5> QED BY <1>4, <3>2, <5>1, <5>2, <5>3 DEF Next, Step, Command, Back, Failure
        <4> QED BY <4>1
      <3> QED BY <3>1, <3>2
    <2> QED BY <2>1, <2>2, <2>3, FinishedQuiet
  <1> QED BY <1>1, <1>2, <1>3, <1>4

\* What an operation starts a task in is not the process of another task, and
\* pr_setcache works while no process is in use.
OwnInv ==
    /\ OwnProcess
    /\ FinishedInv
    /\ job.at = "start" /\ Good(slot[job.s].pid) =>
          \A i \in 1..Top : stack[i].pid # slot[job.s].pid
    /\ job.size # 0 => \A s \in Linked : ~slot[s].active

\* If p is a good process now it was one before, and its slot is as it was.
Same(p) ==
    GoodNext(p) => /\ Good(p) /\ child'[p].exe = child[p].exe
                /\ \A s \in Linked : slot[s].pid = p /\ slot[s].active
                     => s \in Linked' /\ slot'[s].pid = p /\ slot'[s].active

LEMMA OwnTask ==
  ASSUME IInv, OwnProcess, NEW i \in 1..Top, stack[i].pid \in Pid, stack[i].running,
         Good(stack[i].pid)
  PROVE  /\ child[stack[i].pid].exe = stack[i].exe
         /\ \A j \in 1..Top : stack[j].pid = stack[i].pid => j = i
         /\ \E s \in Linked : slot[s].pid = stack[i].pid /\ slot[s].active
  <1>1. stack[i].kind = "ext"
    BY DEF IInv, TaskInv
  <1> QED BY <1>1 DEF OwnProcess, Good

LEMMA OwnKept ==
  ASSUME IInv, OwnProcess, Kept,
         \A i \in 1..Len(stack') :
            stack[i].pid \in Pid /\ stack'[i].running => Same(stack[i].pid)
  PROVE  OwnProcess'
  <1>1. Top \in Nat /\ Top' = Len(stack') /\ \A i \in 1..Top' : i \in 1..Top
    BY CacheAssumption DEF IInv, TypeOK, Top, Kept
  <1> SUFFICES ASSUME NEW i \in 1..Top', stack'[i].kind = "ext", stack'[i].running,
                      child'[stack'[i].pid].st = "up", stack'[i].pid \notin hist'.hurt
               PROVE  /\ child'[stack'[i].pid].exe = stack'[i].exe
                      /\ \A j \in 1..Top' : stack'[j].pid = stack'[i].pid => j = i
                      /\ \E s \in Linked' : slot'[s].pid = stack'[i].pid /\ slot'[s].active
    BY DEF OwnProcess
  <1>2. /\ i \in 1..Top /\ stack'[i].pid = stack[i].pid /\ stack'[i].exe = stack[i].exe
        /\ stack[i].kind = "ext" /\ stack[i].running
    BY <1>1 DEF Kept
  <1>3. stack[i].pid \in Pid
    BY <1>2 DEF IInv, TaskInv
  <1>4. Same(stack[i].pid) /\ GoodNext(stack[i].pid)
    BY <1>1, <1>2, <1>3 DEF GoodNext
  <1>5. /\ Good(stack[i].pid) /\ child'[stack[i].pid].exe = child[stack[i].pid].exe
        /\ \A s \in Linked : slot[s].pid = stack[i].pid /\ slot[s].active
             => s \in Linked' /\ slot'[s].pid = stack[i].pid /\ slot'[s].active
    BY <1>2, <1>4 DEF Same
  <1>6. /\ child[stack[i].pid].exe = stack[i].exe
        /\ \A j \in 1..Top : stack[j].pid = stack[i].pid => j = i
        /\ \E s \in Linked : slot[s].pid = stack[i].pid /\ slot[s].active
    BY <1>2, <1>3, <1>5, OwnTask
  <1>7. \A j \in 1..Top' : j \in 1..Top /\ stack'[j].pid = stack[j].pid
    BY <1>1 DEF Kept
  <1> QED BY <1>2, <1>5, <1>6, <1>7

LEMMA OwnGrown ==
  ASSUME IInv, OwnProcess, NEW t \in Task, Grown(t), UNCHANGED <<sz, slot, child>>,
         hist'.hurt = hist.hurt,
         \/ t.kind # "ext" /\ t.pid = NoPid
         \/ /\ t.pid \in Pid
            /\ Good(t.pid) =>
                  /\ child[t.pid].exe = t.exe
                  /\ \A i \in 1..Top : stack[i].pid # t.pid
                  /\ \E s \in Linked : slot[s].pid = t.pid /\ slot[s].active
  PROVE  OwnProcess'
  <1>1. /\ Top \in Nat /\ Top' = Top + 1 /\ Linked' = Linked
        /\ \A i \in 1..Top' : i \in 1..Top \/ i = Top + 1
    BY CacheAssumption DEF IInv, TypeOK, Top, Linked, Grown
  <1> SUFFICES ASSUME NEW i \in 1..Top', stack'[i].kind = "ext", stack'[i].running,
                      child[stack'[i].pid].st = "up", stack'[i].pid \notin hist.hurt
               PROVE  /\ child[stack'[i].pid].exe = stack'[i].exe
                      /\ \A j \in 1..Top' : stack'[j].pid = stack'[i].pid => j = i
                      /\ \E s \in Linked : slot[s].pid = stack'[i].pid /\ slot[s].active
    BY <1>1 DEF OwnProcess
  <1>2. CASE i \in 1..Top
    <2>1. /\ stack'[i].pid = stack[i].pid /\ stack'[i].exe = stack[i].exe
          /\ stack[i].kind = "ext" /\ stack[i].running
      BY <1>2 DEF Grown
    <2>2. stack[i].pid \in Pid /\ Good(stack[i].pid)
      BY <1>2, <2>1 DEF IInv, TaskInv, Good
    <2>3. /\ child[stack[i].pid].exe = stack[i].exe
          /\ \A j \in 1..Top : stack[j].pid = stack[i].pid => j = i
          /\ \E s \in Linked : slot[s].pid = stack[i].pid /\ slot[s].active
      BY <1>2, <2>1, <2>2, OwnTask
    <2>4. t.pid # stack[i].pid
      BY <1>2, <2>2, CacheAssumption
    <2>5. ASSUME NEW j \in 1..Top', stack'[j].pid = stack'[i].pid
          PROVE  j = i
      BY <1>1, <2>1, <2>3, <2>4, <2>5 DEF Grown
    <2> QED BY <2>1, <2>3, <2>5
  <1>3. CASE i = Top + 1
    <2>1. stack'[i] = t
      BY <1>3 DEF Grown
    <2>2. /\ child[t.pid].exe = t.exe
          /\ \A j \in 1..Top : stack[j].pid # t.pid
          /\ \E s \in Linked : slot[s].pid = t.pid /\ slot[s].active
      BY <2>1 DEF Good
    <2>3. ASSUME NEW j \in 1..Top', stack'[j].pid = stack'[i].pid
          PROVE  j = i
      BY <1>1, <1>3, <2>1, <2>2, <2>3 DEF Grown
    <2> QED BY <2>1, <2>2, <2>3
  <1> QED BY <1>1, <1>2, <1>3

LEMMA TidiedSame ==
  ASSUME IInv, NEW P, NEW A, Tidied(P, A), NEW p \in Pid
  PROVE  /\ GoodNext(p) => Good(p)
         /\ (Good(p) => p \notin P) => Same(p)
  <1>1. child'[p] \in {child[p], Gone} /\ hist'.hurt = hist.hurt /\ Linked' = Linked
    BY DEF Tidied, Linked
  <1>2. GoodNext(p) => Good(p) /\ child'[p] = child[p]
    BY <1>1, ProcessTypes DEF Good, GoodNext
  <1>3. ASSUME Good(p), p \notin P, NEW s \in Linked, slot[s].pid = p, slot[s].active
        PROVE  slot'[s].pid = p /\ slot'[s].active
    <2>1. s \in Slots /\ child[slot[s].pid].st # "known"
      BY <1>3, SlotNumbers DEF IInv, TypeOK, Good
    <2> QED BY <1>3, <2>1 DEF Tidied
  <1> QED BY <1>1, <1>2, <1>3 DEF Same

\* What a step leaves of an operation: where the two other parts of OwnInv can
\* be disturbed.
LEMMA JobAfter ==
  ASSUME IInv, IInv', [Next]_vars
  PROVE  /\ job'.at = "start" => FindReuse \/ Stat \/ Environment \/ UNCHANGED vars
         /\ job'.size # 0 => \/ \E n \in Sizes : SetCache(n)
                             \/ (DumpNext \/ Close) /\ job.size # 0
                             \/ Environment \/ UNCHANGED vars
  <1>0. /\ job \in Job /\ job' \in Job
        /\ job'.size # 0 => job'.at = "dump" \/ (job'.at = "close" /\ job'.then = "dump")
        /\ job.size # 0 => job.at = "dump" \/ (job.at = "close" /\ job.then = "dump")
    BY DEF IInv, TypeOK, JobInv
  <1>1. CASE FindStale \/ FindNone \/ GetSlot \/ Spawn
    <2>1. /\ job.at \in {"find", "get", "spawn"} /\ job.size = 0
          /\ job'.size = job.size /\ job'.at \in {"close", "get", "spawn", "stat"}
      <3>1. job.at \in {"find", "get", "spawn"}
        BY <1>1 DEF FindStale, FindNone, GetSlot, Spawn
      <3>2. job.size = 0
        BY <1>0, <3>1
      <3>3. CASE FindStale
        BY <1>0, <3>1, <3>2, <3>3 DEF FindStale, Job
      <3>4. CASE FindNone \/ GetSlot \/ Spawn
        BY <1>0, <3>1, <3>2, <3>4 DEF FindNone, GetSlot, Spawn, Job
      <3> QED BY <1>1, <3>1, <3>2, <3>3, <3>4
    <2> QED BY <2>1
  <1>2. CASE Back
    <2>1. \/ job'.at = "unwind" \/ \E k : job' = Restored(k)
          \/ job' = job /\ job.at = "unwind"
      BY <1>2, BackKeeps
    <2> QED BY <1>0, <2>1, RestoredJob DEF IInv
  <1>3. CASE StartFails \/ CloseFails
    <2>1. job' = [NoJob EXCEPT !.at = "raise"]
      BY <1>3 DEF StartFails, CloseFails, SeenDead
    <2> QED BY <2>1 DEF NoJob
  <1>4. CASE Start \/ DumpEnd
    <2>1. job' = NoJob
      BY <1>4 DEF Start, DumpEnd
    <2> QED BY <2>1, JobTypes
  <1>5. CASE StartLocked \/ Resize
    <2>1. job'.at \in {"none", "find"} 
      BY <1>5, JobTypes DEF StartLocked, Again, Resize, NoJob
    <2> QED BY <1>0, <2>1
  <1>6. CASE Close
    BY <1>0, <1>6 DEF Close, Job
  <1>7. CASE DumpNext
    BY <1>0, <1>7, DumpTidies
  <1>8. CASE FlushAll \/ FlushOne
    BY <1>8, FlushCases, FlushKeeps
  <1>9. CASE \E x \in Exe : Run(x) \/ CacheTask(x)
    <2>1. job'.at \in {"none", "find"}
      BY <1>9 DEF Run, CacheTask, NoJob
    <2> QED BY <1>0, <2>1
  <1>10. CASE \E n \in Sizes : SetCache(n)
    BY <1>10, SetCacheKeeps
  <1>11. CASE RunScript \/ DefinePackage \/ RunCl
    BY <1>0, <1>11 DEF RunScript, DefinePackage, RunCl
  <1>12. CASE Interrupt
    BY <1>12, InterruptKeeps
  <1>13. CASE FindReuse \/ Stat
    BY <1>0, <1>13 DEF FindReuse, Stat, Job
  <1> QED BY <1>1, <1>2, <1>3, <1>4, <1>5, <1>6, <1>7, <1>8, <1>9, <1>10, <1>11, <1>12,
             <1>13 DEF Next, Step, Command, Back, Failure

LEMMA EnvironmentSame ==
  ASSUME IInv, Environment
  PROVE  /\ UNCHANGED <<sz, stack>> /\ Linked' = Linked
         /\ job'.at = job.at /\ job'.s = job.s /\ job'.size = job.size
         /\ \A s \in Slots : /\ slot'[s].pid = slot[s].pid
                              /\ slot'[s].active = slot[s].active
         /\ \A p \in Pid : Same(p)
  <1>1. hist'.hurt = hist.hurt /\ Linked \subseteq Slots
    BY SlotNumbers DEF Environment, IInv, TypeOK
  <1>2. ASSUME NEW p \in Pid, ChildDies(p)
        PROVE  /\ UNCHANGED <<sz, slot, stack, job>>
               /\ \A q \in Pid : q # p => child'[q] = child[q]
               /\ child'[p].st = "dead"
    BY <1>2, DeathKeeps
  <1>3. ASSUME NEW x \in Exe, Relink(x)
        PROVE  /\ UNCHANGED <<sz, stack>>
               /\ job'.at = job.at /\ job'.s = job.s /\ job'.size = job.size
               /\ \A s \in Slots : /\ slot'[s].pid = slot[s].pid
                                    /\ slot'[s].active = slot[s].active
               /\ \A p \in Pid : child'[p].st = child[p].st /\ child'[p].exe = child[p].exe
    BY <1>3, RelinkKeeps
  <1>4. CASE \E p \in Pid : ChildDies(p)
    BY <1>1, <1>2, <1>4 DEF Same, Good, GoodNext, Linked
  <1>5. CASE \E x \in Exe : Relink(x)
    <2>1. /\ UNCHANGED <<sz, stack>> /\ Linked' = Linked
          /\ job'.at = job.at /\ job'.s = job.s /\ job'.size = job.size
          /\ \A s \in Slots : slot'[s].pid = slot[s].pid /\ slot'[s].active = slot[s].active
          /\ \A p \in Pid : child'[p].st = child[p].st /\ child'[p].exe = child[p].exe
      BY <1>3, <1>5 DEF Linked
    <2> QED BY <1>1, <2>1 DEF Same, Good, GoodNext
  <1> QED BY <1>4, <1>5 DEF Environment

LEMMA NextOwn ==
  ASSUME ResizeBusy = FALSE, IInv, IInv', OwnInv, [Next]_vars
  PROVE  OwnProcess'
  <1>0. /\ Top \in Nat /\ OwnProcess /\ TypeOK /\ Linked \subseteq Slots
        /\ \A i \in 1..Top : stack[i].pid \in Pid \cup {NoPid}
    <2>1. \A i \in 1..Top : stack[i] \in Task
      BY DEF IInv, TypeOK, Top
    <2>2. \A t \in Task : t.pid \in Pid \cup {NoPid}
      BY DEF Task
    <2>3. OwnProcess /\ TypeOK
      BY DEF IInv, OwnInv
    <2>4. Top \in Nat /\ Linked \subseteq Slots
      BY <2>3, SlotNumbers, CacheAssumption DEF TypeOK
    <2> QED BY <2>1, <2>2, <2>3, <2>4
  <1>1. CASE Back
    <2>1. PICK n \in 1..Top : \E k \in 1..n : Left(n, k) /\ Tidied(Processes(k), {})
      BY <1>1, BackKeeps
    <2>2. PICK k \in 1..n : Left(n, k) /\ Tidied(Processes(k), {})
      BY <2>1
    <2>3. Kept /\ Len(stack') = n
      BY <1>0, <2>2, StackKept DEF Left
    <2>4. ASSUME NEW i \in 1..n, stack[i].pid \in Pid, stack'[i].running
          PROVE  Same(stack[i].pid)
      <3>1. ASSUME Good(stack[i].pid), stack[i].pid \in Processes(k)
            PROVE  FALSE
        <4>1. PICK j \in (k+1)..Top : stack[j].pid = stack[i].pid
          BY <3>1 DEF Processes
        <4>2. i <= k /\ stack[i].running
          BY <2>2, <2>4 DEF Left
        <4>3. i \in 1..Top /\ j \in 1..Top /\ i # j
          BY <1>0, <4>2
        <4> QED BY <1>0, <2>4, <3>1, <4>1, <4>2, <4>3, OwnTask
      <3> QED BY <2>2, <2>4, <3>1, TidiedSame
    <2> QED BY <1>0, <2>3, <2>4, OwnKept
  <1>2. CASE FindReuse \/ FindStale \/ FindNone \/ GetSlot \/ Close \/ DumpNext \/ DumpEnd
             \/ (\E n \in Sizes : SetCache(n)) \/ (\E x \in Exe : Run(x) \/ CacheTask(x))
             \/ FlushAll \/ FlushOne \/ DefinePackage
    <2>1. \E A : Tidied({}, A)
      BY <1>2, ReuseTidies, FindTidies, QuietKeeps, CloseTidies, DumpTidies, SetCacheKeeps,
         CacheTaskTidies, FlushCases, FlushKeeps
    <2>2. Kept
      <3>1. CASE DefinePackage
        BY <1>0, <3>1, PackageKeeps, StackKept
      <3>2. CASE ~DefinePackage
        <4>1. stack' = stack \/ stack' = Called
          BY <1>2, <3>2, FlushCases DEF FindReuse, FindStale, FindNone, GetSlot, Close,
             DumpNext, DumpEnd, SetCache, Run, CacheTask, Flush
        <4> QED BY <1>0, <4>1, StackSame
      <3> QED BY <3>1, <3>2
    <2>3. \A p \in Pid : Same(p)
      BY <2>1, TidiedSame
    <2> QED BY <1>0, <2>2, <2>3, OwnKept
  <1>3. CASE Start
    <2>1. PICK t \in Task : /\ Grown(t) /\ t.kind = "ext" /\ t.pid = slot[job.s].pid
                            /\ t.exe = job.exe
      BY <1>3, StartGrows
    <2>2. UNCHANGED <<sz, slot, child>> /\ hist'.hurt = hist.hurt /\ job.at = "start"
      BY <1>3 DEF Start
    <2>3. /\ job.s \in Linked /\ t.pid \in Pid /\ slot[job.s].active
          /\ slot[job.s].exe = t.exe
      BY <2>1, <2>2 DEF IInv, JobInv
    <2>4. Good(t.pid) => \A i \in 1..Top : stack[i].pid # t.pid
      BY <2>1, <2>2 DEF OwnInv
    <2>5. Good(t.pid) => child[t.pid].exe = t.exe
      BY <1>0, <2>1, <2>2, <2>3 DEF IInv, SlotInv, Filling, Good
    <2> QED BY <1>0, <2>1, <2>2, <2>3, <2>4, <2>5, OwnGrown
  <1>4. CASE RunScript \/ RunCl
    <2>1. PICK t \in Task : Grown(t) /\ t.kind # "ext" /\ t.pid = NoPid
      BY <1>4, ScriptGrows
    <2>2. UNCHANGED <<sz, slot, child, hist>>
      BY <1>4 DEF RunScript, RunCl
    <2> QED BY <1>0, <2>1, <2>2, OwnGrown
  <1>5. CASE StartLocked
    <2>1. stack' = stack /\ job.at = "start" /\ Tidied({slot[job.s].pid}, {})
      BY <1>5, LockTidies DEF StartLocked
    <2>2. Kept /\ Len(stack') = Top
      BY <1>0, <2>1, StackSame DEF Top
    <2>3. ASSUME NEW i \in 1..Top, stack[i].pid \in Pid
          PROVE  Same(stack[i].pid)
      <3>1. Good(stack[i].pid) => stack[i].pid \notin {slot[job.s].pid}
        BY <2>1 DEF OwnInv
      <3> QED BY <2>1, <2>3, <3>1, TidiedSame
    <2> QED BY <1>0, <2>2, <2>3, OwnKept
  <1>6. CASE Spawn
    <2>1. PICK p \in Unused :
              /\ \A t \in Slots \ {job.s} : slot'[t] = slot[t]
              /\ \A q \in Pid \ {p} : child'[q] = child[q]
              /\ SameTasks
              /\ hist'.hurt = hist.hurt \ {p}
      BY <1>6, SpawnSlots
    <2>2. slot[job.s].pid = NoPid /\ Linked' = Linked
      BY <1>6 DEF Spawn, IInv, JobInv, Linked
    <2>3. Kept /\ Len(stack') = Top
      BY <1>0, <2>1, StackKept DEF SameTasks
    <2>4. ASSUME NEW i \in 1..Top, stack[i].pid \in Pid
          PROVE  Same(stack[i].pid)
      <3>1. stack[i].pid # p
        BY DEF Unused
      <3>2. \A s \in Linked : slot[s].pid = stack[i].pid => slot'[s] = slot[s]
        BY <1>0, <2>1, <2>2, <2>4, CacheAssumption
      <3> QED BY <2>1, <2>2, <2>4, <3>1, <3>2 DEF Same, Good, GoodNext
    <2> QED BY <1>0, <2>1, <2>3, <2>4, OwnKept
  <1>7. CASE Stat
    <2>1. /\ UNCHANGED <<sz, stack, child>> /\ Linked' = Linked /\ ~slot[job.s].active
      BY <1>7 DEF Stat, Linked, IInv, JobInv
    <2>2. (\A s \in Slots \ {job.s} : slot'[s] = slot[s]) /\ hist'.hurt = hist.hurt
      BY <1>7, StatSlots
    <2>3. \A p \in Pid : Same(p)
      BY <1>0, <2>1, <2>2 DEF Same, Good, GoodNext
    <2> QED BY <1>0, <2>1, <2>3, StackSame, OwnKept
  <1>8. CASE Resize
    <2>1. UNCHANGED <<stack, child>> /\ hist'.hurt = hist.hurt /\ job.size # 0
      BY <1>8 DEF Resize, IInv, TypeOK
    <2>2. \A s \in Linked : ~slot[s].active
      BY <2>1 DEF OwnInv
    <2>3. \A p \in Pid : Same(p)
      BY <2>1, <2>2 DEF Same, Good, GoodNext
    <2> QED BY <1>0, <2>1, <2>3, StackSame, OwnKept
  <1>9. CASE StartFails \/ CloseFails
    <2>1. job.at \in {"start", "close"} /\ SeenDead
      BY <1>9 DEF StartFails, CloseFails
    <2>2. /\ UNCHANGED <<sz, slot, stack, hist>> /\ Linked' = Linked
          /\ child'[slot[job.s].pid].st = "known"
          /\ \A p \in Pid : p # slot[job.s].pid => child'[p] = child[p]
      BY <2>1, SeenDeadKeeps DEF Linked
    <2>3. \A p \in Pid : Same(p)
      BY <2>2 DEF Same, Good, GoodNext
    <2> QED BY <1>0, <2>2, <2>3, StackSame, OwnKept
  <1>10. CASE Interrupt
    <2>1. /\ UNCHANGED <<sz, slot, stack>> /\ Linked' = Linked
          /\ hist.hurt \subseteq hist'.hurt
          /\ \A p \in Pid : child'[p] = child[p] \/ child'[p].st = "closing"
      BY <1>10, InterruptKeeps DEF Linked
    <2>2. \A p \in Pid : Same(p)
      BY <2>1 DEF Same, Good, GoodNext
    <2> QED BY <1>0, <2>1, <2>2, StackSame, OwnKept
  <1>11. CASE Environment
    <2>1. UNCHANGED <<sz, stack>> /\ Linked' = Linked /\ \A p \in Pid : Same(p)
      BY <1>11, EnvironmentSame
    <2> QED BY <1>0, <2>1, StackSame, OwnKept
  <1>12. CASE UNCHANGED vars
    BY <1>0, <1>12 DEF vars, OwnProcess, Linked, Top
  <1> QED BY <1>1, <1>2, <1>3, <1>4, <1>5, <1>6, <1>7, <1>8, <1>9, <1>10, <1>11, <1>12
      DEF Next, Step, Command, Back, Failure

LEMMA NextOwnInv ==
  ASSUME ResizeBusy = FALSE, IInv, IInv', OwnInv, [Next]_vars
  PROVE  OwnInv'
  <1>0. /\ OwnProcess' /\ OwnProcess /\ TypeOK /\ Linked \subseteq Slots
        /\ FinishedInv /\ FinishedInv'
    <2>1. OwnProcess /\ FinishedInv /\ TypeOK
      BY DEF OwnInv, IInv
    <2> QED BY <2>1, NextOwn, NextFinished, SlotNumbers DEF TypeOK
  <1>1. ASSUME job'.at = "start", GoodNext(slot'[job'.s].pid)
        PROVE  \A i \in 1..Top' : stack'[i].pid # slot'[job'.s].pid
    <2>1. CASE FindReuse
      <3>1. /\ stack' = stack /\ Top' = Top /\ job'.s = Found
        BY <2>1 DEF FindReuse, Top, IInv, TypeOK, Job
      <3>2. /\ Tidied({}, {Found}) /\ Found \in Linked /\ slot'[Found].pid = slot[Found].pid
            /\ ~slot[Found].active /\ slot[Found].pid \in Pid
        <4>1. slot'[Found].pid \in Pid /\ slot'[Found].pid = slot[Found].pid
          BY <2>1, ReuseTidies
        <4> QED BY <2>1, <4>1, ReuseTidies
      <3>3. Good(slot[Found].pid)
        BY <1>1, <3>1, <3>2, TidiedSame
      <3>4. ASSUME NEW i \in 1..Top, stack[i].pid = slot[Found].pid
            PROVE  FALSE
        <4>1. CASE stack[i].running
          <5>1. PICK s \in Linked : slot[s].pid = stack[i].pid /\ slot[s].active
            BY <1>0, <3>2, <3>3, <3>4, <4>1, OwnTask
          <5>2. s = Found
            BY <1>0, <3>2, <3>4, <5>1, CacheAssumption DEF IInv, SlotInv
          <5> QED BY <3>2, <5>1, <5>2
        <4>2. CASE ~stack[i].running
          <5>1. stack[i].kind = "ext" /\ job.at = "find" /\ stack[i].pid \notin hist.hurt
            BY <2>1, <3>2, <3>3, <3>4 DEF IInv, TaskInv, FindReuse, Good
          <5> QED BY <1>0, <4>2, <5>1 DEF FinishedInv
        <4> QED BY <4>1, <4>2
      <3> QED BY <3>1, <3>2, <3>4
    <2>2. CASE Stat
      <3>1. /\ stack' = stack /\ Top' = Top /\ job'.s = job.s
            /\ \A i \in 1..Top : stack[i].pid # slot[job.s].pid
        BY <2>2 DEF Stat, Top, IInv, JobInv, TypeOK, Job
      <3> QED BY <2>2, <3>1, StatSlots
    <2>3. CASE Environment
      <3>1. /\ UNCHANGED <<sz, stack>> /\ Top' = Top /\ job'.at = job.at /\ job'.s = job.s
            /\ slot'[job.s].pid = slot[job.s].pid /\ \A p \in Pid : Same(p)
        BY <2>3, EnvironmentSame DEF Top, IInv, TypeOK, Job
      <3>2. slot[job.s].pid \in Pid
        BY <1>1, <3>1 DEF IInv, JobInv
      <3>3. Good(slot[job.s].pid)
        BY <1>1, <3>1, <3>2 DEF Same
      <3> QED BY <1>1, <3>1, <3>3 DEF OwnInv
    <2>4. CASE UNCHANGED vars
      BY <1>1, <2>4 DEF vars, OwnInv, Good, GoodNext, Top
    <2> QED BY <1>1, <2>1, <2>2, <2>3, <2>4, JobAfter
  <1>2. ASSUME job'.size # 0
        PROVE  \A s \in Linked' : ~slot'[s].active
    <2>1. ASSUME NEW n \in Sizes, SetCache(n)
          PROVE  \A s \in Linked' : ~slot'[s].active
      <3>1. (\A s \in Linked : ~Checked[s].active) /\ slot' = Checked /\ Linked' = Linked
        BY <2>1 DEF SetCache, Linked
      <3> QED BY <3>1
    <2>2. CASE (DumpNext \/ Close) /\ job.size # 0
      <3>1. Tidied({}, {}) /\ Linked' = Linked /\ \A s \in Linked : ~slot[s].active
        BY <2>2, DumpTidies, CloseTidies DEF Tidied, OwnInv, Linked
      <3> QED BY <1>0, <3>1 DEF Tidied
    <2>3. CASE Environment
      <3>1. /\ Linked' = Linked /\ job'.size = job.size
            /\ \A s \in Slots : slot'[s].active = slot[s].active
        BY <2>3, EnvironmentSame DEF Linked
      <3> QED BY <1>0, <1>2, <3>1 DEF OwnInv
    <2>4. CASE UNCHANGED vars
      BY <1>2, <2>4 DEF vars, OwnInv, Linked
    <2> QED BY <1>2, <2>1, <2>2, <2>3, <2>4, JobAfter
  <1> QED BY <1>0, <1>1, <1>2 DEF OwnInv, Good, GoodNext

LEMMA InitOwn == Init => OwnInv
  <1> SUFFICES ASSUME Init
               PROVE  OwnInv
    OBVIOUS
  <1>1. Top = 1 /\ stack[1].kind = "cl"
    BY DEF Init, Top, NewTask
  <1> QED BY <1>1, JobTypes DEF OwnInv, OwnProcess, FinishedInv, Init

\* A task that runs in a process that is alive has it for itself, in the cache and
\* marked in use, and it runs the program the task is in, unless an interrupt came
\* while the process was being connected or disconnected or its task killed -
\* provided the size of the cache is set only while no task runs in a process;
\* pr_setcache does not see to that (pr_findproc, pr_setcache, killtask).
THEOREM TasksOwnProcesses == ASSUME ResizeBusy = FALSE
                             PROVE  Spec => []OwnProcess
  <1>1. Init => OwnInv
    BY InitOwn
  <1>2. IInv /\ IInv' /\ OwnInv /\ [Next]_vars => OwnInv'
    BY NextOwnInv
  <1>3. OwnInv => OwnProcess
    BY DEF OwnInv
  <1> QED BY <1>1, <1>2, <1>3, InitInv, NextInv, PTL DEF Spec

-----------------------------------------------------------------------------
(* The cache implements ProcPool.                                          *)

Dying == {p \in InUse(TRUE) \cup InUse(FALSE) : child[p].st \in {"dead", "known"}}

LEMMA PoolConnect ==
  ASSUME NEW p \in Pid, p \notin InUse(TRUE) \cup InUse(FALSE),
         InUse(TRUE)' = InUse(TRUE), InUse(FALSE)' = InUse(FALSE) \cup {p},
         Dying' = Dying
  PROVE  Pool!Next
  <1>1. Pool!Connect(p, {})
    BY DEF Pool!Connect, Pool!Reaped, Dying
  <1> QED BY <1>1 DEF Pool!Next

LEMMA PoolStart ==
  ASSUME NEW D \in SUBSET Dying, NEW p \in Pid, p \in InUse(FALSE) \ D,
         InUse(TRUE)' = (InUse(TRUE) \cup {p}) \ D,
         InUse(FALSE)' = (InUse(FALSE) \ {p}) \ D, Dying' = Dying \ D
  PROVE  Pool!Next
  <1>1. Pool!Start(p, D)
    BY DEF Pool!Start, Pool!Reaped, Dying
  <1> QED BY <1>1 DEF Pool!Next, Dying

LEMMA PoolGiveBack ==
  ASSUME NEW D \in SUBSET Dying, NEW P \in SUBSET InUse(TRUE),
         InUse(TRUE)' = (InUse(TRUE) \ P) \ D,
         InUse(FALSE)' = (InUse(FALSE) \cup P) \ D, Dying' = Dying \ D
  PROVE  Pool!Next
  <1>1. Pool!GiveBack(P, D)
    BY DEF Pool!GiveBack, Pool!Reaped, Dying
  <1> QED BY <1>1 DEF Pool!Next, Dying

LEMMA PoolDisconnect ==
  ASSUME NEW D \in SUBSET Dying, NEW P \in SUBSET InUse(FALSE),
         InUse(TRUE)' = InUse(TRUE) \ D, InUse(FALSE)' = InUse(FALSE) \ (P \cup D),
         Dying' = Dying \ (P \cup D)
  PROVE  Pool!Next
  <1>1. Pool!Disconnect(P, D)
    BY DEF Pool!Disconnect, Pool!Reaped, Dying
  <1> QED BY <1>1 DEF Pool!Next, Dying

LEMMA PoolCrash ==
  ASSUME NEW p \in Pid, p \in InUse(TRUE) \cup InUse(FALSE), Dying' = Dying \cup {p},
         InUse(TRUE)' = InUse(TRUE), InUse(FALSE)' = InUse(FALSE)
  PROVE  Pool!Next
  <1>1. Pool!Crash(p)
    BY DEF Pool!Crash, Dying
  <1> QED BY <1>1 DEF Pool!Next

LEMMA PoolStutter ==
  ASSUME InUse(TRUE)' = InUse(TRUE), InUse(FALSE)' = InUse(FALSE), Dying' = Dying
  PROVE  UNCHANGED Pool!pool
  BY DEF Pool!pool, Dying

\* Who is in the pool, by slot.
In(p, b) == p \notin hist.hurt /\ \E s \in Slots : slot[s].pid = p /\ slot[s].active = b
InNext(p, b) ==
    p \notin hist'.hurt /\ \E s \in Slots : slot'[s].pid = p /\ slot'[s].active = b

LEMMA PoolMembers ==
  ASSUME IInv, NEW b \in BOOLEAN
  PROVE  InUse(b) = {p \in Pid : In(p, b)}
  <1>1. \A s \in Slots : slot[s].pid \in Pid \cup {NoPid}
    BY DEF IInv, TypeOK, Process
  <1>2. Linked \subseteq Slots /\ \A s \in Slots : slot[s].pid \in Pid => s \in Linked
    BY SlotNumbers, CacheAssumption DEF IInv, TypeOK, SlotInv
  <1>3. ASSUME NEW p
        PROVE  p \in InUse(b) <=> p \in Pid /\ In(p, b)
    BY <1>1, <1>2, CacheAssumption DEF InUse, In
  <1> QED BY <1>3

LEMMA PoolMembersNext ==
  ASSUME IInv', NEW b \in BOOLEAN
  PROVE  InUse(b)' = {p \in Pid : InNext(p, b)}
  <1>1. \A s \in Slots : slot'[s].pid \in Pid \cup {NoPid}
    BY DEF IInv, TypeOK, Process
  <1>2. Linked' \subseteq Slots /\ \A s \in Slots : slot'[s].pid \in Pid => s \in Linked'
    <2>1. sz' \in Sizes
      BY DEF IInv, TypeOK
    <2> QED BY <2>1, CacheAssumption DEF IInv, SlotInv, Linked, Slots
  <1>3. ASSUME NEW p
        PROVE  p \in InUse(b)' <=> p \in Pid /\ InNext(p, b)
    BY <1>1, <1>2, CacheAssumption DEF InUse, InNext
  <1> QED BY <1>3

\* A step that leaves the marks of all slots, who is hurt and who has died.
LEMMA PoolSame ==
  ASSUME IInv, IInv', hist'.hurt = hist.hurt,
         \A s \in Slots : slot'[s].pid = slot[s].pid /\ slot'[s].active = slot[s].active,
         \A p \in Pid : child'[p].st \in {"dead", "known"} <=> child[p].st \in {"dead", "known"}
  PROVE  UNCHANGED Pool!pool
  <1>1. \A p, b : InNext(p, b) <=> In(p, b)
    BY DEF In, InNext
  <1>2. InUse(TRUE)' = InUse(TRUE) /\ InUse(FALSE)' = InUse(FALSE)
    BY <1>1, PoolMembers, PoolMembersNext
  <1>3. InUse(TRUE) \cup InUse(FALSE) \subseteq Pid
    BY PoolMembers
  <1>4. Dying' = Dying
    BY <1>2, <1>3 DEF Dying
  <1> QED BY <1>2, <1>4, PoolStutter

Stays(p) == \E s \in Slots : slot'[s].pid = p
Starts(p, A) == \E s \in Slots : s \in A /\ slot[s].pid = p

\* What a step that tidies does to one process.
LEMMA TidiedIn ==
  ASSUME IInv, IInv', NEW P, NEW A, Tidied(P, A), NEW p \in Pid
  PROVE  /\ InNext(p, TRUE) <=> /\ Stays(p)
                                /\ \/ In(p, TRUE) /\ p \notin P
                                   \/ (In(p, TRUE) \/ In(p, FALSE)) /\ Starts(p, A)
         /\ InNext(p, FALSE) <=> /\ Stays(p)
                                 /\ In(p, FALSE) \/ (In(p, TRUE) /\ p \in P)
                                 /\ ~Starts(p, A)
         /\ Stays(p) => child'[p] = child[p]
         /\ In(p, TRUE) /\ ~Stays(p) => child[p].st = "known"
         /\ ~(In(p, TRUE) /\ In(p, FALSE))
  <1>0. hist'.hurt = hist.hurt /\ p # NoPid
        /\ \A s \in Slots : slot[s].active \in BOOLEAN
    BY CacheAssumption DEF Tidied, IInv, TypeOK, Process
  <1>1. ASSUME NEW s \in Slots, slot'[s].pid = p
        PROVE  /\ slot[s].pid = p /\ child'[p] = child[p]
               /\ slot'[s].active <=> s \in A \/ (slot[s].active /\ p \notin P)
    BY <1>0, <1>1 DEF Tidied
  <1>2. ASSUME NEW s \in Slots, NEW t \in Slots, slot[s].pid = p, slot[t].pid = p
        PROVE  s = t
    BY <1>0, <1>2 DEF IInv, SlotInv
  <1>3. ASSUME NEW s \in Slots, slot[s].pid = p, ~Stays(p), slot[s].active
        PROVE  child[p].st = "known"
    BY <1>3 DEF Tidied, Stays
  <1>4. \A s \in Slots : slot'[s].active \in BOOLEAN
    BY DEF IInv, TypeOK, Process
  <1>5. CASE Stays(p)
    <2>1. PICK s \in Slots : slot'[s].pid = p
      BY <1>5 DEF Stays
    <2>2. /\ slot[s].pid = p /\ child'[p] = child[p] /\ slot[s].active \in BOOLEAN
          /\ slot'[s].active <=> s \in A \/ (slot[s].active /\ p \notin P)
          /\ slot'[s].active \in BOOLEAN
      BY <1>0, <1>1, <1>4, <2>1
    <2>3. \A t \in Slots : (slot[t].pid = p <=> t = s) /\ (slot'[t].pid = p <=> t = s)
      BY <1>1, <1>2, <2>1, <2>2
    <2>4. Starts(p, A) <=> s \in A
      BY <2>2, <2>3 DEF Starts
    <2>5. /\ In(p, TRUE) <=> p \notin hist.hurt /\ slot[s].active
          /\ In(p, FALSE) <=> p \notin hist.hurt /\ ~slot[s].active
      BY <2>2, <2>3 DEF In
    <2>6. /\ InNext(p, TRUE) <=> p \notin hist.hurt /\ slot'[s].active
          /\ InNext(p, FALSE) <=> p \notin hist.hurt /\ ~slot'[s].active
      BY <1>0, <2>2, <2>3 DEF InNext
    <2>7. /\ InNext(p, TRUE) <=> /\ Stays(p)
                                 /\ \/ In(p, TRUE) /\ p \notin P
                                    \/ (In(p, TRUE) \/ In(p, FALSE)) /\ Starts(p, A)
          /\ InNext(p, FALSE) <=> /\ Stays(p)
                                  /\ In(p, FALSE) \/ (In(p, TRUE) /\ p \in P)
                                  /\ ~Starts(p, A)
      BY <1>5, <2>2, <2>4, <2>5, <2>6
    <2> QED BY <1>5, <2>2, <2>5, <2>7
  <1>6. CASE ~Stays(p)
    <2>1. ~InNext(p, TRUE) /\ ~InNext(p, FALSE)
      BY <1>6 DEF InNext, Stays
    <2>2. ~(In(p, TRUE) /\ In(p, FALSE))
      BY <1>2 DEF In
    <2>3. In(p, TRUE) => child[p].st = "known"
      BY <1>3, <1>6 DEF In
    <2> QED BY <1>6, <2>1, <2>2, <2>3
  <1> QED BY <1>5, <1>6

LEMMA NobodyStarts == \A p : ~Starts(p, {})
  BY DEF Starts

\* Nothing is given back or started: what goes is idle, or has died.
LEMMA TidiedPool ==
  ASSUME IInv, IInv', Tidied({}, {})
  PROVE  Pool!Next
  <1> DEFINE D == {p \in InUse(TRUE) : ~Stays(p)}
             Q == {p \in InUse(FALSE) : ~Stays(p)}
  <1>1. /\ InUse(TRUE) = {p \in Pid : In(p, TRUE)}
        /\ InUse(FALSE) = {p \in Pid : In(p, FALSE)}
        /\ InUse(TRUE)' = {p \in Pid : InNext(p, TRUE)}
        /\ InUse(FALSE)' = {p \in Pid : InNext(p, FALSE)}
    BY PoolMembers, PoolMembersNext
  <1>2. ASSUME NEW p \in Pid
        PROVE  /\ InNext(p, TRUE) <=> Stays(p) /\ In(p, TRUE)
               /\ InNext(p, FALSE) <=> Stays(p) /\ In(p, FALSE)
               /\ Stays(p) => child'[p] = child[p]
               /\ In(p, TRUE) /\ ~Stays(p) => child[p].st = "known"
               /\ ~(In(p, TRUE) /\ In(p, FALSE))
    BY NobodyStarts, TidiedIn
  <1>3. D \in SUBSET Dying /\ Q \in SUBSET InUse(FALSE)
    BY <1>1, <1>2 DEF Dying
  <1>4. InUse(TRUE)' = InUse(TRUE) \ D /\ InUse(FALSE)' = InUse(FALSE) \ (Q \cup D)
    BY <1>1, <1>2
  <1>5. Dying' = Dying \ (Q \cup D)
    <2>1. ASSUME NEW p \in Pid
          PROVE  p \in Dying' <=> p \in Dying \ (Q \cup D)
      BY <1>1, <1>2, <1>4 DEF Dying
    <2>2. Dying' \subseteq Pid /\ Dying \subseteq Pid
      BY <1>1 DEF Dying
    <2> QED BY <2>1, <2>2
  <1> HIDE DEF D, Q
  <1> QED BY <1>3, <1>4, <1>5, PoolDisconnect

\* pr_checkup empties the slots of dead processes only.
OnlyDeadGo == \A s \in Slots : slot[s].pid \in Pid /\ slot'[s].pid = NoPid
                => child[slot[s].pid].st = "known"

LEMMA CheckUpOnly ==
  ASSUME IInv, \A s \in Slots : slot'[s].pid \in {slot[s].pid, Checked[s].pid}
  PROVE  OnlyDeadGo
  <1> SUFFICES ASSUME NEW s \in Slots, slot[s].pid \in Pid, slot'[s].pid = NoPid
               PROVE  child[slot[s].pid].st = "known"
    BY DEF OnlyDeadGo
  <1>1. Checked[s].pid = NoPid /\ slot[s].pid # NoPid
    BY CacheAssumption
  <1> QED BY <1>1, CheckedSlots DEF IInv

LEMMA DisconnectedPid ==
  ASSUME IInv, NEW P, NEW s \in Slots
  PROVE  Disconnected(P)[s].pid = Checked[s].pid
  <1>1. Checked[s] \in Process
    BY CheckedTypes DEF IInv
  <1>2. [Checked[s] EXCEPT !.active = FALSE].pid = Checked[s].pid
    BY <1>1 DEF Process
  <1> QED BY <1>2 DEF Disconnected

\* Processes are given back.
LEMMA GivenBack ==
  ASSUME IInv, IInv', NEW P, Tidied(P, {}), OnlyDeadGo
  PROVE  Pool!Next
  <1> DEFINE D == {p \in InUse(TRUE) \cup InUse(FALSE) : ~Stays(p)}
             G == InUse(TRUE) \cap P
  <1>1. /\ InUse(TRUE) = {p \in Pid : In(p, TRUE)}
        /\ InUse(FALSE) = {p \in Pid : In(p, FALSE)}
        /\ InUse(TRUE)' = {p \in Pid : InNext(p, TRUE)}
        /\ InUse(FALSE)' = {p \in Pid : InNext(p, FALSE)}
    BY PoolMembers, PoolMembersNext
  <1>2. ASSUME NEW p \in Pid
        PROVE  /\ InNext(p, TRUE) <=> Stays(p) /\ In(p, TRUE) /\ p \notin P
               /\ InNext(p, FALSE) <=> Stays(p) /\ (In(p, FALSE) \/ (In(p, TRUE) /\ p \in P))
               /\ Stays(p) => child'[p] = child[p]
               /\ ~(In(p, TRUE) /\ In(p, FALSE))
    BY NobodyStarts, TidiedIn
  <1>3. ASSUME NEW p \in Pid, In(p, TRUE) \/ In(p, FALSE), ~Stays(p)
        PROVE  child[p].st = "known"
    <2>1. PICK s \in Slots : slot[s].pid = p
      BY <1>3 DEF In
    <2>2. slot'[s].pid = NoPid
      BY <1>3, <2>1 DEF Tidied, Stays
    <2> QED BY <2>1, <2>2 DEF OnlyDeadGo
  <1>4. D \in SUBSET Dying /\ G \in SUBSET InUse(TRUE)
    BY <1>1, <1>3 DEF Dying
  <1>5. /\ InUse(TRUE)' = (InUse(TRUE) \ G) \ D
        /\ InUse(FALSE)' = (InUse(FALSE) \cup G) \ D
    BY <1>1, <1>2
  <1>6. Dying' = Dying \ D
    <2>1. ASSUME NEW p \in Pid
          PROVE  p \in Dying' <=> p \in Dying \ D
      BY <1>1, <1>2, <1>5 DEF Dying
    <2>2. Dying' \subseteq Pid /\ Dying \subseteq Pid
      BY <1>1 DEF Dying
    <2> QED BY <2>1, <2>2
  <1> HIDE DEF D, G
  <1> QED BY <1>4, <1>5, <1>6, PoolGiveBack

\* An idle process is taken into use.
LEMMA Reused ==
  ASSUME IInv, IInv', FindReuse
  PROVE  Pool!Next
  <1> DEFINE D == {p \in InUse(TRUE) \cup InUse(FALSE) : ~Stays(p)}
             q == slot[Found].pid
  <1>1. /\ InUse(TRUE) = {p \in Pid : In(p, TRUE)}
        /\ InUse(FALSE) = {p \in Pid : In(p, FALSE)}
        /\ InUse(TRUE)' = {p \in Pid : InNext(p, TRUE)}
        /\ InUse(FALSE)' = {p \in Pid : InNext(p, FALSE)}
    BY PoolMembers, PoolMembersNext
  <1>2. /\ Tidied({}, {Found}) /\ Found \in Slots /\ q \in Pid /\ Stays(q)
        /\ ~slot[Found].active /\ slot[Found].active \in BOOLEAN
    <2>1. /\ Tidied({}, {Found}) /\ Found \in Linked /\ slot'[Found].pid \in Pid
          /\ slot'[Found].pid = slot[Found].pid /\ ~slot[Found].active
      BY ReuseTidies
    <2>2. Found \in Slots
      BY <2>1, SlotNumbers DEF IInv, TypeOK
    <2> QED BY <2>1, <2>2 DEF IInv, TypeOK, Process, Stays
  <1>3. OnlyDeadGo
    <2>1. Checked \in [Slots -> Process]
      BY CheckedTypes DEF IInv
    <2>2. \A s \in Slots : slot'[s].pid = Checked[s].pid
      BY <1>2, <2>1 DEF FindReuse, Process
    <2> QED BY <2>2, CheckUpOnly
  <1>4. ASSUME NEW p \in Pid
        PROVE  /\ InNext(p, TRUE) <=>
                     Stays(p) /\ (In(p, TRUE) \/ (In(p, FALSE) /\ p = q))
               /\ InNext(p, FALSE) <=> Stays(p) /\ In(p, FALSE) /\ p # q
               /\ Stays(p) => child'[p] = child[p]
    <2>1. Starts(p, {Found}) <=> p = q
      BY <1>2 DEF Starts
    <2>2. /\ InNext(p, TRUE) <=> /\ Stays(p)
                                 /\ In(p, TRUE) \/ ((In(p, TRUE) \/ In(p, FALSE)) /\ p = q)
          /\ InNext(p, FALSE) <=> Stays(p) /\ In(p, FALSE) /\ p # q
          /\ Stays(p) => child'[p] = child[p]
      <3>1. PICK P, A : P = {} /\ A = {Found} /\ Tidied(P, A)
        BY <1>2
      <3>2. (Starts(p, A) <=> p = q) /\ p \notin P
        BY <2>1, <3>1
      <3>3. /\ InNext(p, TRUE) <=> /\ Stays(p)
                                   /\ \/ In(p, TRUE) /\ p \notin P
                                      \/ (In(p, TRUE) \/ In(p, FALSE)) /\ Starts(p, A)
            /\ InNext(p, FALSE) <=> /\ Stays(p)
                                    /\ In(p, FALSE) \/ (In(p, TRUE) /\ p \in P)
                                    /\ ~Starts(p, A)
            /\ Stays(p) => child'[p] = child[p]
        <4>1. Tidied(P, A)
          BY <3>1
        <4> QED BY <4>1, TidiedIn
      <3> HIDE DEF q
      <3> QED BY <3>2, <3>3
    <2> HIDE DEF q
    <2> QED BY <2>2
  <1>5. ASSUME NEW p \in Pid, In(p, TRUE) \/ In(p, FALSE), ~Stays(p)
        PROVE  child[p].st = "known"
    <2>1. PICK s \in Slots : slot[s].pid = p
      BY <1>5 DEF In
    <2>2. slot'[s].pid = NoPid
      BY <1>2, <1>5, <2>1 DEF Tidied, Stays
    <2> QED BY <1>3, <2>1, <2>2 DEF OnlyDeadGo
  <1>6. In(q, FALSE) <=> q \notin hist.hurt
    BY <1>2 DEF In
  <1>7. q \in hist.hurt => ~In(q, TRUE)
    BY DEF In
  <1> HIDE DEF q
  <1>8. D \in SUBSET Dying /\ q \notin D
    BY <1>1, <1>2, <1>5 DEF Dying
  <1>9. /\ InUse(TRUE)' \cup InUse(FALSE)' = (InUse(TRUE) \cup InUse(FALSE)) \ D
        /\ \A p \in InUse(TRUE)' \cup InUse(FALSE)' : child'[p] = child[p]
    BY <1>1, <1>4
  <1>10. Dying' = Dying \ D
    BY <1>9 DEF Dying
  <1>11. CASE q \notin hist.hurt
    <2>1. q \in InUse(FALSE)
      BY <1>1, <1>2, <1>6, <1>11
    <2>2. /\ InUse(TRUE)' = (InUse(TRUE) \cup {q}) \ D
          /\ InUse(FALSE)' = (InUse(FALSE) \ {q}) \ D
      BY <1>1, <1>2, <1>4, <2>1
    <2> HIDE DEF D
    <2> QED BY <1>2, <1>8, <1>10, <2>1, <2>2, PoolStart
  <1>12. CASE q \in hist.hurt
    <2>1. /\ InUse(TRUE)' = (InUse(TRUE) \ {}) \ D
          /\ InUse(FALSE)' = (InUse(FALSE) \cup {}) \ D
      BY <1>1, <1>4, <1>6, <1>7, <1>12
    <2>2. {} \in SUBSET InUse(TRUE) /\ D \in SUBSET Dying
      BY <1>8
    <2> HIDE DEF D
    <2> QED BY <1>10, <2>1, <2>2, PoolGiveBack
  <1> QED BY <1>11, <1>12

LEMMA SpawnedPool ==
  ASSUME IInv, IInv', Spawn
  PROVE  Pool!Next
  <1>1. PICK p \in Unused :
          /\ slot'[job.s] = [slot[job.s] EXCEPT !.pid = p]
          /\ \A t \in Slots \ {job.s} : slot'[t] = slot[t]
          /\ child'[p] = [st |-> "up", exe |-> job.exe, new |-> TRUE]
          /\ \A q \in Pid \ {p} : child'[q] = child[q]
          /\ hist'.hurt = hist.hurt \ {p}
    BY SpawnSlots
  <1>2. /\ p \in Pid /\ \A t \in Slots : slot[t].pid # p
        /\ job.s \in Slots /\ slot[job.s].pid = NoPid /\ ~slot[job.s].active
        /\ slot[job.s] \in Process /\ \A t \in Slots : slot[t].active \in BOOLEAN
    BY DEF Unused, Spawn, IInv, JobInv, SlotInv, TypeOK, Job, Process
  <1>3. slot'[job.s].pid = p /\ slot'[job.s].active = FALSE
    BY <1>1, <1>2 DEF Process
  <1>4. ~In(p, TRUE) /\ ~In(p, FALSE)
    BY <1>2 DEF In
  <1>5. ~InNext(p, TRUE) /\ InNext(p, FALSE)
    BY <1>1, <1>2, <1>3, ZenonT(60) DEF InNext
  <1>6. ASSUME NEW q \in Pid \ {p}, NEW b \in BOOLEAN
        PROVE  InNext(q, b) <=> In(q, b)
    <2>1. \A s \in Slots : slot'[s].pid = q <=> slot[s].pid = q
      BY <1>1, <1>2, <1>3, CacheAssumption, ZenonT(60)
    <2>2. \A s \in Slots : slot[s].pid = q => slot'[s] = slot[s]
      BY <1>1, <1>2, CacheAssumption
    <2>3. q \notin hist'.hurt <=> q \notin hist.hurt
      BY <1>1
    <2> QED BY <2>1, <2>2, <2>3 DEF In, InNext
  <1>7. /\ InUse(TRUE) = {q \in Pid : In(q, TRUE)}
        /\ InUse(FALSE) = {q \in Pid : In(q, FALSE)}
        /\ InUse(TRUE)' = {q \in Pid : InNext(q, TRUE)}
        /\ InUse(FALSE)' = {q \in Pid : InNext(q, FALSE)}
    BY PoolMembers, PoolMembersNext
  <1>8. /\ p \notin InUse(TRUE) \cup InUse(FALSE)
        /\ InUse(TRUE)' = InUse(TRUE) /\ InUse(FALSE)' = InUse(FALSE) \cup {p}
    BY <1>2, <1>4, <1>5, <1>6, <1>7
  <1>9. Dying' = Dying
    <2>1. child'[p].st = "up"
      BY <1>1
    <2>2. \A q \in InUse(TRUE) \cup InUse(FALSE) : child'[q] = child[q]
      BY <1>1, <1>7, <1>8
    <2> QED BY <1>8, <2>1, <2>2 DEF Dying
  <1> QED BY <1>2, <1>8, <1>9, PoolConnect

LEMMA FilledPool ==
  ASSUME IInv, IInv', Stat
  PROVE  Pool!Next \/ UNCHANGED Pool!pool
  <1> DEFINE p == slot[job.s].pid
  <1>1. /\ job.s \in Slots /\ p \in Pid /\ ~slot[job.s].active
        /\ \A s \in Slots : slot[s].active \in BOOLEAN /\ slot'[s].active \in BOOLEAN
        /\ \A s \in Slots : slot[s].pid = p => s = job.s
    <2>1. job.s \in Slots /\ p \in Pid /\ ~slot[job.s].active
      BY DEF Stat, IInv, JobInv, TypeOK, Job
    <2>2. \A s \in Slots : slot[s].active \in BOOLEAN /\ slot'[s].active \in BOOLEAN
      BY DEF IInv, TypeOK, Process
    <2>3. \A s \in Slots : slot[s].pid = p => s = job.s
      BY <2>1, CacheAssumption DEF IInv, SlotInv
    <2> QED BY <2>1, <2>2, <2>3
  <1>2. /\ slot'[job.s].pid = p /\ slot'[job.s].active
        /\ \A s \in Slots \ {job.s} : slot'[s] = slot[s]
        /\ hist'.hurt = hist.hurt /\ child' = child
    BY StatSlots DEF Stat
  <1> HIDE DEF p
  <1>3. /\ InNext(p, TRUE) <=> p \notin hist.hurt
        /\ ~InNext(p, FALSE)
    BY <1>1, <1>2 DEF InNext
  <1>4. /\ ~In(p, TRUE)
        /\ In(p, FALSE) <=> p \notin hist.hurt
    BY <1>1 DEF In, p
  <1>5. ASSUME NEW q \in Pid \ {p}, NEW b \in BOOLEAN
        PROVE  InNext(q, b) <=> In(q, b)
    BY <1>1, <1>2 DEF In, InNext, p
  <1>6. /\ InUse(TRUE) = {q \in Pid : In(q, TRUE)}
        /\ InUse(FALSE) = {q \in Pid : In(q, FALSE)}
        /\ InUse(TRUE)' = {q \in Pid : InNext(q, TRUE)}
        /\ InUse(FALSE)' = {q \in Pid : InNext(q, FALSE)}
    BY PoolMembers, PoolMembersNext
  <1>7. CASE p \notin hist.hurt
    <2>1. /\ p \in InUse(FALSE) \ {}
          /\ InUse(TRUE)' = (InUse(TRUE) \cup {p}) \ {}
          /\ InUse(FALSE)' = (InUse(FALSE) \ {p}) \ {}
      BY <1>1, <1>3, <1>4, <1>5, <1>6, <1>7
    <2>2. InUse(TRUE)' \cup InUse(FALSE)' = InUse(TRUE) \cup InUse(FALSE)
      BY <2>1
    <2>3. Dying' = Dying \ {}
      BY <1>2, <2>2 DEF Dying
    <2> QED BY <1>1, <2>1, <2>3, PoolStart
  <1>8. CASE p \in hist.hurt
    <2>1. \A q \in Pid, b \in BOOLEAN : InNext(q, b) <=> In(q, b)
      BY <1>3, <1>4, <1>5, <1>8 DEF In, InNext
    <2>2. InUse(TRUE)' = InUse(TRUE) /\ InUse(FALSE)' = InUse(FALSE)
      BY <1>6, <2>1
    <2>3. Dying' = Dying
      BY <1>2, <2>2 DEF Dying
    <2> QED BY <2>2, <2>3, PoolStutter
  <1> QED BY <1>7, <1>8

LEMMA ResizedPool ==
  ASSUME IInv, IInv', OwnInv, Resize
  PROVE  Pool!Next
  <1>1. /\ child' = child /\ \A s \in Slots : slot'[s].pid = NoPid
        /\ \A s \in Slots : slot[s].pid \in Pid => slot[s].active = FALSE
    <2>1. \A s \in Linked : ~slot[s].active
      BY DEF Resize, OwnInv
    <2>2. \A s \in Slots : slot[s].pid \in Pid => s \in Linked
      BY CacheAssumption DEF IInv, SlotInv
    <2>3. \A s \in Slots : slot[s].active \in BOOLEAN
      BY DEF IInv, TypeOK, Process
    <2> QED BY <2>1, <2>2, <2>3, ResizeSlots DEF Resize
  <1>2. \A p \in Pid, b \in BOOLEAN : ~InNext(p, b) /\ ~In(p, TRUE)
    BY <1>1, CacheAssumption DEF In, InNext
  <1>3. InUse(TRUE) = {} /\ InUse(TRUE)' = {} /\ InUse(FALSE)' = {}
    BY <1>2, PoolMembers, PoolMembersNext
  <1>4. Dying' = {} /\ Dying \subseteq InUse(FALSE)
    BY <1>3 DEF Dying
  <1> QED BY <1>3, <1>4, PoolDisconnect

\* What is hurt leaves the pool; it was idle.
LEMMA InterruptedPool ==
  ASSUME IInv, IInv', FinishedInv, Interrupt
  PROVE  Pool!Next
  <1> DEFINE q == slot[job.s].pid
             N == hist'.hurt \ hist.hurt
             Q == InUse(FALSE) \cap N
  <1>1. /\ slot' = slot /\ hist.hurt \subseteq hist'.hurt
        /\ \/ /\ job.at \in {"stat", "close"}
              /\ hist'.hurt = hist.hurt \cup {q}
           \/ hist'.hurt = hist.hurt \cup Revived
           \/ job.at # "close" /\ hist'.hurt = hist.hurt
        /\ job.at = "close" => q \in hist'.hurt
        /\ \A p \in Pid : child'[p] = child[p] \/ (job.at = "close" /\ p = q)
    <2>1. job.at \notin {"stat", "close"} => job.at # "close"
      OBVIOUS
    <2> QED BY <2>1, InterruptKeeps
  <1>2. ASSUME NEW p \in Pid, p \in N
        PROVE  ~In(p, TRUE)
    <2>1. CASE p = q /\ job.at \in {"stat", "close"}
      <3>1. q \in Pid /\ job.s \in Slots /\ ~slot[job.s].active
        BY <2>1 DEF IInv, JobInv, TypeOK, Job
      <3>2. \A s \in Slots : slot[s].pid = q => s = job.s
        BY <3>1, CacheAssumption DEF IInv, SlotInv
      <3> QED BY <2>1, <3>1, <3>2 DEF In
    <2>2. CASE p \in Revived
      <3>1. PICK i \in 1..Top : stack[i].pid = p /\ ~stack[i].running
        BY <2>2 DEF Revived
      <3>2. \A s \in Linked : slot[s].pid = p => ~slot[s].active
        BY <1>2, <3>1 DEF FinishedInv, IInv, TaskInv
      <3>3. \A s \in Slots : slot[s].pid = p => s \in Linked
        BY CacheAssumption DEF IInv, SlotInv
      <3> QED BY <3>2, <3>3 DEF In
    <2> QED BY <1>1, <1>2, <2>1, <2>2
  <1>3. /\ InUse(TRUE) = {p \in Pid : In(p, TRUE)}
        /\ InUse(FALSE) = {p \in Pid : In(p, FALSE)}
        /\ InUse(TRUE)' = {p \in Pid : InNext(p, TRUE)}
        /\ InUse(FALSE)' = {p \in Pid : InNext(p, FALSE)}
    BY PoolMembers, PoolMembersNext
  <1>4. \A p \in Pid, b \in BOOLEAN : InNext(p, b) <=> In(p, b) /\ p \notin N
    BY <1>1 DEF In, InNext
  <1>5. ASSUME NEW p \in Pid, p \notin N, In(p, TRUE) \/ In(p, FALSE)
        PROVE  child'[p] = child[p]
    BY <1>1, <1>5 DEF In
  <1> HIDE DEF q, N
  <1>6. InUse(TRUE)' = InUse(TRUE) \ {} /\ InUse(FALSE)' = InUse(FALSE) \ (Q \cup {})
    BY <1>2, <1>3, <1>4
  <1>7. Dying' = Dying \ (Q \cup {})
    <2>1. ASSUME NEW p \in Pid
          PROVE  p \in Dying' <=> p \in Dying \ Q
      BY <1>2, <1>3, <1>4, <1>5, <1>6 DEF Dying
    <2>2. Dying' \subseteq Pid /\ Dying \subseteq Pid
      BY <1>3 DEF Dying
    <2> QED BY <2>1, <2>2
  <1>8. Q \in SUBSET InUse(FALSE) /\ {} \in SUBSET Dying
    OBVIOUS
  <1> HIDE DEF Q
  <1> QED BY <1>6, <1>7, <1>8, PoolDisconnect

LEMMA EnvironmentPool ==
  ASSUME IInv, IInv', Environment
  PROVE  Pool!Next \/ UNCHANGED Pool!pool
  <1>1. hist'.hurt = hist.hurt
    BY DEF Environment, IInv, TypeOK
  <1>2. ASSUME NEW p \in Pid, ChildDies(p)
        PROVE  Pool!Next \/ UNCHANGED Pool!pool
    <2>1. /\ slot' = slot /\ child[p].st = "up" /\ child'[p].st = "dead"
          /\ \A q \in Pid : q # p => child'[q] = child[q]
      BY <1>2, DeathKeeps
    <2>2. \A q, b : InNext(q, b) <=> In(q, b)
      BY <1>1, <2>1 DEF In, InNext
    <2>3. /\ InUse(TRUE)' = InUse(TRUE) /\ InUse(FALSE)' = InUse(FALSE)
          /\ InUse(TRUE) \cup InUse(FALSE) \subseteq Pid
      BY <2>2, PoolMembers, PoolMembersNext
    <2>4. CASE p \in InUse(TRUE) \cup InUse(FALSE)
      <3>1. Dying' = Dying \cup {p}
        BY <2>1, <2>3, <2>4 DEF Dying
      <3> QED BY <2>3, <2>4, <3>1, PoolCrash
    <2>5. CASE p \notin InUse(TRUE) \cup InUse(FALSE)
      <3>1. Dying' = Dying
        BY <2>1, <2>3, <2>5 DEF Dying
      <3> QED BY <2>3, <3>1, PoolStutter
    <2> QED BY <2>4, <2>5
  <1>3. ASSUME NEW x \in Exe, Relink(x)
        PROVE  UNCHANGED Pool!pool
    <2>1. /\ \A s \in Slots : slot'[s].pid = slot[s].pid /\ slot'[s].active = slot[s].active
          /\ \A p \in Pid : child'[p].st = child[p].st
      BY <1>3, RelinkKeeps
    <2> QED BY <1>1, <2>1, PoolSame
  <1> QED BY <1>2, <1>3 DEF Environment

LEMMA RecoverPool ==
  ASSUME IInv, IInv', Back
  PROVE  Pool!Next
  <1>1. PICK P : Tidied(P, {})
    BY BackKeeps
  <1>2. slot' = slot \/ \E S, pruned : FinishTasks(S, pruned)
    BY BackKeeps
  <1>3. \A s \in Slots : slot'[s].pid \in {slot[s].pid, Checked[s].pid}
    BY <1>2, DisconnectedPid DEF FinishTasks
  <1> QED BY <1>1, <1>3, CheckUpOnly, GivenBack

LEMMA LockedPool ==
  ASSUME IInv, IInv', StartLocked
  PROVE  Pool!Next
  <1> DEFINE p == slot[job.s].pid
             d == Disconnected({p})
  <1>1. \A s \in Slots : slot'[s] = IF s \in Linked /\ slot[s].pid = p
                                    THEN [d[s] EXCEPT !.locked = TRUE] ELSE d[s]
    BY DEF StartLocked
  <1>2. d \in [Slots -> Process]
    BY DisconnectedTypes DEF IInv
  <1>3. \A s \in Slots : d[s].pid = Checked[s].pid
    BY DisconnectedPid
  <1> HIDE DEF d
  <1>4. \A s \in Slots : slot'[s].pid = Checked[s].pid
    BY <1>1, <1>2, <1>3 DEF Process
  <1> QED BY <1>4, CheckUpOnly, LockTidies, GivenBack

LEMMA NextPool ==
  ASSUME IInv, IInv', OwnInv, [Next]_vars
  PROVE  [Pool!Next]_(Pool!pool)
  <1>1. CASE FindReuse
    BY <1>1, Reused
  <1>2. CASE FindStale \/ FindNone \/ GetSlot \/ Close \/ DumpNext \/ DumpEnd
             \/ (\E n \in Sizes : SetCache(n)) \/ (\E x \in Exe : Run(x) \/ CacheTask(x))
             \/ FlushAll \/ FlushOne \/ DefinePackage \/ Start \/ RunScript \/ RunCl
    <2>1. Tidied({}, {})
      BY <1>2, FindTidies, QuietKeeps, CloseTidies, DumpTidies, SetCacheKeeps,
         CacheTaskTidies, FlushCases, FlushKeeps
    <2> QED BY <2>1, TidiedPool
  <1>3. CASE Back
    BY <1>3, RecoverPool
  <1>4. CASE StartLocked
    BY <1>4, LockedPool
  <1>5. CASE Spawn
    BY <1>5, SpawnedPool
  <1>6. CASE Stat
    BY <1>6, FilledPool
  <1>7. CASE Resize
    BY <1>7, ResizedPool
  <1>8. CASE StartFails \/ CloseFails
    <2>1. /\ job.at \in {"start", "close"} /\ SeenDead
          /\ child[slot[job.s].pid].st = "dead"
      BY <1>8 DEF StartFails, CloseFails
    <2>2. /\ slot' = slot /\ hist' = hist
          /\ child'[slot[job.s].pid].st = "known"
          /\ \A p \in Pid : p # slot[job.s].pid => child'[p] = child[p]
      BY <2>1, SeenDeadKeeps
    <2> QED BY <2>1, <2>2, PoolSame
  <1>9. CASE Interrupt
    BY <1>9, InterruptedPool DEF OwnInv
  <1>10. CASE Environment
    BY <1>10, EnvironmentPool
  <1>11. CASE UNCHANGED vars
    BY <1>11, PoolSame DEF vars
  <1> QED BY <1>1, <1>2, <1>3, <1>4, <1>5, <1>6, <1>7, <1>8, <1>9, <1>10, <1>11
      DEF Next, Step, Command, Back, Failure

LEMMA InitPool == Init => Pool!Init
  <1> SUFFICES ASSUME Init
               PROVE  Pool!Init
    OBVIOUS
  <1>1. \A s \in Linked : slot[s].pid = NoPid
    BY ProcessTypes, SlotNumbers, CacheAssumption DEF Init
  <1>2. InUse(TRUE) = {} /\ InUse(FALSE) = {}
    BY <1>1 DEF InUse
  <1> QED BY <1>2 DEF Pool!Init

\* The cache keeps the promises of ProcPool, for all processes but those that
\* an interrupt has hurt: a task is started in a process nobody uses, and only
\* idle or dead processes are disconnected (prcache.c) - provided the size of
\* the cache is set only while no task runs in a process.
THEOREM Implementation == ASSUME ResizeBusy = FALSE
                          PROVE  Spec => Refinement
  <1>1. Init => IInv /\ OwnInv /\ Pool!Init
    BY InitInv, InitOwn, InitPool
  <1>2. IInv /\ [Next]_vars => IInv'
    BY NextInv
  <1>3. IInv /\ IInv' /\ OwnInv /\ [Next]_vars => OwnInv'
    BY NextOwnInv
  <1>4. IInv /\ IInv' /\ OwnInv /\ [Next]_vars => [Pool!Next]_(Pool!pool)
    BY NextPool
  <1>5. Init /\ [][Next]_vars => Pool!Init /\ [][Pool!Next]_(Pool!pool)
    BY <1>1, <1>2, <1>3, <1>4, PTL
  <1> QED BY <1>5, PTL DEF Spec, Refinement, Pool!Spec

-----------------------------------------------------------------------------
(* Packages: the numbers of the processes, and what a prune leaves.        *)

\* A task that has defined a package knows the processes there were then, by
\* name; those connected since have greater numbers, unless a forced flush has
\* begun the numbers anew.  A slot is numbered only after c_finfo.
NumbersInv ==
    ~hist.reset =>
        \A i \in 1..Top : stack[i].pno # 0 =>
            /\ stack[i].pno < pr_pno
            /\ \A s \in Linked : slot[s].pid # NoPid /\ ~Filling(s) =>
                  \/ slot[s].pno > stack[i].pno
                  \/ slot[s].pid \in stack[i].before \cup hist.hurt

\* A prune flushes nothing by force; what it has still to look at, or is closing,
\* is all that is idle and was connected since.
PruneInv ==
    job.prune =>
        /\ job.at = "dump" \/ (job.at = "close" /\ job.then = "dump")
        /\ ~job.break /\ job.size = 0
        /\ ~hist.reset =>
              \A s \in Linked : slot[s].pid # NoPid /\ ~Busy(slot[s]) =>
                 \/ s \in job.todo
                 \/ job.at = "close" /\ s = job.s
                 \/ slot[s].pid \in stack[Top].before \cup hist.hurt

\* The processes that stay in the cache keep their numbers.
NumbersKept ==
    \A s \in Slots : \/ slot'[s].pid = NoPid
                     \/ slot'[s].pid = slot[s].pid /\ slot'[s].pno = slot[s].pno

\* The tasks that have a number had it before.
TasksKept ==
    \A i \in 1..Top' : stack'[i].pno # 0 =>
        /\ i \in 1..Top
        /\ stack'[i].pno = stack[i].pno /\ stack'[i].before = stack[i].before

LEMMA KeepsNumbers ==
  ASSUME IInv, NumbersInv, NumbersKept, TasksKept, sz' = sz, pr_pno' = pr_pno,
         hist'.reset = hist.reset, hist.hurt \subseteq hist'.hurt,
         job.at = "stat" => \/ job'.at = "stat" /\ job'.s = job.s
                            \/ slot[job.s].pid \in hist'.hurt
  PROVE  NumbersInv'
  <1> SUFFICES ASSUME ~hist'.reset, NEW i \in 1..Top', stack'[i].pno # 0
               PROVE  /\ stack'[i].pno < pr_pno'
                      /\ \A s \in Linked' : slot'[s].pid # NoPid /\ ~Filling(s)' =>
                            \/ slot'[s].pno > stack'[i].pno
                            \/ slot'[s].pid \in stack'[i].before \cup hist'.hurt
    BY DEF NumbersInv
  <1>1. /\ i \in 1..Top /\ stack[i].pno # 0 /\ stack'[i].pno = stack[i].pno
        /\ stack'[i].before = stack[i].before
    BY DEF TasksKept
  <1>2. stack[i].pno < pr_pno
    BY <1>1 DEF NumbersInv
  <1>3. ASSUME NEW s \in Linked', slot'[s].pid # NoPid, ~Filling(s)'
        PROVE  \/ slot'[s].pno > stack'[i].pno
               \/ slot'[s].pid \in stack'[i].before \cup hist'.hurt
    <2>1. s \in Linked /\ s \in Slots
      BY SlotNumbers DEF Linked, IInv, TypeOK
    <2>2. slot'[s].pid = slot[s].pid /\ slot'[s].pno = slot[s].pno
      BY <1>3, <2>1 DEF NumbersKept
    <2>3. CASE Filling(s)
      <3>1. slot[s].pid \in hist'.hurt
        BY <1>3, <2>3 DEF Filling
      <3> QED BY <2>2, <3>1
    <2>4. CASE ~Filling(s)
      <3>1. \/ slot[s].pno > stack[i].pno
            \/ slot[s].pid \in stack[i].before \cup hist.hurt
        BY <1>1, <1>3, <2>1, <2>2, <2>4 DEF NumbersInv
      <3> QED BY <1>1, <2>2, <3>1
    <2> QED BY <2>3, <2>4
  <1> QED BY <1>1, <1>2, <1>3

LEMMA CheckedNumbers ==
  ASSUME IInv
  PROVE  \A s \in Slots : Checked[s].pid = NoPid \/ Checked[s] = slot[s]
  BY CheckedSlots DEF IInv

LEMMA DisconnectedNumbers ==
  ASSUME IInv, NEW P, NEW s \in Slots
  PROVE  /\ Disconnected(P)[s].pid = Checked[s].pid
         /\ Disconnected(P)[s].pno = Checked[s].pno
  <1>1. Checked[s] \in Process
    BY CheckedTypes DEF IInv
  <1>2. Disconnected(P)[s] = IF s \in Linked /\ Checked[s].pid \in P
                             THEN [Checked[s] EXCEPT !.active = FALSE] ELSE Checked[s]
    BY DEF Disconnected
  <1> QED BY <1>1, <1>2 DEF Process

LEMMA FinishNumbers ==
  ASSUME IInv, NEW P, NEW pruned, FinishTasks(P, pruned)
  PROVE  NumbersKept
  <1>1. slot' = slot \/ slot' = Disconnected(P)
    BY DEF FinishTasks
  <1> QED BY <1>1, CheckedNumbers, DisconnectedNumbers DEF NumbersKept

\* pr_checkup alone, or a process that is also marked.
LEMMA MarkedNumbers ==
  ASSUME IInv,
         \/ slot' = Checked
         \/ \E n \in Slots : \/ slot' = [Checked EXCEPT ![n].active = TRUE]
                             \/ slot' = [Checked EXCEPT ![n].locked = TRUE]
  PROVE  NumbersKept
  <1>1. Checked \in [Slots -> Process]
    BY CheckedTypes DEF IInv
  <1>2. ASSUME NEW s \in Slots
        PROVE  slot'[s].pid = Checked[s].pid /\ slot'[s].pno = Checked[s].pno
    BY <1>1 DEF Process
  <1> QED BY <1>2, CheckedNumbers DEF NumbersKept

LEMMA LockedNumbers ==
  ASSUME IInv, StartLocked
  PROVE  NumbersKept
  <1> DEFINE d == Disconnected({slot[job.s].pid})
  <1>1. \A s \in Slots : slot'[s] = IF s \in Linked /\ slot[s].pid = slot[job.s].pid
                                    THEN [d[s] EXCEPT !.locked = TRUE] ELSE d[s]
    BY DEF StartLocked
  <1>2. \A s \in Slots : d[s] \in Process
    BY DisconnectedTypes DEF IInv
  <1>3. \A s \in Slots : d[s].pid = Checked[s].pid /\ d[s].pno = Checked[s].pno
    BY DisconnectedNumbers
  <1> HIDE DEF d
  <1>4. \A s \in Slots : slot'[s].pid = d[s].pid /\ slot'[s].pno = d[s].pno
    BY <1>1, <1>2 DEF Process
  <1> QED BY <1>3, <1>4, CheckedNumbers DEF NumbersKept

LEMMA CacheTaskNumbers ==
  ASSUME IInv, NEW x \in Exe, CacheTask(x)
  PROVE  NumbersKept
  <1> DEFINE named == {s \in Linked : Checked[s].exe = x}
             n == CHOOSE t \in named : \A u \in named : CheckedRank[t] <= CheckedRank[u]
  <1>1. \/ slot' = [Checked EXCEPT ![n].locked = TRUE] /\ named # {}
        \/ slot' = Checked
    BY DEF CacheTask
  <1>2. named # {} => n \in Slots
    <2>1. \A s \in named : s \in Slots /\ CheckedRank[s] \in Nat
      BY CheckedTypes, SlotNumbers DEF IInv, TypeOK
    <2> HIDE DEF named
    <2>2. named # {} => n \in named
      BY <2>1, LeastRank
    <2> QED BY <2>1, <2>2
  <1> HIDE DEF n, named
  <1> QED BY <1>1, <1>2, MarkedNumbers

\* Close empties a slot, pr_dumpcache unlocks one, a relink makes them stale.
LEMMA OtherNumbers ==
  ASSUME IInv, Close \/ DumpNext \/ Resize \/ slot' = slot \/ \E x \in Exe : Relink(x)
  PROVE  NumbersKept
  <1>0. \A s \in Slots : slot[s] \in Process
    BY DEF IInv, TypeOK
  <1>1. CASE Close
    <2>1. slot'[job.s].pid = NoPid /\ \A s \in Slots \ {job.s} : slot'[s] = slot[s]
      BY <1>1, CloseTidies
    <2> QED BY <2>1 DEF NumbersKept
  <1>2. CASE DumpNext
    <2> DEFINE n == Lowest(job.todo)
               b == slot[n].locked /\ ~(job.break /\ ~slot[n].active)
    <2>1. slot' = [slot EXCEPT ![n] = [slot[n] EXCEPT !.locked = b]]
      BY <1>2 DEF DumpNext
    <2> HIDE DEF n, b
    <2>2. \A s \in Slots : slot'[s].pid = slot[s].pid /\ slot'[s].pno = slot[s].pno
      BY <1>0, <2>1 DEF IInv, TypeOK, Process
    <2> QED BY <2>2 DEF NumbersKept
  <1>3. CASE Resize
    BY <1>3, ResizeSlots DEF NumbersKept
  <1>4. CASE slot' = slot
    BY <1>4 DEF NumbersKept
  <1>5. ASSUME NEW x \in Exe, Relink(x)
        PROVE  NumbersKept
    <2>1. slot' = [s \in Slots |-> IF slot[s].exe = x THEN [slot[s] EXCEPT !.fresh = FALSE]
                                                      ELSE slot[s]]
      BY <1>5 DEF Relink
    <2> QED BY <1>0, <2>1 DEF NumbersKept, Process
  <1> QED BY <1>1, <1>2, <1>3, <1>4, <1>5

LEMMA CalledTasks ==
  ASSUME TypeOK
  PROVE  \A i \in 1..Top : /\ i = Top => Called[i].pno = 0
                           /\ i # Top => Called[i] = stack[i]
  <1> DEFINE c == [stack[Top] EXCEPT !.pno = 0, !.before = {}]
  <1>1. Top \in 1..Len(stack) /\ stack[Top] \in Task /\ 0 \in 0..MaxPno
    BY CacheAssumption DEF TypeOK, Top
  <1>2. c \in Task /\ c.pno = 0
    BY <1>1 DEF Task
  <1>3. Called = [stack EXCEPT ![Top] = c]
    BY <1>1 DEF Called, TypeOK
  <1> HIDE DEF c
  <1>4. \A i \in 1..Top : Called[i] = IF i = Top THEN c ELSE stack[i]
    BY <1>1, <1>2, <1>3, ExceptSeq DEF TypeOK, Top
  <1> QED BY <1>2, <1>4

\* Whatever is called, started or ends.
LEMMA OldTasks ==
  ASSUME IInv,
         \/ stack' = stack \/ stack' = Called
         \/ \E n \in 1..Top : \E k \in 1..n : Left(n, k)
         \/ Start \/ RunScript \/ RunCl
  PROVE  TasksKept
  <1>0. Top \in Nat /\ Top' = Len(stack') /\ stack \in Seq(Task)
    BY CacheAssumption DEF IInv, TypeOK, Top
  <1>1. CASE stack' = stack
    BY <1>0, <1>1 DEF TasksKept, Top
  <1>2. CASE stack' = Called
    BY <1>0, <1>2, CalledStack, CalledTasks DEF TasksKept, IInv
  <1>3. ASSUME NEW n \in 1..Top, NEW k \in 1..n, Left(n, k)
        PROVE  TasksKept
    BY <1>0, <1>3 DEF TasksKept, Left
  <1>4. CASE Start
    <2> DEFINE t == NewTask("ext", slot[job.s].pid, job.exe)
    <2>1. /\ slot[job.s].pid \in Pid /\ job.exe \in Exe \cup {NoExe} /\ Top < MaxDepth
          /\ stack' = Append(stack, t)
      BY <1>4 DEF Start, IInv, JobInv, Connecting, TypeOK, Job
    <2>2. t \in Task /\ t.pno = 0
      BY <2>1, NewTaskType DEF NewTask
    <2> HIDE DEF t
    <2>3. /\ Len(stack') = Top + 1 /\ stack'[Top + 1] = t
          /\ \A i \in 1..Top : stack'[i] = stack[i]
      BY <1>0, <2>1, <2>2, Pushed DEF Top
    <2> QED BY <1>0, <2>2, <2>3 DEF TasksKept
  <1>5. CASE RunScript \/ RunCl
    <2>1. PICK k \in {"cl", "script"} :
            stack' = Append(Called, NewTask(k, NoPid, NoExe)) /\ Top < MaxDepth
      BY <1>5 DEF RunScript, RunCl
    <2> DEFINE t == NewTask(k, NoPid, NoExe)
    <2>2. t \in Task /\ t.pno = 0
      BY NewTaskType DEF NewTask
    <2> HIDE DEF t
    <2>3. stack' = Append(Called, t)
      BY <2>1 DEF t
    <2>4. Called \in Seq(Task) /\ Len(Called) = Top
      BY CalledStack DEF IInv
    <2>5. /\ Len(stack') = Top + 1 /\ stack'[Top + 1] = t
          /\ \A i \in 1..Top : stack'[i] = Called[i]
      BY <2>1, <2>2, <2>3, <2>4, Pushed
    <2> QED BY <1>0, <2>2, <2>5, CalledTasks DEF TasksKept, IInv
  <1> QED BY <1>1, <1>2, <1>3, <1>4, <1>5

LEMMA SpawnNumbers ==
  ASSUME IInv, NumbersInv, Spawn
  PROVE  NumbersInv'
  <1>1. PICK p \in Unused :
          /\ slot' = [slot EXCEPT ![job.s].pid = p]
          /\ stack' = [i \in 1..Top |-> [stack[i] EXCEPT !.before = @ \ {p}]]
          /\ hist' = [hist EXCEPT !.leaked = @ \ {p}, !.hurt = @ \ {p}, !.raced = @ \ {p}]
    BY DEF Spawn
  <1>2. /\ \A t \in Slots : slot[t].pid # p
        /\ job.s \in Slots /\ Linked' = Linked /\ Linked \subseteq Slots
        /\ pr_pno' = pr_pno /\ job.at = "spawn" /\ job' = [job EXCEPT !.at = "stat"]
    BY SlotNumbers DEF Spawn, Unused, IInv, TypeOK, Linked, Job
  <1>3. job'.at = "stat" /\ job'.s = job.s
    BY <1>2 DEF IInv, TypeOK, Job
  <1>4. \A t \in Slots \ {job.s} : slot'[t] = slot[t]
    BY <1>1, <1>2 DEF IInv, TypeOK
  <1>5. hist'.hurt = hist.hurt \ {p} /\ hist'.reset = hist.reset
    BY <1>1 DEF IInv, TypeOK
  <1>6. /\ Top' = Top
        /\ \A i \in 1..Top : /\ stack'[i].pno = stack[i].pno
                             /\ stack'[i].before = stack[i].before \ {p}
    <2>1. Top' = Top
      <3>1. SameTasks
        BY SpawnSlots
      <3> QED BY <3>1 DEF SameTasks, Top
    <2>2. \A i \in 1..Top : stack[i] \in Task
      BY CacheAssumption DEF IInv, TypeOK, Top
    <2> QED BY <1>1, <2>1, <2>2 DEF Task
  <1>7. ASSUME NEW i \in 1..Top, stack[i].pno # 0, ~hist.reset,
               NEW s \in Linked, slot'[s].pid # NoPid, ~Filling(s)'
        PROVE  \/ slot'[s].pno > stack[i].pno
               \/ slot'[s].pid \in stack'[i].before \cup hist'.hurt
    <2>1. s # job.s /\ s \in Slots /\ slot'[s] = slot[s] /\ slot[s].pid # p /\ ~Filling(s)
      BY <1>2, <1>3, <1>4, <1>7 DEF Filling
    <2>2. \/ slot[s].pno > stack[i].pno
          \/ slot[s].pid \in stack[i].before \cup hist.hurt
      BY <1>7, <2>1 DEF NumbersInv
    <2> QED BY <1>5, <1>6, <2>1, <2>2
  <1> QED BY <1>2, <1>5, <1>6, <1>7 DEF NumbersInv

\* A process that is connected gets a greater number than any package has.
LEMMA StatNumbers ==
  ASSUME IInv, NumbersInv, Stat
  PROVE  NumbersInv'
  <1>1. PICK fresh \in BOOLEAN :
          slot' = [slot EXCEPT ![job.s] =
                        [@ EXCEPT !.exe = job.exe, !.active = TRUE, !.locked = FALSE,
                                  !.pno = pr_pno, !.fresh = fresh]]
    BY DEF Stat
  <1>2. /\ job.s \in Slots /\ Linked' = Linked /\ Linked \subseteq Slots
        /\ stack' = stack /\ Top' = Top
        /\ pr_pno' = pr_getpno /\ pr_pno \in Nat /\ pr_getpno \in {pr_pno, pr_pno + 1}
    BY SlotNumbers, CacheAssumption DEF Stat, IInv, TypeOK, Linked, Top, Job, pr_getpno
  <1>3. slot'[job.s].pno = pr_pno /\ \A s \in Slots \ {job.s} : slot'[s] = slot[s]
    BY <1>1, <1>2 DEF IInv, TypeOK, Process
  <1>4. hist'.hurt = hist.hurt /\ hist'.reset = hist.reset
    BY DEF Stat, IInv, TypeOK
  <1>5. \A i \in 1..Top : stack[i].pno \in Nat
    <2>1. \A i \in 1..Top : stack[i] \in Task
      BY CacheAssumption DEF IInv, TypeOK, Top
    <2> QED BY <2>1, CacheAssumption DEF Task
  <1>6. ASSUME NEW i \in 1..Top, stack[i].pno # 0, ~hist.reset
        PROVE  /\ stack[i].pno < pr_pno'
               /\ \A s \in Linked : slot'[s].pid # NoPid =>
                     \/ slot'[s].pno > stack[i].pno
                     \/ slot'[s].pid \in stack[i].before \cup hist.hurt
    <2>1. stack[i].pno < pr_pno
      BY <1>6 DEF NumbersInv
    <2>2. ASSUME NEW s \in Linked, s # job.s, slot'[s].pid # NoPid
          PROVE  \/ slot'[s].pno > stack[i].pno
                 \/ slot'[s].pid \in stack[i].before \cup hist.hurt
      <3>1. slot'[s] = slot[s] /\ ~Filling(s)
        BY <1>2, <1>3, <2>2 DEF Filling
      <3> QED BY <1>6, <2>2, <3>1 DEF NumbersInv
    <2>3. stack[i].pno < pr_pno'
      BY <1>2, <1>5, <2>1
    <2>4. slot'[job.s].pno > stack[i].pno
      BY <1>2, <1>3, <1>5, <2>1
    <2> QED BY <2>2, <2>3, <2>4
  <1> QED BY <1>2, <1>4, <1>6 DEF NumbersInv

\* A forced flush begins the numbers anew, and is remembered while any task has one.
LEMMA ResetNumbers ==
  ASSUME IInv, hist' = [hist EXCEPT !.reset = \E i \in 1..Top : stack[i].pno # 0],
         stack' = stack
  PROVE  NumbersInv'
  <1>1. hist'.reset <=> \E i \in 1..Top : stack[i].pno # 0
    BY DEF IInv, TypeOK
  <1>2. Top' = Top
    BY DEF Top
  <1> QED BY <1>1, <1>2 DEF NumbersInv

LEMMA PackageNumbers ==
  ASSUME IInv, NumbersInv, DefinePackage
  PROVE  NumbersInv'
  <1> DEFINE B == {slot[s].pid : s \in Linked} \ {NoPid}
             c == [Called[Top - 1] EXCEPT !.pno = pr_pno, !.before = B]
  <1>1. /\ Top \in Nat /\ Top - 1 \in 1..Top /\ Linked' = Linked /\ slot' = slot
        /\ pr_pno \in Nat /\ pr_pno' = pr_pno + 1
    <2>1. /\ Top > 1 /\ UNCHANGED <<sz, slot>> /\ pr_pno' = pr_pno + 1
          /\ Top \in 1..MaxDepth /\ pr_pno \in 1..MaxPno
      BY DEF DefinePackage, IInv, TypeOK
    <2> QED BY <2>1, CacheAssumption DEF Linked
  <1>2. /\ Called \in Seq(Task) /\ Len(Called) = Top /\ Called[Top - 1] \in Task
        /\ \A i \in 1..Top : Called[i].pno # 0 => Called[i] = stack[i]
    BY <1>1, CalledStack, CalledTasks DEF IInv
  <1>3. stack' = [Called EXCEPT ![Top - 1] = c]
    BY <1>1, <1>2 DEF DefinePackage
  <1>4. c.pno = pr_pno /\ c.before = B
    BY <1>2 DEF Task
  <1> HIDE DEF c
  <1>5. Top' = Top /\ \A i \in 1..Top : stack'[i] = IF i = Top - 1 THEN c ELSE Called[i]
    BY <1>1, <1>2, <1>3 DEF Top
  <1>6. /\ hist'.hurt = hist.hurt
        /\ hist'.reset <=> hist.reset /\ \E i \in 1..Top : stack[i].pno # 0
    BY DEF DefinePackage, IInv, TypeOK
  <1>7. ASSUME NEW i \in 1..Top, stack'[i].pno # 0, ~hist'.reset
        PROVE  /\ stack'[i].pno < pr_pno'
               /\ \A s \in Linked : slot[s].pid # NoPid =>
                     \/ slot[s].pno > stack'[i].pno
                     \/ slot[s].pid \in stack'[i].before \cup hist.hurt
    <2>1. CASE i = Top - 1
      <3>1. stack'[i].pno = pr_pno /\ stack'[i].before = B
        BY <1>4, <1>5, <2>1
      <3> QED BY <1>1, <3>1
    <2>2. CASE i # Top - 1
      <3>1. stack'[i] = stack[i] /\ stack[i].pno # 0
        BY <1>2, <1>5, <1>7, <2>2
      <3>2. ~hist.reset /\ job.at # "stat"
        BY <1>6, <1>7, <3>1 DEF DefinePackage
      <3>3. /\ stack[i].pno < pr_pno
            /\ \A s \in Linked : slot[s].pid # NoPid =>
                  \/ slot[s].pno > stack[i].pno
                  \/ slot[s].pid \in stack[i].before \cup hist.hurt
        BY <3>1, <3>2 DEF NumbersInv, Filling
      <3>4. stack[i].pno \in Nat
        <4>1. stack[i] \in Task
          BY CacheAssumption DEF IInv, TypeOK, Top
        <4> QED BY <4>1, CacheAssumption DEF Task
      <3>5. stack[i].pno < pr_pno'
        BY <1>1, <3>3, <3>4
      <3> QED BY <3>1, <3>3, <3>5
    <2> QED BY <2>1, <2>2
  <1> QED BY <1>1, <1>5, <1>6, <1>7 DEF NumbersInv

LEMMA BackNumbers ==
  ASSUME IInv, Back
  PROVE  /\ UNCHANGED <<sz, pr_pno, hist>> /\ job.at # "stat" /\ NumbersKept
         /\ \E n \in 1..Top : \E k \in 1..n : Left(n, k)
  <1>1. slot' = slot \/ \E P, pruned : FinishTasks(P, pruned)
    BY BackKeeps
  <1>2. NumbersKept
    BY <1>1, OtherNumbers, FinishNumbers
  <1> QED BY <1>2, BackKeeps

LEMMA NextNumbers ==
  ASSUME IInv, NumbersInv, [Next]_vars
  PROVE  NumbersInv'
  <1>1. CASE Spawn \/ Stat \/ DefinePackage
    BY <1>1, SpawnNumbers, StatNumbers, PackageNumbers
  <1>2. CASE Resize \/ (DumpEnd /\ job.break)
    BY <1>2, ResetNumbers DEF Resize, DumpEnd
  <1>3. CASE Back
    <2>1. /\ UNCHANGED <<sz, pr_pno, hist>> /\ job.at # "stat" /\ NumbersKept
          /\ TasksKept
      BY <1>3, BackNumbers, OldTasks
    <2> QED BY <2>1, KeepsNumbers
  <1>4. CASE FindReuse \/ FindStale \/ FindNone \/ GetSlot \/ StartLocked \/ StartFails
             \/ CloseFails \/ Close \/ DumpNext \/ (DumpEnd /\ ~job.break)
             \/ (\E n \in Sizes : SetCache(n)) \/ UNCHANGED vars
    <2>1. /\ UNCHANGED <<sz, pr_pno, stack, hist>>
          /\ job.at # "stat" \/ job' = job
      BY <1>4, Zenon DEF FindReuse, FindStale, FindNone, GetSlot, StartLocked, StartFails,
         CloseFails, SeenDead, Close, DumpNext, DumpEnd, SetCache, vars
    <2>2. NumbersKept
      <3>1. CASE FindReuse
        <4>1. Found \in Slots
          BY <3>1, ReuseTidies, SlotNumbers DEF IInv, TypeOK
        <4> QED BY <3>1, <4>1, MarkedNumbers DEF FindReuse
      <3>2. CASE FindStale \/ FindNone \/ \E n \in Sizes : SetCache(n)
        BY <3>2, MarkedNumbers DEF FindStale, FindNone, SetCache
      <3>3. CASE StartLocked
        BY <3>3, LockedNumbers
      <3>4. CASE GetSlot \/ StartFails \/ CloseFails \/ DumpEnd \/ UNCHANGED vars
        BY <3>4, OtherNumbers DEF GetSlot, StartFails, CloseFails, SeenDead, DumpEnd, vars
      <3>5. CASE Close \/ DumpNext
        BY <3>5, OtherNumbers
      <3> QED BY <1>4, <3>1, <3>2, <3>3, <3>4, <3>5
    <2>3. TasksKept
      BY <2>1, OldTasks
    <2>4. /\ sz' = sz /\ pr_pno' = pr_pno /\ hist'.reset = hist.reset
          /\ hist.hurt \subseteq hist'.hurt
      BY <2>1
    <2>5. job.at = "stat" => job'.at = "stat" /\ job'.s = job.s
      BY <2>1
    <2> QED BY <2>2, <2>3, <2>4, <2>5, KeepsNumbers, Zenon
  <1>5. CASE (\E x \in Exe : Run(x) \/ CacheTask(x)) \/ FlushAll \/ FlushOne
    <2>1. /\ UNCHANGED <<sz, pr_pno, hist>> /\ job.at = "none" /\ stack' = Called
          /\ NumbersKept
      <3>1. ASSUME NEW x \in Exe, Run(x)
            PROVE  /\ UNCHANGED <<sz, slot, pr_pno, hist>> /\ job.at = "none"
                   /\ stack' = Called
        BY <3>1 DEF Run
      <3>2. ASSUME NEW x \in Exe, CacheTask(x)
            PROVE  UNCHANGED <<sz, pr_pno, hist>> /\ job.at = "none" /\ stack' = Called
        BY <3>2 DEF CacheTask
      <3>3. ASSUME NEW S, NEW break, Flush(S, break)
            PROVE  /\ UNCHANGED <<sz, pr_pno, hist>> /\ stack' = Called
                   /\ slot' = Checked
        BY <3>3, Zenon DEF Flush, CheckUp
      <3>4. CASE FlushAll \/ FlushOne
        BY <3>3, <3>4, FlushCases, MarkedNumbers
      <3> QED BY <1>5, <3>1, <3>2, <3>4, OtherNumbers, CacheTaskNumbers
    <2>3. TasksKept
      BY <2>1, OldTasks
    <2> QED BY <2>1, <2>3, KeepsNumbers
  <1>6. CASE Start \/ RunScript \/ RunCl
    <2>1. UNCHANGED <<sz, slot, pr_pno, hist>> /\ job.at # "stat"
      BY <1>6 DEF Start, RunScript, RunCl
    <2>2. NumbersKept /\ TasksKept
      BY <1>6, <2>1, OtherNumbers, OldTasks
    <2> QED BY <2>1, <2>2, KeepsNumbers
  <1>7. CASE Interrupt
    <2>1. /\ UNCHANGED <<sz, slot, stack, pr_pno>> /\ hist.hurt \subseteq hist'.hurt
          /\ job.at = "stat" => slot[job.s].pid \in hist'.hurt
      BY <1>7, InterruptKeeps
    <2>2. hist'.reset = hist.reset
      BY <1>7 DEF Interrupt, IInv, TypeOK
    <2>3. NumbersKept /\ TasksKept
      BY <2>1, OtherNumbers, OldTasks
    <2> QED BY <2>1, <2>2, <2>3, KeepsNumbers
  <1>8. CASE Environment
    <2>1. hist'.reset = hist.reset /\ hist'.hurt = hist.hurt
      BY <1>8 DEF Environment, IInv, TypeOK
    <2>2. ASSUME NEW p \in Pid, ChildDies(p)
          PROVE  NumbersInv'
      <3>1. UNCHANGED <<sz, slot, pr_pno, stack, job>>
        BY <2>2, DeathKeeps
      <3>2. NumbersKept /\ TasksKept
        BY <3>1, OtherNumbers, OldTasks
      <3> QED BY <2>1, <3>1, <3>2, KeepsNumbers
    <2>3. ASSUME NEW x \in Exe, Relink(x)
          PROVE  NumbersInv'
      <3>1. UNCHANGED <<sz, pr_pno, stack>> /\ job'.at = job.at /\ job'.s = job.s
        BY <2>3, RelinkKeeps
      <3>2. NumbersKept /\ TasksKept
        BY <2>3, <3>1, OtherNumbers, OldTasks
      <3> QED BY <2>1, <3>1, <3>2, KeepsNumbers
    <2> QED BY <1>8, <2>2, <2>3 DEF Environment
  <1> QED BY <1>1, <1>2, <1>3, <1>4, <1>5, <1>6, <1>7, <1>8
      DEF Next, Step, Command, Back, Failure

\* What restor begins to prune is all that was connected since.
LEMMA RestoredPrune ==
  ASSUME IInv, NumbersInv, NumbersKept, UNCHANGED <<sz, hist>>, job.at # "stat",
         NEW k \in 1..Top, Len(stack') = k, stack'[k].before = stack[k].before,
         job' = Restored(k)
  PROVE  PruneInv'
  <1> DEFINE S == {s \in Linked : slot'[s].pid # NoPid /\ slot'[s].pno > stack[k].pno}
             j == [NoJob EXCEPT !.at = "dump", !.prune = TRUE, !.todo = S]
  <1>1. job' = IF stack[k].pno = 0 THEN NoJob ELSE j
    BY DEF Restored
  <1>2. /\ j.at = "dump" /\ ~j.break /\ j.size = 0 /\ j.todo = S
        /\ ~NoJob.prune
    BY DEF NoJob
  <1>3. Top' = k /\ Linked' = Linked /\ Linked \subseteq Slots
    BY SlotNumbers DEF Top, Linked, IInv, TypeOK
  <1>4. ASSUME stack[k].pno # 0, ~hist.reset, NEW s \in Linked, slot'[s].pid # NoPid, s \notin S
        PROVE  slot'[s].pid \in stack[k].before \cup hist.hurt
    <2>1. slot'[s].pid = slot[s].pid /\ slot'[s].pno = slot[s].pno /\ ~Filling(s)
      BY <1>3, <1>4 DEF NumbersKept, Filling
    <2> QED BY <1>4, <2>1 DEF NumbersInv
  <1> HIDE DEF S, j
  <1> QED BY <1>1, <1>2, <1>3, <1>4 DEF PruneInv

\* A prune looks at its slots one by one, whatever happens to the children.
LEMMA StillPrunes ==
  ASSUME IInv, PruneInv, UNCHANGED <<sz, stack>>, hist'.reset = hist.reset,
         hist'.hurt = hist.hurt,
         \A s \in Slots : /\ slot'[s].pid = slot[s].pid
                          /\ slot'[s].active = slot[s].active
                          /\ job.prune => slot'[s].locked = slot[s].locked,
         job'.prune = job.prune, job'.break = job.break, job'.size = job.size,
         \/ job'.at = job.at /\ job'.s = job.s /\ job'.then = job.then /\ job'.todo = job.todo
         \/ /\ job.at = "dump" /\ \E s \in job.todo :
                 /\ job'.todo = job.todo \ {s}
                 /\ \/ job'.at = "dump" /\ (job.prune => Busy(slot[s]))
                    \/ job'.at = "close" /\ job'.s = s /\ job'.then = "dump"
  PROVE  PruneInv'
  <1> SUFFICES ASSUME job.prune
               PROVE  PruneInv'
    BY DEF PruneInv
  <1>1. /\ Linked' = Linked /\ Top' = Top /\ Linked \subseteq Slots
        /\ \A s \in Linked : slot'[s].pid = slot[s].pid /\ Busy(slot'[s]) = Busy(slot[s])
    BY SlotNumbers DEF Linked, Top, Busy, IInv, TypeOK
  <1>2. /\ job.at = "dump" \/ (job.at = "close" /\ job.then = "dump")
        /\ ~job.break /\ job.size = 0
    BY DEF PruneInv
  <1>3. ASSUME ~hist.reset, NEW s \in Linked, slot[s].pid # NoPid, ~Busy(slot[s])
        PROVE  \/ s \in job.todo
               \/ job.at = "close" /\ s = job.s
               \/ slot[s].pid \in stack[Top].before \cup hist.hurt
    BY <1>3 DEF PruneInv
  <1>4. /\ job'.at = "dump" \/ (job'.at = "close" /\ job'.then = "dump")
        /\ ~job'.break /\ job'.size = 0
    BY <1>2
  <1>5. ASSUME ~hist'.reset, NEW s \in Linked', slot'[s].pid # NoPid, ~Busy(slot'[s])
        PROVE  \/ s \in job'.todo
               \/ job'.at = "close" /\ s = job'.s
               \/ slot'[s].pid \in stack'[Top'].before \cup hist'.hurt
    <2>1. \/ s \in job.todo
          \/ job.at = "close" /\ s = job.s
          \/ slot[s].pid \in stack[Top].before \cup hist.hurt
      BY <1>1, <1>3, <1>5
    <2> QED BY <1>1, <1>5, <2>1
  <1> QED BY <1>4, <1>5 DEF PruneInv

LEMMA DumpPrunes ==
  ASSUME IInv, PruneInv, DumpNext
  PROVE  PruneInv'
  <1> DEFINE s == Lowest(job.todo)
             e == [slot[s] EXCEPT !.locked = @ /\ ~(job.break /\ ~slot[s].active)]
             rest == [job EXCEPT !.todo = @ \ {s}]
  <1>1. /\ slot' = [slot EXCEPT ![s] = e] /\ job.at = "dump"
        /\ job' = IF Busy(e) THEN rest
                  ELSE [rest EXCEPT !.at = "close", !.s = s, !.then = "dump"]
        /\ UNCHANGED <<sz, stack, hist>>
    BY DEF DumpNext
  <1>2. s \in job.todo /\ s \in Slots /\ job \in Job
    <2>1. job.todo \subseteq Slots /\ job.todo # {}
      BY SlotNumbers DEF DumpNext, IInv, JobInv, TypeOK
    <2> QED BY <2>1, LowestIn DEF IInv, TypeOK
  <1> HIDE DEF s
  <1>3. slot[s] \in Process /\ (job.prune => ~job.break)
    BY <1>2 DEF IInv, TypeOK, PruneInv
  <1>4. /\ e.pid = slot[s].pid /\ e.active = slot[s].active
        /\ job.prune => e.locked = slot[s].locked
    BY <1>3 DEF Process
  <1> HIDE DEF e
  <1>5. \A t \in Slots : slot'[t] = IF t = s THEN e ELSE slot[t]
    BY <1>1, <1>2 DEF IInv, TypeOK
  <1>6. \A t \in Slots : /\ slot'[t].pid = slot[t].pid
                         /\ slot'[t].active = slot[t].active
                         /\ job.prune => slot'[t].locked = slot[t].locked
    BY <1>4, <1>5
  <1>7. job.prune => Busy(e) = Busy(slot[s])
    BY <1>4 DEF Busy
  <1>8. /\ job'.prune = job.prune /\ job'.break = job.break /\ job'.size = job.size
        /\ job'.todo = job.todo \ {s}
        /\ \/ job'.at = "dump" /\ (job.prune => Busy(slot[s]))
           \/ job'.at = "close" /\ job'.s = s /\ job'.then = "dump"
    <2>1. CASE Busy(e)
      BY <1>1, <1>2, <1>7, <2>1 DEF Job
    <2>2. CASE ~Busy(e)
      BY <1>1, <1>2, <2>2 DEF Job
    <2> QED BY <2>1, <2>2
  <1> QED BY <1>1, <1>2, <1>6, <1>8, StillPrunes

LEMMA ClosePrunes ==
  ASSUME IInv, PruneInv, Close
  PROVE  PruneInv'
  <1>1. /\ UNCHANGED <<sz, stack, hist>> /\ job.at = "close"
        /\ job' = [job EXCEPT !.at = job.then, !.then = "none"]
    BY DEF Close
  <1>2. /\ job'.at = job.then /\ job'.todo = job.todo /\ job'.prune = job.prune
        /\ job'.break = job.break /\ job'.size = job.size
    BY <1>1 DEF IInv, TypeOK, Job
  <1> SUFFICES ASSUME job.prune
               PROVE  PruneInv'
    BY <1>2 DEF PruneInv
  <1>3. slot'[job.s].pid = NoPid /\ \A s \in Slots \ {job.s} : slot'[s] = slot[s]
    BY CloseTidies
  <1>4. Linked' = Linked /\ Top' = Top /\ Linked \subseteq Slots
    BY <1>1, SlotNumbers DEF Linked, Top, IInv, TypeOK
  <1>5. ASSUME ~hist.reset, NEW s \in Linked, slot'[s].pid # NoPid, ~Busy(slot'[s])
        PROVE  s \in job.todo \/ slot'[s].pid \in stack[Top].before \cup hist.hurt
    <2>1. s # job.s /\ slot'[s] = slot[s]
      BY <1>3, <1>4, <1>5
    <2> QED BY <1>5, <2>1 DEF PruneInv
  <1>6. job.then = "dump" /\ ~job.break /\ job.size = 0
    BY <1>1 DEF PruneInv
  <1> QED BY <1>1, <1>2, <1>4, <1>5, <1>6 DEF PruneInv

LEMMA NoJobPrunes ==
  /\ ~NoJob.prune
  /\ \A f : ~[NoJob EXCEPT !.at = f].prune
  BY DEF NoJob

LEMMA NextPrunes ==
  ASSUME IInv, NumbersInv, PruneInv, [Next]_vars
  PROVE  PruneInv'
  <1>1. CASE Back
    <2>1. \/ ~job'.prune
          \/ job.at = "unwind" /\ job' = job
          \/ \E n \in 1..Top : Left(n, n) /\ job' = Restored(n)
      BY <1>1, BackKeeps
    <2>2. CASE ~job'.prune
      BY <2>2 DEF PruneInv
    <2>3. CASE job.at = "unwind" /\ job' = job
      <3>1. ~job'.prune
        BY <2>3 DEF PruneInv
      <3> QED BY <3>1 DEF PruneInv
    <2>4. ASSUME NEW n \in 1..Top, Left(n, n), job' = Restored(n)
          PROVE  PruneInv'
      <3>1. Len(stack') = n /\ stack'[n].before = stack[n].before
        <4>1. n \in 1..n
          BY CacheAssumption DEF IInv, TypeOK
        <4> QED BY <2>4, <4>1 DEF Left
      <3> QED BY <1>1, <2>4, <3>1, BackNumbers, RestoredPrune
    <2> QED BY <2>1, <2>2, <2>3, <2>4
  <1>2. CASE DumpNext \/ Close
    BY <1>2, DumpPrunes, ClosePrunes
  <1>3. CASE FindReuse \/ FindStale \/ FindNone \/ GetSlot \/ Spawn \/ Stat
    <2>1. ~job.prune
      BY <1>3 DEF PruneInv, FindReuse, FindStale, FindNone, GetSlot, Spawn, Stat
    <2>2. job'.prune = job.prune
      BY <1>3 DEF FindReuse, FindStale, FindNone, GetSlot, Spawn, Stat, IInv, TypeOK, Job
    <2> QED BY <2>1, <2>2 DEF PruneInv
  <1>4. CASE Start \/ StartFails \/ CloseFails \/ DumpEnd \/ Interrupt
    <2>1. job' = NoJob \/ job' = [NoJob EXCEPT !.at = "raise"]
      BY <1>4, Zenon DEF Start, StartFails, CloseFails, SeenDead, DumpEnd, Interrupt
    <2> QED BY <2>1, NoJobPrunes DEF PruneInv
  <1>5. CASE StartLocked \/ Resize \/ (\E x \in Exe : Run(x)) \/ FlushAll \/ FlushOne
             \/ (\E n \in Sizes : SetCache(n))
    <2>1. ~job'.prune
      <3>1. CASE StartLocked
        <4>1. PICK x : job' = Again(x)
          BY <3>1 DEF StartLocked
        <4> DEFINE j == [NoJob EXCEPT !.at = "find", !.use = "relock", !.exe = x,
                                      !.again = job.again \ {x}]
        <4>2. NoJob.at = "none" /\ j.prune = NoJob.prune
          BY DEF NoJob
        <4>3. job' = NoJob \/ job' = j
          BY <4>1, Zenon DEF Again
        <4> HIDE DEF j
        <4>4. ~NoJob.prune
          BY NoJobPrunes
        <4> QED BY <4>2, <4>3, <4>4
      <3>2. CASE Resize
        <4>1. \/ job' = NoJob
              \/ \E again, x : job' = [NoJob EXCEPT !.at = "find", !.use = "relock", !.exe = x,
                                                    !.again = again \ {x}]
          BY <3>2, Zenon DEF Resize
        <4>2. \A again, x : ~[NoJob EXCEPT !.at = "find", !.use = "relock", !.exe = x,
                                           !.again = again \ {x}].prune
          BY DEF NoJob
        <4> QED BY <4>1, <4>2, NoJobPrunes
      <3>3. CASE \E x \in Exe : Run(x)
        BY <3>3 DEF Run, NoJob
      <3>4. CASE FlushAll \/ FlushOne
        BY <3>4, FlushCases DEF Flush, NoJob
      <3>5. CASE \E n \in Sizes : SetCache(n)
        BY <3>5 DEF SetCache, NoJob
      <3> QED BY <1>5, <3>1, <3>2, <3>3, <3>4, <3>5
    <2> QED BY <2>1 DEF PruneInv
  <1>6. CASE (\E x \in Exe : CacheTask(x)) \/ RunScript \/ DefinePackage \/ RunCl
    <2>1. job.at = "none" /\ ~job.prune
      <3>1. job.at = "none"
        BY <1>6, Zenon DEF CacheTask, RunScript, DefinePackage, RunCl
      <3> QED BY <3>1 DEF PruneInv
    <2>2. job' = job \/ ~job'.prune
      <3>1. ASSUME NEW x \in Exe, CacheTask(x)
            PROVE  \/ job' = job
                   \/ job' = [NoJob EXCEPT !.at = "find", !.exe = x, !.use = "lock"]
        BY <3>1, Zenon DEF CacheTask
      <3>2. \A x : ~[NoJob EXCEPT !.at = "find", !.exe = x, !.use = "lock"].prune
        BY DEF NoJob
      <3>3. CASE RunScript \/ DefinePackage \/ RunCl
        BY <3>3 DEF RunScript, DefinePackage, RunCl
      <3>4. ASSUME NEW x \in Exe, CacheTask(x)
            PROVE  job' = job \/ ~job'.prune
        BY <3>1, <3>2, <3>4
      <3> QED BY <1>6, <3>3, <3>4, Zenon
    <2>3. ~job'.prune
      BY <2>1, <2>2
    <2> QED BY <2>3 DEF PruneInv
  <1>7. CASE Environment
    <2>1. hist'.reset = hist.reset /\ hist'.hurt = hist.hurt
      BY <1>7 DEF Environment, IInv, TypeOK
    <2>2. ASSUME NEW p \in Pid, ChildDies(p)
          PROVE  PruneInv'
      <3>1. UNCHANGED <<sz, slot, stack, job>>
        BY <2>2, DeathKeeps
      <3> QED BY <2>1, <3>1, StillPrunes
    <2>3. ASSUME NEW x \in Exe, Relink(x)
          PROVE  PruneInv'
      <3>1. job'.prune = job.prune /\ job'.break = job.break
        BY <2>3 DEF Relink, IInv, TypeOK, Job
      <3> QED BY <2>1, <2>3, <3>1, RelinkKeeps, StillPrunes
    <2> QED BY <1>7, <2>2, <2>3 DEF Environment
  <1>8. CASE UNCHANGED vars
    BY <1>8 DEF vars, PruneInv, Linked, Top
  <1> QED BY <1>1, <1>2, <1>3, <1>4, <1>5, <1>6, <1>7, <1>8
      DEF Next, Step, Command, Back, Failure

\* When a package is unloaded, and the prune is not interrupted, no idle unlocked
\* process is left that was connected since it was loaded, whatever was started,
\* locked, flushed, relinked or interrupted meanwhile, unless a forced flush has
\* begun the process numbers anew (clpackage, restor, pr_prunecache).
THEOREM PackagesArePruned == Spec => PruneComplete
  <1> DEFINE Pruned ==
        job.at = "dump" /\ job.prune /\ job.todo = {} /\ job'.at = "none" /\ ~hist.reset
        => \A s \in Linked : slot[s].pid # NoPid /\ ~Busy(slot[s])
             => slot[s].pid \in stack[Top].before \cup hist.hurt
  <1>1. PruneInv => Pruned
    BY DEF PruneInv
  <1>2. Init => NumbersInv /\ PruneInv
    <2> SUFFICES ASSUME Init
                 PROVE  NumbersInv /\ PruneInv
      OBVIOUS
    <2>1. Top = 1 /\ stack[1].pno = 0
      BY DEF Init, Top, NewTask
    <2>2. NumbersInv
      BY <2>1 DEF NumbersInv
    <2> QED BY <2>2, NoJobPrunes DEF Init, PruneInv
  <1>3. Spec => [][Pruned]_vars
    <2> HIDE DEF Pruned
    <2> QED BY <1>1, <1>2, InitInv, NextInv, NextNumbers, NextPrunes, PTL DEF Spec
  <1> QED BY <1>3 DEF PruneComplete

=============================================================================
