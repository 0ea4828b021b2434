---------------------------- MODULE BkgJobsProofs ---------------------------
(***************************************************************************)
(* What holds of the background jobs for every number of jobs, slots and   *)
(* queries.                                                                *)
(***************************************************************************)
EXTENDS BkgJobs, LeastElement, TLAPS

-----------------------------------------------------------------------------
(* The records of the state.                                               *)

LEMMA RecordTypes ==
  /\ Unused \in Slot /\ ~Unused.running /\ ~Unused.service /\ Unused.pids = {}
  /\ NoJob \in Job /\ NoJob.at = "none"
  /\ Idle.at = "none" /\ Idle.slot \in Slots
  /\ Idle \in Cl
  /\ \A e \in Slot : /\ bkg_close(e) \in Slot /\ ~bkg_close(e).running
                     /\ ~bkg_close(e).service /\ bkg_close(e).pids = {}
  <1>1. 1 \in Slots /\ 1 \in 0..NBKG /\ 0 \in 0..MaxQueries
    BY JobsAssumption DEF Slots
  <1>2. Unused \in Slot /\ ~Unused.running /\ ~Unused.service /\ Unused.pids = {}
    BY DEF Unused, Slot
  <1>3. NoJob \in Job /\ NoJob.at = "none"
    BY <1>1 DEF NoJob, Job, NoFile
  <1>4. Idle.at = "none" /\ Idle.slot \in Slots /\ Idle \in Cl
    BY <1>1 DEF Idle, NoFile, Cl
  <1>5. ASSUME NEW e \in Slot
        PROVE  /\ bkg_close(e) \in Slot /\ ~bkg_close(e).running
               /\ ~bkg_close(e).service /\ bkg_close(e).pids = {}
    BY DEF bkg_close, Slot
  <1> QED BY <1>2, <1>3, <1>4, <1>5

LEMMA UpdatedType ==
  ASSUME TypeOK
  PROVE  /\ Updated \in [Slots -> Slot] /\ Reaped \in [Pid -> Job]
         /\ \A j \in Slots : Updated[j].service => Updated[j].running
  <1>1. Reaped \in [Pid -> Job]
    BY RecordTypes DEF Reaped, TypeOK, Job
  <1>2. ASSUME NEW j \in Slots
        PROVE  Updated[j] \in Slot /\ (Updated[j].service => Updated[j].running)
    <2>1. jobtable[j] \in Slot /\ wfservice(j) \in BOOLEAN
      BY DEF TypeOK, Slot, wfservice
    <2>2. CASE Done(j)
      BY <2>1, <2>2, RecordTypes DEF Updated
    <2>3. CASE ~Done(j) /\ busy(j)
      <3>1. Updated[j] = [jobtable[j] EXCEPT !.service = wfservice(j)]
        BY <2>3 DEF Updated
      <3> QED BY <2>1, <2>3, <3>1 DEF Slot, busy
    <2>4. CASE ~Done(j) /\ ~busy(j)
      BY <2>1, <2>4 DEF Updated, TypeOK
    <2> QED BY <2>2, <2>3, <2>4
  <1>3. Updated = [j \in Slots |-> Updated[j]]
    BY DEF Updated
  <1> QED BY <1>1, <1>2, <1>3

\* The slot for a new job is one of the table, and no job is in it.
LEMMA NewSlotFree ==
  ASSUME TypeOK, FreeSlots # {}
  PROVE  NewSlot \in Slots /\ ~Updated[NewSlot].running
  <1> DEFINE k == CHOOSE i \in FreeSlots : \A l \in FreeSlots : i <= l
  <1>1. Tries \subseteq Nat \ {0}
    BY JobsAssumption DEF Tries
  <1>2. k \in FreeSlots
    BY <1>1, LeastIsMember DEF FreeSlots
  <1>3. k \in Nat \ {0} /\ ~Updated[Try(k)].running
    BY <1>1, <1>2 DEF FreeSlots
  <1>4. NewSlot = Try(k)
    BY DEF NewSlot
  <1> HIDE DEF k
  <1>5. lastjobno + k - 1 \in Nat
    BY <1>3 DEF TypeOK
  <1>6. (lastjobno + k - 1) % NBKG \in 0..(NBKG - 1)
    BY <1>5, JobsAssumption
  <1>7. Try(k) \in Slots
    BY <1>6, JobsAssumption DEF Try, Slots
  <1> QED BY <1>3, <1>4, <1>7

-----------------------------------------------------------------------------
(* Types.                                                                  *)

LEMMA FileType ==
  ASSUME NEW f \in [Slots -> 0..MaxQueries], NEW i
  PROVE  [f EXCEPT ![i] = NoFile] \in [Slots -> 0..MaxQueries]
  <1>1. NoFile \in 0..MaxQueries
    BY JobsAssumption DEF NoFile
  <1> QED BY <1>1

LEMMA InitType == Init => TypeOK
  <1> SUFFICES ASSUME Init
               PROVE  TypeOK
    OBVIOUS
  <1>1. jobtable \in [Slots -> Slot] /\ \A j \in Slots : ~jobtable[j].service
    BY RecordTypes DEF Init
  <1>2. job \in [Pid -> Job]
    BY RecordTypes DEF Init
  <1>3. /\ lastjobno \in 0..NBKG
        /\ bqfile \in [Slots -> 0..MaxQueries] /\ qrfile \in [Slots -> 0..MaxQueries]
    BY JobsAssumption DEF Init, NoFile
  <1>4. cl \in Cl /\ cl.slot \in Slots
    BY RecordTypes DEF Init
  <1>5. hist \in History /\ written = {}
    BY JobsAssumption DEF Init, History
  <1> QED BY <1>1, <1>2, <1>3, <1>4, <1>5 DEF TypeOK, Slot, Job, Cl, History

\* What an operation does that begins with an update.
LEMMA UpdateType ==
  ASSUME TypeOK, jobtable' = Updated, job' = Reaped,
         cl' \in Cl, cl'.slot \in Slots \/ cl'.at = "wait",
         bqfile' = bqfile, qrfile' = qrfile, UNCHANGED <<lastjobno, written, hist>>
  PROVE  TypeOK'
  BY UpdatedType DEF TypeOK, Slot, Job, Cl

\* bkg_delfiles.
LEMMA FilesDeleted ==
  ASSUME TypeOK, bkg_delfiles
  PROVE  /\ bqfile' \in [Slots -> 0..MaxQueries] /\ qrfile' \in [Slots -> 0..MaxQueries]
         /\ hist' \in History
  <1>1. hist' \in History
    BY DEF bkg_delfiles, TypeOK, History
  <1> QED BY <1>1, FileType DEF bkg_delfiles, TypeOK

LEMMA SpawnType ==
  ASSUME TypeOK, NEW p \in Pid, bkg_spawn(p)
  PROVE  TypeOK'
  <1>1. NewSlot \in Slots
    BY NewSlotFree DEF bkg_spawn
  <1>2. [Unused EXCEPT !.running = TRUE, !.pids = {p}] \in Slot
    BY RecordTypes DEF Slot
  <1>3. [Unused EXCEPT !.running = TRUE, !.pids = {p}].service = FALSE
    BY DEF Unused
  <1>4. /\ jobtable' \in [Slots -> Slot]
        /\ \A j \in Slots : jobtable'[j].service => jobtable'[j].running
    BY <1>1, <1>2, <1>3, UpdatedType DEF bkg_spawn
  <1>5. [at |-> "run", slot |-> NewSlot, query |-> NoFile] \in Job
    BY <1>1, JobsAssumption DEF Job, NoFile
  <1>6. job' \in [Pid -> Job]
    BY <1>5, UpdatedType DEF bkg_spawn
  <1>7. /\ bqfile' \in [Slots -> 0..MaxQueries] /\ qrfile' \in [Slots -> 0..MaxQueries]
        /\ hist' \in History
    BY FilesDeleted DEF bkg_spawn
  <1>8. lastjobno' \in 0..NBKG
    BY <1>1 DEF bkg_spawn, Slots
  <1> QED BY <1>4, <1>6, <1>7, <1>8 DEF bkg_spawn, TypeOK, Slot, Job, History

LEMMA SpawnFailsType ==
  ASSUME TypeOK, SpawnFails
  PROVE  TypeOK'
  <1>1. /\ bqfile' \in [Slots -> 0..MaxQueries] /\ qrfile' \in [Slots -> 0..MaxQueries]
        /\ hist' \in History
    <2>1. CASE UNCHANGED <<bqfile, qrfile, hist>>
      BY <2>1 DEF TypeOK, History
    <2>2. CASE bkg_delfiles
      BY <2>2, FilesDeleted
    <2> QED BY <2>1, <2>2 DEF SpawnFails
  <1> QED BY <1>1, UpdatedType DEF SpawnFails, TypeOK, Slot, Job, History

LEMMA KillType ==
  ASSUME TypeOK, NEW j \in Slots, bkg_kill(j)
  PROVE  TypeOK'
  <1> DEFINE e == [bkg_close(Updated[j]) EXCEPT !.killed = TRUE]
  <1>1. e \in Slot /\ ~e.service
    BY UpdatedType, RecordTypes DEF Slot
  <1>2. jobtable' = [Updated EXCEPT ![j] = e]
    BY DEF bkg_kill
  <1> HIDE DEF e
  <1>3. /\ jobtable' \in [Slots -> Slot]
        /\ \A i \in Slots : jobtable'[i].service => jobtable'[i].running
    BY <1>1, <1>2, UpdatedType
  <1>4. job' \in [Pid -> Job]
    BY RecordTypes, UpdatedType DEF bkg_kill
  <1> QED BY <1>3, <1>4 DEF bkg_kill, TypeOK, Slot, Job

\* The steps of the jobs.
LEMMA JobStepType ==
  ASSUME TypeOK, NEW p \in Pid, JobStep(p) \/ Crash(p)
  PROVE  TypeOK'
  <1>1. job[p].slot \in Slots /\ File(p) \in Slots /\ job[p].query \in 0..MaxQueries
    BY DEF TypeOK, Job, File, get_bkgqfiles
  <1>2. NoFile \in 0..MaxQueries
    BY JobsAssumption DEF NoFile
  <1>3. CASE Ask(p)
    <2>1. hist.queries + 1 \in 0..MaxQueries
      BY <1>3, JobsAssumption DEF Ask, TypeOK, History
    <2>2. hist' \in History
      BY <1>3, <2>1 DEF Ask, TypeOK, History
    <2>3. job' \in [Pid -> Job]
      <3> DEFINE jb == [job[p] EXCEPT !.at = "create", !.query = hist.queries + 1]
      <3>1. jb \in Job
        BY <2>1 DEF TypeOK, Job
      <3>2. job' = [job EXCEPT ![p] = jb]
        BY <1>3 DEF Ask
      <3> HIDE DEF jb
      <3> QED BY <3>1, <3>2 DEF TypeOK
    <2>4. bqfile' \in [Slots -> 0..MaxQueries]
      BY <1>1, <1>2, <1>3 DEF Ask, TypeOK
    <2> QED BY <1>3, <2>2, <2>3, <2>4 DEF Ask, TypeOK
  <1>4. CASE Crash(p)
    <2>1. hist' \in History
      BY <1>4, JobsAssumption DEF Crash, TypeOK, History
    <2>2. job' \in [Pid -> Job]
      BY <1>4 DEF Crash, TypeOK, Job
    <2> QED BY <1>4, <2>1, <2>2 DEF Crash, TypeOK
  <1>5. ASSUME NEW from,
               NEW to \in {"none", "run", "create", "clear", "write", "poll", "read",
                           "exited", "crashed"},
               Goes(p, from, to)
        PROVE  job' \in [Pid -> Job]
    BY <1>5 DEF Goes, TypeOK, Job
  <1>6. CASE Create(p)
    BY <1>1, <1>5, <1>6 DEF Create, TypeOK, Job
  <1>7. CASE Clear(p)
    BY <1>1, <1>2, <1>5, <1>7 DEF Clear, TypeOK, Job
  <1>8. CASE Poll(p)
    BY <1>5, <1>8 DEF Poll, TypeOK, Job
  <1>9. CASE Read(p)
    BY <1>1, <1>2, <1>5, <1>9 DEF Read, TypeOK, Job
  <1>10. CASE Timeout(p)
    BY <1>1, <1>2, <1>5, <1>10 DEF Timeout, TypeOK, Job
  <1>11. CASE Exit(p)
    BY <1>5, <1>11 DEF Exit, TypeOK, Job
  <1>12. CASE Write(p)
    BY <1>1, <1>5, <1>12 DEF Write, TypeOK, Job
  <1> QED BY <1>3, <1>4, <1>6, <1>7, <1>8, <1>9, <1>10, <1>11, <1>12 DEF JobStep

LEMMA NextType == TypeOK /\ [Next]_vars => TypeOK'
  <1> SUFFICES ASSUME TypeOK, [Next]_vars
               PROVE  TypeOK'
    OBVIOUS
  <1>1. CASE bkg_update
    BY <1>1, UpdateType, RecordTypes DEF bkg_update
  <1>2. ASSUME NEW j \in Slots \cup {0}, bkg_wait(j)
        PROVE  TypeOK'
    <2>1. j \in 0..NBKG
      BY JobsAssumption DEF Slots
    <2>2. cl' \in Cl /\ cl'.at = "wait"
      BY <1>2, <2>1, RecordTypes DEF bkg_wait, Cl
    <2> QED BY <1>2, <2>2 DEF bkg_wait, TypeOK
  <1>3. CASE WaitLoop
    BY <1>3, UpdateType, RecordTypes DEF WaitLoop, TypeOK
  <1>4. ASSUME NEW j \in Slots, service_bkgquery(j)
        PROVE  TypeOK'
    <2>1. cl' \in Cl /\ cl'.slot \in Slots
      BY <1>4, RecordTypes DEF service_bkgquery, TypeOK, get_bkgqfiles, Slots, Cl
    <2> QED BY <1>4, <2>1, UpdateType DEF service_bkgquery
  <1>5. CASE Respond
    <2>1. cl' \in Cl /\ cl'.slot \in Slots
      BY <1>5 DEF Respond, TypeOK, Cl
    <2>2. hist' \in History
      BY <1>5 DEF Respond, TypeOK, Cl, History
    <2>3. qrfile' \in [Slots -> 0..MaxQueries]
      BY <1>5 DEF Respond, TypeOK, Cl
    <2> QED BY <1>5, <2>1, <2>2, <2>3 DEF Respond, TypeOK, Cl, History
  <1>6. CASE DeleteQuery
    BY <1>6, RecordTypes, FileType DEF DeleteQuery, TypeOK, Cl
  <1>7. CASE Interrupt
    <2>1. hist' \in History
      <3>1. hist.events + 1 \in 0..MaxEvents
        BY <1>7, JobsAssumption DEF Interrupt, TypeOK, History
      <3>2. cl.at = "responded" => cl.slot \in Slots
        BY DEF TypeOK
      <3> QED BY <1>7, <3>1, <3>2 DEF Interrupt, TypeOK, History
    <2> QED BY <1>7, <2>1, RecordTypes DEF Interrupt, TypeOK, Cl, History
  <1>8. CASE UNCHANGED vars
    BY <1>8 DEF vars, TypeOK
  <1> QED BY <1>1, <1>2, <1>3, <1>4, <1>5, <1>6, <1>7, <1>8,
             SpawnType, SpawnFailsType, KillType, JobStepType DEF Next

\* Every state is well typed; a job that is not running is never marked as one
\* that has a query (bkg_close).
THEOREM TypeCorrect == Spec => []TypeOK
  BY InitType, NextType, PTL DEF Spec

-----------------------------------------------------------------------------
(* The invariant.                                                          *)

\* The jobs are the processes in the slots, at most one in each.
ListedIn(table, jobs) ==
    /\ \A p \in Pid, j \in Slots :
          p \in table[j].pids <=> jobs[p].at # "none" /\ jobs[p].slot = j
    /\ \A j \in Slots : /\ table[j].running <=> table[j].pids # {}
                        /\ \A p, q \in table[j].pids : p = q

Listed == ListedIn(jobtable, job)

Prompts(j) == cl.at = "prompt" /\ cl.slot = j
Responded(j) == cl.at = "responded" /\ cl.slot = j

\* How far the question of a job is answered.  A query file that is there when
\* the job is at no question, or has the response, is one the CL is about to
\* delete: it is not shown again.
Asked(p) ==
    LET j == job[p].slot
        q == job[p].query
    IN  j \notin hist.left =>
        /\ job[p].at = "run" => ~Prompts(j) /\ (bqfile[j] = NoFile \/ Responded(j))
        /\ job[p].at = "create" => ~Prompts(j) /\ bqfile[j] = NoFile
        /\ job[p].at = "clear" => bqfile[j] \in {NoFile, q} /\ (Prompts(j) => cl.query = q)
        /\ job[p].at \in {"write", "poll"} =>
              /\ bqfile[j] \in {NoFile, q} /\ qrfile[j] \in {NoFile, q}
              /\ Prompts(j) => cl.query = q /\ qrfile[j] = NoFile
              /\ qrfile[j] # NoFile => bqfile[j] = NoFile \/ Responded(j)
        /\ job[p].at = "read" =>
              /\ ~Prompts(j) /\ qrfile[j] = q
              /\ bqfile[j] = NoFile \/ Responded(j)

IInv == TypeOK /\ Listed /\ \A p \in Pid : Asked(p)

LEMMA InitIInv == Init => IInv
  <1> SUFFICES ASSUME Init
               PROVE  IInv
    OBVIOUS
  <1>1. Listed
    BY RecordTypes DEF Init, Listed, ListedIn
  <1>2. \A p \in Pid : Asked(p)
    BY RecordTypes DEF Init, Asked
  <1> QED BY <1>1, <1>2, InitType DEF IInv

-----------------------------------------------------------------------------
(* The slots.                                                              *)

\* An update closes the slots of the jobs it has waited for.
LEMMA UpdatedListed ==
  ASSUME TypeOK, Listed
  PROVE  ListedIn(Updated, Reaped)
  <1>1. \A j \in Slots : jobtable[j] \in Slot
    BY DEF TypeOK, Slot
  <1>2. ASSUME NEW j \in Slots
        PROVE  /\ Done(j) => Updated[j].pids = {} /\ ~Updated[j].running
               /\ ~Done(j) => /\ Updated[j].pids = jobtable[j].pids
                              /\ Updated[j].running = jobtable[j].running
    BY <1>1, RecordTypes DEF Updated, busy, Slot
  <1>3. ASSUME NEW p \in Pid
        PROVE  /\ job[p].at = "exited" => Reaped[p].at = "none"
               /\ job[p].at # "exited" => Reaped[p] = job[p]
    BY RecordTypes DEF Reaped
  <1>4. \A p \in Pid, j \in Slots : p \in jobtable[j].pids => (Done(j) <=> job[p].at = "exited")
    BY DEF Done, busy, Listed, ListedIn
  <1>5. \A p \in Pid, j \in Slots :
           p \in Updated[j].pids <=> Reaped[p].at # "none" /\ Reaped[p].slot = j
    BY <1>2, <1>3, <1>4 DEF Listed, ListedIn
  <1>6. \A j \in Slots : /\ Updated[j].running <=> Updated[j].pids # {}
                        /\ \A p, q \in Updated[j].pids : p = q
    BY <1>2 DEF Listed, ListedIn
  <1> QED BY <1>5, <1>6 DEF ListedIn

\* A step that neither starts nor ends a process leaves the slots alone.
LEMMA SameListed ==
  ASSUME Listed, jobtable' = jobtable,
         \A p \in Pid : /\ job'[p].at = "none" <=> job[p].at = "none"
                       /\ job'[p].slot = job[p].slot
  PROVE  Listed'
  BY DEF Listed, ListedIn

LEMMA SpawnListed ==
  ASSUME TypeOK, Listed, NEW p \in Pid, bkg_spawn(p)
  PROVE  Listed'
  <1> DEFINE n == NewSlot
             e == [Unused EXCEPT !.running = TRUE, !.pids = {p}]
             jb == [at |-> "run", slot |-> n, query |-> NoFile]
  <1>1. n \in Slots /\ ~Updated[n].running /\ ListedIn(Updated, Reaped)
    BY NewSlotFree, UpdatedListed DEF bkg_spawn
  <1>2. e.running = TRUE /\ e.pids = {p} /\ jb.at = "run" /\ jb.slot = n
    BY DEF Unused
  <1>3. /\ jobtable' = [Updated EXCEPT ![n] = e] /\ job' = [Reaped EXCEPT ![p] = jb]
        /\ Reaped[p].at = "none"
    BY DEF bkg_spawn
  <1> HIDE DEF n, e, jb
  <1>4. /\ jobtable'[n] = e /\ \A j \in Slots \ {n} : jobtable'[j] = Updated[j]
        /\ job'[p] = jb /\ \A q \in Pid \ {p} : job'[q] = Reaped[q]
    BY <1>1, <1>3, UpdatedType
  <1>5. \A q \in Pid, j \in Slots :
           q \in jobtable'[j].pids <=> job'[q].at # "none" /\ job'[q].slot = j
    BY <1>1, <1>2, <1>3, <1>4 DEF ListedIn
  <1>6. \A j \in Slots : /\ jobtable'[j].running <=> jobtable'[j].pids # {}
                        /\ \A q, r \in jobtable'[j].pids : q = r
    BY <1>1, <1>2, <1>4 DEF ListedIn
  <1> QED BY <1>5, <1>6 DEF Listed, ListedIn

LEMMA KillListed ==
  ASSUME TypeOK, Listed, NEW k \in Slots, bkg_kill(k)
  PROVE  Listed'
  <1> DEFINE e == [bkg_close(Updated[k]) EXCEPT !.killed = TRUE]
  <1>1. ListedIn(Updated, Reaped)
    BY UpdatedListed
  <1>2. ~e.running /\ e.pids = {}
    BY UpdatedType, RecordTypes DEF Slot
  <1>3. jobtable' = [Updated EXCEPT ![k] = e]
    BY DEF bkg_kill
  <1> HIDE DEF e
  <1>4. /\ jobtable'[k] = e /\ \A j \in Slots \ {k} : jobtable'[j] = Updated[j]
        /\ \A p \in Updated[k].pids \cap Pid : job'[p].at = "none"
        /\ \A p \in Pid \ Updated[k].pids : job'[p] = Reaped[p]
    BY <1>3, UpdatedType, RecordTypes DEF bkg_kill
  <1>5. \A q \in Pid, j \in Slots :
           q \in jobtable'[j].pids <=> job'[q].at # "none" /\ job'[q].slot = j
    BY <1>1, <1>2, <1>4 DEF ListedIn
  <1>6. \A j \in Slots : /\ jobtable'[j].running <=> jobtable'[j].pids # {}
                        /\ \A q, r \in jobtable'[j].pids : q = r
    BY <1>1, <1>2, <1>4 DEF ListedIn
  <1> QED BY <1>5, <1>6 DEF Listed, ListedIn

\* What a step of a job does to the jobs.
LEMMA JobStepJobs ==
  ASSUME TypeOK, NEW p \in Pid, JobStep(p) \/ Crash(p)
  PROVE  /\ jobtable' = jobtable /\ cl' = cl
         /\ hist'.left = hist.left \/ (Ask(p) /\ hist'.left = hist.left \ {job[p].slot})
         /\ job[p].at # "none" /\ job'[p].at # "none" /\ job'[p].slot = job[p].slot
         /\ \A q \in Pid \ {p} : job'[q] = job[q]
  <1>1. /\ job \in [Pid -> Job]
        /\ hist \in History
    BY DEF TypeOK, Job, History
  <1>2. CASE Ask(p)
    BY <1>1, <1>2 DEF Ask, Job, History
  <1>3. CASE Crash(p)
    BY <1>1, <1>3 DEF Crash, Job, History
  <1>4. CASE Create(p) \/ Clear(p) \/ Write(p) \/ Poll(p) \/ Read(p) \/ Timeout(p) \/ Exit(p)
    <2>1. /\ Goes(p, "create", "clear") \/ Goes(p, "clear", "write") \/ Goes(p, "write", "poll")
             \/ Goes(p, "poll", "read")
             \/ Goes(p, "read", "run") \/ Goes(p, "poll", "exited") \/ Goes(p, "run", "exited")
          /\ jobtable' = jobtable /\ cl' = cl /\ hist' = hist
      BY <1>4 DEF Create, Clear, Write, Poll, Read, Timeout, Exit
    <2> QED BY <1>1, <2>1 DEF Goes, Job
  <1> QED BY <1>2, <1>3, <1>4 DEF JobStep

LEMMA NextListed == TypeOK /\ Listed /\ [Next]_vars => Listed'
  <1> SUFFICES ASSUME TypeOK, Listed, [Next]_vars
               PROVE  Listed'
    OBVIOUS
  <1>1. CASE jobtable' = Updated /\ job' = Reaped
    BY <1>1, UpdatedListed DEF Listed, ListedIn
  <1>2. CASE UNCHANGED <<jobtable, job>>
    BY <1>2 DEF Listed, ListedIn
  <1>3. ASSUME NEW p \in Pid, JobStep(p) \/ Crash(p)
        PROVE  Listed'
    <2>1. \A q \in Pid : /\ job'[q].at = "none" <=> job[q].at = "none"
                        /\ job'[q].slot = job[q].slot
      BY <1>3, JobStepJobs
    <2> QED BY <1>3, <2>1, JobStepJobs, SameListed
  <1>4. CASE bkg_update \/ SpawnFails \/ WaitLoop \/ (\E j \in Slots : service_bkgquery(j))
    BY <1>1, <1>4 DEF bkg_update, SpawnFails, WaitLoop, service_bkgquery
  <1>5. CASE (\E j \in Slots \cup {0} : bkg_wait(j)) \/ Respond \/ DeleteQuery \/ Interrupt
    BY <1>2, <1>5 DEF bkg_wait, Respond, DeleteQuery, Interrupt
  <1> QED BY <1>2, <1>3, <1>4, <1>5, SpawnListed, KillListed DEF Next, vars

\* Whichever jobs end, crash or are killed, a job is in the slot its query files
\* are named for, and no two are in one.
THEOREM JobsAreListed == Spec => []JobsListed
  <1>1. TypeOK /\ Listed => JobsListed
    <2> SUFFICES ASSUME TypeOK, Listed
                 PROVE  JobsListed
      OBVIOUS
    <2>1. \A p \in Pid : job[p].slot \in Slots
      BY DEF TypeOK, Job
    <2> QED BY <2>1 DEF JobsListed, Listed, ListedIn, busy
  <1> QED BY <1>1, InitIInv, NextType, NextListed, PTL DEF Spec, IInv

-----------------------------------------------------------------------------
(* The questions.                                                          *)

\* A job that is gone asks nothing.
LEMMA NobodyAsks ==
  ASSUME NEW p, job'[p].at \in {"none", "exited", "crashed"}
  PROVE  Asked(p)'
  BY DEF Asked

\* A job whose files are left alone, and with which the CL does nothing.
LEMMA SameAsked ==
  ASSUME NEW p, Asked(p), job'[p] = job[p],
         job[p].slot \in hist.left => job[p].slot \in hist'.left,
         bqfile'[job[p].slot] = bqfile[job[p].slot],
         qrfile'[job[p].slot] = qrfile[job[p].slot],
         cl'.at = "prompt" /\ cl'.slot = job[p].slot =>
             cl.at = "prompt" /\ cl.slot = job[p].slot /\ cl'.query = cl.query,
         cl.at = "responded" /\ cl.slot = job[p].slot =>
             cl'.at = "responded" /\ cl'.slot = job[p].slot
  PROVE  Asked(p)'
  BY DEF Asked, Prompts, Responded

\* The update, while the CL shows no query.
LEMMA UpdateAsked ==
  ASSUME IInv, NEW p \in Pid, job'[p] = Reaped[p] \/ job'[p].at = "none",
         cl.at \in {"none", "wait"}, cl'.at \in {"none", "wait"},
         job'[p].slot \in hist.left => job'[p].slot \in hist'.left,
         job'[p].at # "none" => /\ bqfile'[job'[p].slot] = bqfile[job'[p].slot]
                               /\ qrfile'[job'[p].slot] = qrfile[job'[p].slot]
  PROVE  Asked(p)'
  <1>1. CASE job'[p].at = "none"
    BY <1>1, NobodyAsks
  <1>2. CASE job'[p].at # "none"
    <2>1. job'[p] = job[p]
      BY <1>2, RecordTypes DEF Reaped
    <2> QED BY <1>2, <2>1, SameAsked DEF IInv
  <1> QED BY <1>1, <1>2

LEMMA SpawnAsked ==
  ASSUME IInv, NEW p \in Pid, bkg_spawn(p)
  PROVE  \A q \in Pid : Asked(q)'
  <1>1. /\ NewSlot \in Slots /\ ~Updated[NewSlot].running /\ ListedIn(Updated, Reaped)
        /\ Reaped \in [Pid -> Job] /\ cl = Idle /\ Idle.at = "none" /\ cl' = cl
    BY NewSlotFree, UpdatedListed, UpdatedType, RecordTypes DEF bkg_spawn, IInv
  <1>2. /\ bqfile' = [bqfile EXCEPT ![NewSlot] = NoFile]
        /\ qrfile' = [qrfile EXCEPT ![NewSlot] = NoFile]
        /\ hist'.left = hist.left \ {NewSlot}
        /\ job' = [Reaped EXCEPT ![p] = [at |-> "run", slot |-> NewSlot, query |-> NoFile]]
    BY DEF bkg_spawn, bkg_delfiles, get_bkgqfiles, IInv, TypeOK
  <1>3. bqfile'[NewSlot] = NoFile /\ job'[p].at = "run" /\ job'[p].slot = NewSlot
    BY <1>1, <1>2 DEF IInv, TypeOK
  <1>4. Asked(p)'
    BY <1>1, <1>3 DEF Asked, Prompts
  <1>5. ASSUME NEW q \in Pid \ {p}
        PROVE  Asked(q)'
    <2>1. job'[q] = Reaped[q]
      BY <1>1, <1>2
    <2>2. job'[q].at # "none" => job'[q].slot # NewSlot
      BY <1>1, <2>1 DEF ListedIn
    <2>3. job'[q].at # "none" => /\ bqfile'[job'[q].slot] = bqfile[job'[q].slot]
                                /\ qrfile'[job'[q].slot] = qrfile[job'[q].slot]
      BY <1>1, <1>2, <2>1, <2>2 DEF IInv, TypeOK, Job
    <2>4. CASE job'[q].at = "none"
      BY <2>4, NobodyAsks
    <2>5. CASE job'[q].at # "none"
      BY <1>1, <1>2, <2>1, <2>2, <2>3, <2>5, UpdateAsked
    <2> QED BY <2>4, <2>5
  <1> QED BY <1>4, <1>5

LEMMA SpawnFailsAsked ==
  ASSUME IInv, SpawnFails
  PROVE  \A q \in Pid : Asked(q)'
  <1> SUFFICES ASSUME NEW q \in Pid
               PROVE  Asked(q)'
    OBVIOUS
  <1>1. /\ ListedIn(Updated, Reaped) /\ Reaped \in [Pid -> Job]
        /\ cl = Idle /\ Idle.at = "none" /\ cl' = cl /\ job' = Reaped
    BY UpdatedListed, UpdatedType, RecordTypes DEF SpawnFails, IInv
  <1>2. CASE UNCHANGED <<bqfile, qrfile, hist>>
    BY <1>1, <1>2, UpdateAsked
  <1>3. CASE FreeSlots # {} /\ bkg_delfiles
    <2>1. /\ NewSlot \in Slots /\ ~Updated[NewSlot].running
          /\ bqfile' = [bqfile EXCEPT ![NewSlot] = NoFile]
          /\ qrfile' = [qrfile EXCEPT ![NewSlot] = NoFile]
          /\ hist'.left = hist.left \ {NewSlot}
      BY <1>3, NewSlotFree DEF bkg_delfiles, get_bkgqfiles, IInv, TypeOK
    <2>2. job'[q].at # "none" => job'[q].slot # NewSlot
      BY <1>1, <2>1 DEF ListedIn
    <2>3. job'[q].at # "none" => /\ bqfile'[job'[q].slot] = bqfile[job'[q].slot]
                                /\ qrfile'[job'[q].slot] = qrfile[job'[q].slot]
      BY <1>1, <2>1, <2>2 DEF IInv, TypeOK, Job
    <2>4. CASE job'[q].at = "none"
      BY <2>4, NobodyAsks
    <2>5. CASE job'[q].at # "none"
      BY <1>1, <2>1, <2>2, <2>3, <2>5, UpdateAsked
    <2> QED BY <2>4, <2>5
  <1> QED BY <1>2, <1>3 DEF SpawnFails

LEMMA KillAsked ==
  ASSUME IInv, NEW j \in Slots, bkg_kill(j)
  PROVE  \A q \in Pid : Asked(q)'
  <1> SUFFICES ASSUME NEW q \in Pid
               PROVE  Asked(q)'
    OBVIOUS
  <1>1. job'[q] = Reaped[q] \/ job'[q].at = "none"
    BY RecordTypes DEF bkg_kill
  <1> QED BY <1>1, UpdateAsked, RecordTypes DEF bkg_kill

\* The query that is shown is the one of the job in the slot.
LEMMA ServiceAsked ==
  ASSUME IInv, NEW j \in Slots, service_bkgquery(j)
  PROVE  \A q \in Pid : Asked(q)'
  <1> SUFFICES ASSUME NEW q \in Pid
               PROVE  Asked(q)'
    OBVIOUS
  <1>1. /\ job' = Reaped /\ cl = Idle /\ Idle.at = "none" /\ hist' = hist
        /\ bqfile' = bqfile /\ qrfile' = qrfile
    BY RecordTypes DEF service_bkgquery
  <1>2. CASE bqfile[j] = NoFile
    BY <1>1, <1>2, UpdateAsked DEF service_bkgquery, get_bkgqfiles
  <1>3. CASE bqfile[j] # NoFile
    <2>1. cl'.at = "prompt" /\ cl'.slot = j /\ cl'.query = bqfile[j]
      BY <1>3 DEF service_bkgquery, get_bkgqfiles
    <2>2. CASE job[q].at = "exited"
      <3>1. job'[q].at = "none"
        BY <1>1, <2>2, RecordTypes DEF Reaped
      <3> QED BY <3>1, NobodyAsks
    <2>3. CASE job[q].at # "exited"
      <3>1. job'[q] = job[q] /\ Asked(q)
        BY <1>1, <2>3 DEF Reaped, IInv
      <3> QED BY <1>1, <1>3, <2>1, <3>1 DEF Asked, Prompts, Responded
    <2> QED BY <2>2, <2>3
  <1> QED BY <1>2, <1>3

LEMMA RespondAsked ==
  ASSUME IInv, Respond
  PROVE  \A q \in Pid : Asked(q)'
  <1> SUFFICES ASSUME NEW q \in Pid
               PROVE  Asked(q)'
    OBVIOUS
  <1>1. /\ job' = job /\ hist'.left = hist.left /\ bqfile' = bqfile /\ cl.at = "prompt"
        /\ cl'.at = "responded" /\ cl'.slot = cl.slot /\ cl'.query = cl.query
        /\ qrfile' = IF qrfile[cl.slot] = NoFile THEN [qrfile EXCEPT ![cl.slot] = cl.query]
                     ELSE qrfile
    BY DEF Respond, get_bkgqfiles, IInv, TypeOK
  <1>2. /\ \A j \in Slots \ {cl.slot} : qrfile'[j] = qrfile[j]
        /\ cl.slot \in Slots /\ (qrfile[cl.slot] = NoFile => qrfile'[cl.slot] = cl.query)
    BY <1>1 DEF IInv, TypeOK, Cl
  <1>3. Asked(q) /\ job[q].slot \in Slots
    BY DEF IInv, TypeOK, Job
  <1>4. CASE job[q].slot = cl.slot
    BY <1>1, <1>2, <1>3, <1>4 DEF Asked, Prompts, Responded
  <1>5. CASE job[q].slot # cl.slot
    BY <1>1, <1>2, <1>3, <1>5, SameAsked
  <1> QED BY <1>4, <1>5

LEMMA DeleteQueryAsked ==
  ASSUME IInv, DeleteQuery
  PROVE  \A q \in Pid : Asked(q)'
  <1> SUFFICES ASSUME NEW q \in Pid
               PROVE  Asked(q)'
    OBVIOUS
  <1>1. /\ job' = job /\ hist' = hist /\ qrfile' = qrfile /\ cl.at = "responded"
        /\ cl'.at = "none" /\ bqfile' = [bqfile EXCEPT ![cl.slot] = NoFile]
    BY RecordTypes DEF DeleteQuery, get_bkgqfiles
  <1>2. /\ \A j \in Slots \ {cl.slot} : bqfile'[j] = bqfile[j]
        /\ cl.slot \in Slots /\ bqfile'[cl.slot] = NoFile
    BY <1>1 DEF IInv, TypeOK, Cl
  <1>3. Asked(q) /\ job[q].slot \in Slots
    BY DEF IInv, TypeOK, Job
  <1>4. CASE job[q].slot = cl.slot
    BY <1>1, <1>2, <1>3, <1>4 DEF Asked, Prompts, Responded
  <1>5. CASE job[q].slot # cl.slot
    BY <1>1, <1>2, <1>3, <1>5, SameAsked
  <1> QED BY <1>4, <1>5

LEMMA InterruptAsked ==
  ASSUME IInv, Interrupt
  PROVE  \A q \in Pid : Asked(q)'
  <1> SUFFICES ASSUME NEW q \in Pid
               PROVE  Asked(q)'
    OBVIOUS
  <1>1. /\ job' = job /\ qrfile' = qrfile /\ bqfile' = bqfile /\ cl'.at = "none"
        /\ hist'.left = IF cl.at = "responded" THEN hist.left \cup {cl.slot} ELSE hist.left
    BY RecordTypes DEF Interrupt, IInv, TypeOK
  <1>2. Asked(q)
    BY DEF IInv
  <1> QED BY <1>1, <1>2 DEF Asked, Prompts, Responded

\* A step of a job moves its own question on; the files of the others are
\* not its files.
LEMMA JobStepAsked ==
  ASSUME IInv, NEW p \in Pid, JobStep(p) \/ Crash(p)
  PROVE  \A q \in Pid : Asked(q)'
  <1> DEFINE s == job[p].slot
  <1>1. /\ cl' = cl
        /\ hist'.left = hist.left \/ (Ask(p) /\ hist'.left = hist.left \ {s})
        /\ job[p].at # "none" /\ job'[p].at # "none" /\ job'[p].slot = s
        /\ \A q \in Pid \ {p} : job'[q] = job[q]
    BY JobStepJobs DEF IInv
  <1>2. /\ s \in Slots /\ File(p) = s /\ Asked(p) /\ job \in [Pid -> Job]
        /\ bqfile \in [Slots -> 0..MaxQueries] /\ qrfile \in [Slots -> 0..MaxQueries]
    BY DEF IInv, TypeOK, File, get_bkgqfiles, Job
  <1>3. \A j \in Slots \ {s} : bqfile'[j] = bqfile[j] /\ qrfile'[j] = qrfile[j]
    <2>1. CASE Ask(p) \/ Create(p) \/ Timeout(p)
      BY <1>2, <2>1 DEF Ask, Create, Timeout
    <2>2. CASE Clear(p) \/ Read(p)
      BY <1>2, <2>2 DEF Clear, Read
    <2>3. CASE Write(p) \/ Poll(p) \/ Exit(p) \/ Crash(p)
      BY <2>3 DEF Write, Poll, Exit, Crash
    <2> QED BY <2>1, <2>2, <2>3 DEF JobStep
  <1>4. ASSUME NEW q \in Pid \ {p}
        PROVE  Asked(q)'
    <2>1. CASE job[q].at = "none"
      BY <1>1, <2>1, NobodyAsks
    <2>2. CASE job[q].at # "none"
      <3>1. job[q].slot \in Slots \ {s}
        BY <1>1, <1>2, <2>2 DEF IInv, Listed, ListedIn, Job
      <3> QED BY <1>1, <1>3, <3>1, SameAsked DEF IInv
    <2> QED BY <2>1, <2>2
  <1> HIDE DEF s
  <1>5. Asked(p)'
    <2>1. CASE Ask(p)
      <3>1. /\ job'[p].at = "create" /\ job[p].at = "run" /\ bqfile'[s] = NoFile
            /\ Prompts(s) => hist'.left = hist.left
        BY <1>2, <2>1 DEF Ask, Job, Prompts, s, IInv, TypeOK
      <3> QED BY <1>1, <1>2, <3>1 DEF Asked, Prompts, s
    <2>2. CASE Create(p)
      <3>1. /\ job'[p].at = "clear" /\ job[p].at = "create" /\ job'[p].query = job[p].query
            /\ bqfile'[s] = job[p].query /\ hist' = hist
        BY <1>2, <2>2 DEF Create, Goes, Job
      <3> QED BY <1>1, <1>2, <3>1 DEF Asked, Prompts, s
    <2>3. CASE Clear(p)
      <3>1. /\ job'[p].at = "write" /\ job[p].at = "clear" /\ job'[p].query = job[p].query
            /\ bqfile' = bqfile /\ hist' = hist
            /\ qrfile'[s] = NoFile
        BY <1>2, <2>3 DEF Clear, Goes, Job
      <3> QED BY <1>1, <1>2, <3>1 DEF Asked, Prompts, Responded, s
    <2>8. CASE Write(p)
      <3>1. /\ job'[p].at = "poll" /\ job[p].at = "write" /\ job'[p].query = job[p].query
            /\ bqfile' = bqfile /\ qrfile' = qrfile /\ hist' = hist
        BY <1>2, <2>8 DEF Write, Goes, Job
      <3> QED BY <1>1, <1>2, <3>1 DEF Asked, Prompts, Responded, s
    <2>4. CASE Poll(p)
      <3>1. /\ job'[p].at = "read" /\ job[p].at = "poll" /\ job'[p].query = job[p].query
            /\ bqfile' = bqfile /\ qrfile' = qrfile /\ qrfile[s] # NoFile /\ hist' = hist
        BY <1>2, <2>4 DEF Poll, Goes, Job
      <3> QED BY <1>1, <1>2, <3>1 DEF Asked, Prompts, Responded, s
    <2>5. CASE Read(p)
      <3>1. /\ job'[p].at = "run" /\ job[p].at = "read" /\ bqfile' = bqfile /\ hist' = hist
        BY <1>2, <2>5 DEF Read, Goes, Job
      <3> QED BY <1>1, <1>2, <3>1 DEF Asked, Prompts, Responded, s
    <2>6. CASE Timeout(p) \/ Exit(p)
      BY <1>2, <2>6, NobodyAsks DEF Timeout, Exit, Goes, Job
    <2>7. CASE Crash(p)
      BY <1>2, <2>7, NobodyAsks DEF Crash, Job
    <2> QED BY <2>1, <2>2, <2>3, <2>4, <2>5, <2>6, <2>7, <2>8 DEF JobStep
  <1> QED BY <1>4, <1>5

LEMMA NextIInv == IInv /\ [Next]_vars => IInv'
  <1> SUFFICES ASSUME IInv, [Next]_vars
               PROVE  \A p \in Pid : Asked(p)'
    BY NextType, NextListed DEF IInv
  <1>1. CASE bkg_update
    BY <1>1, UpdateAsked, RecordTypes DEF bkg_update
  <1>2. CASE WaitLoop
    BY <1>2, UpdateAsked, RecordTypes DEF WaitLoop
  <1>3. CASE \E j \in Slots \cup {0} : bkg_wait(j)
    <2>1. /\ job' = job /\ bqfile' = bqfile /\ qrfile' = qrfile /\ hist' = hist
          /\ cl.at = "none" /\ cl'.at = "wait"
      BY <1>3, RecordTypes DEF bkg_wait
    <2> QED BY <2>1, SameAsked DEF IInv
  <1>4. CASE UNCHANGED vars
    BY <1>4, SameAsked DEF vars, IInv
  <1> QED BY <1>1, <1>2, <1>3, <1>4, SpawnAsked, SpawnFailsAsked, KillAsked, ServiceAsked,
             RespondAsked, DeleteQueryAsked, InterruptAsked, JobStepAsked DEF Next

\* A job never takes the answer to another query for an answer to its own, whatever
\* was killed, crashed or timed out, unless the CL was interrupted before it could
\* delete an answered query of the job and that is served again (bkg_query,
\* service_bkgquery).
THEOREM AnswersAreOwn == Spec => AnswersQuery
  <1>1. IInv /\ [Next]_vars => [\A p \in Pid : OwnAnswer(p)]_vars
    <2>1. IInv => \A p \in Pid : OwnAnswer(p)
      BY DEF IInv, Asked, OwnAnswer, Answered, File, get_bkgqfiles
    <2> QED BY <2>1
  <1> QED BY <1>1, InitIInv, NextIInv, PTL DEF Spec, AnswersQuery

=============================================================================
