------------------------------ MODULE BkgJobs -------------------------------
(***************************************************************************)
(* The background jobs of the CL, pkg/cl/bkg.c, and the queries for which  *)
(* they stop, bkg_query and service_bkgquery of pkg/cl/modes.c.            *)
(*                                                                         *)
(* A job is a CL of its own.  It and its parent communicate by files only: *)
(* the bkgfile, which a job deletes when it ends, a query file, and a file *)
(* with the response, whose names are made of the number of the job's slot *)
(* in the table (and the parent's process id).  Every access to a file is  *)
(* a step.  The host delivers the signal that kills a job at once.         *)
(***************************************************************************)
EXTENDS Naturals, FiniteSets

CONSTANTS Pid,          \* process ids of the jobs
          NBKG,         \* slots
          MAX_BKGJOBS,  \* detached processes (config.h)
          MaxQueries,   \* bound on the queries
          MaxEvents     \* bound on the interrupts and the crashes

ASSUME JobsAssumption ==
    NBKG \in Nat \ {0} /\ MAX_BKGJOBS \in Nat /\ MaxQueries \in Nat /\ MaxEvents \in Nat

Slots == 1..NBKG
NoFile == 0                 \* for a file that does not exist; else its query

VARIABLES
    jobtable,   \* jobtable, with the bits of b_flags
    lastjobno,  \* lastjobno
    job,        \* the jobs: where each is, its slot and the query it is at
    bqfile,     \* the query files, by name
    written,    \* the queries whose file has the prompt in it
    qrfile,     \* the response files, by name
    cl,         \* what the CL is doing: the operation, the slot, the query it serves
                \* and whether the prompt was in the file
    hist        \* history: the queries; the interrupts and crashes; the slots whose
                \* answered query was left by an interrupt; the queries answered
                \* by a user who was shown an empty file

vars == <<jobtable, lastjobno, job, bqfile, written, qrfile, cl, hist>>

NoJob == [at |-> "none", slot |-> 1, query |-> NoFile]
Idle == [at |-> "none", slot |-> 1, query |-> NoFile, shown |-> FALSE]
Unused == [running |-> FALSE, service |-> FALSE, killed |-> FALSE, pids |-> {}]

\* Mutant: the job number is not in the names.
OneName(j) == 1

\* get_bkgqfiles
get_bkgqfiles(j) == j

Init ==
    /\ jobtable = [j \in Slots |-> Unused]
    /\ lastjobno = 0
    /\ job = [p \in Pid |-> NoJob]
    /\ bqfile = [j \in Slots |-> NoFile]
    /\ written = {}
    /\ qrfile = [j \in Slots |-> NoFile]
    /\ cl = Idle
    /\ hist = [queries |-> 0, events |-> 0, left |-> {}, unseen |-> {}]

busy(j) == jobtable[j].running

-----------------------------------------------------------------------------
(* bkg_update: it closes the jobs whose bkgfile is gone (prdone, prcldpr)  *)
(* and looks for queries.  All other operations begin with it.             *)

Done(j) == busy(j) /\ \E p \in jobtable[j].pids : job[p].at = "exited"
wfservice(j) == bqfile[get_bkgqfiles(j)] # NoFile

\* Mutant: bkg_close does not clear J_SERVICE.
CloseRunning(e) == [e EXCEPT !.running = FALSE, !.pids = {}]

\* bkg_close
bkg_close(e) == [e EXCEPT !.running = FALSE, !.service = FALSE, !.pids = {}]

Updated == [j \in Slots |->
    IF Done(j) THEN bkg_close(jobtable[j])
    ELSE IF busy(j) THEN [jobtable[j] EXCEPT !.service = wfservice(j)]
    ELSE jobtable[j]]

\* The processes that the update has waited for.
Reaped == [p \in Pid |-> IF job[p].at = "exited" THEN NoJob ELSE job[p]]

bkg_update ==
    /\ cl = Idle
    /\ jobtable' = Updated /\ job' = Reaped
    /\ UNCHANGED <<lastjobno, bqfile, written, qrfile, cl, hist>>

\* The order in which bkg_spawn tries the slots: all but the last one used.
Try(k) == ((lastjobno + k - 1) % NBKG) + 1
Tries == IF lastjobno = 0 THEN 1..NBKG ELSE 1..(NBKG - 1)

\* Mutant: the next slot is taken without a look at it.
AnySlot == Tries
FreeSlots == {k \in Tries : ~Updated[Try(k)].running}

\* The slot that is taken.
NewSlot == Try(CHOOSE k \in FreeSlots : \A l \in FreeSlots : k <= l)

\* The files of an earlier job in the slot are deleted.
bkg_delfiles ==
    /\ bqfile' = [bqfile EXCEPT ![get_bkgqfiles(NewSlot)] = NoFile]
    /\ qrfile' = [qrfile EXCEPT ![get_bkgqfiles(NewSlot)] = NoFile]
    /\ hist' = [hist EXCEPT !.left = @ \ {NewSlot}]

\* propdpr has a slot, unless there are MAX_BKGJOBS processes.
MaySpawn == Cardinality({j \in Slots : Updated[j].running}) < MAX_BKGJOBS

bkg_spawn(p) ==
    /\ cl = Idle /\ Reaped[p].at = "none"
    /\ FreeSlots # {} /\ MaySpawn
    /\ bkg_delfiles
    /\ jobtable' = [Updated EXCEPT ![NewSlot] = [Unused EXCEPT !.running = TRUE,
                                                             !.pids = {p}]]
    /\ job' = [Reaped EXCEPT ![p] = [at |-> "run", slot |-> NewSlot, query |-> NoFile]]
    /\ lastjobno' = NewSlot
    /\ UNCHANGED <<written, cl>>

\* "no more background job slots", or the bkgfile cannot be written; propdpr has no
\* slot of its own left, or the host makes no process.
SpawnFails ==
    /\ cl = Idle
    /\ \/ UNCHANGED <<bqfile, qrfile, hist>>
       \/ FreeSlots # {} /\ bkg_delfiles
    /\ jobtable' = Updated /\ job' = Reaped
    /\ UNCHANGED <<lastjobno, written, cl>>

\* prkill and prcldpr: the process is not waited for.
bkg_kill(j) ==
    /\ cl = Idle /\ Updated[j].running
    /\ jobtable' = [Updated EXCEPT ![j] = [bkg_close(@) EXCEPT !.killed = TRUE]]
    /\ job' = [p \in Pid |-> IF p \in Updated[j].pids THEN NoJob ELSE Reaped[p]]
    /\ UNCHANGED <<lastjobno, bqfile, written, qrfile, cl, hist>>

\* bkg_wait, for one job or (slot 0) for all of them: update, and sleep if there is
\* something to wait for.
bkg_wait(j) ==
    /\ cl = Idle
    /\ cl' = [Idle EXCEPT !.at = "wait", !.slot = j]
    /\ UNCHANGED <<jobtable, lastjobno, job, bqfile, written, qrfile, hist>>

WaitLoop ==
    /\ cl.at = "wait"
    /\ jobtable' = Updated /\ job' = Reaped
    /\ cl' = IF \E j \in Slots : Updated[j].running /\ cl.slot \in {0, j} THEN cl ELSE Idle
    /\ UNCHANGED <<lastjobno, bqfile, written, qrfile, hist>>

-----------------------------------------------------------------------------
(* service_bkgquery: show the query, ask the user, rename the response and *)
(* delete the query.                                                       *)

service_bkgquery(j) ==
    /\ cl = Idle /\ Updated[j].running
    /\ jobtable' = Updated /\ job' = Reaped
    /\ cl' = IF bqfile[get_bkgqfiles(j)] = NoFile THEN Idle   \* "No query is pending"
             ELSE [at |-> "prompt", slot |-> j, query |-> bqfile[get_bkgqfiles(j)],
                   shown |-> bqfile[get_bkgqfiles(j)] \in written]
    /\ UNCHANGED <<lastjobno, bqfile, written, qrfile, hist>>

\* c_rename does not replace a file, and its status is not looked at.
Respond ==
    LET f == get_bkgqfiles(cl.slot)
    IN  /\ cl.at = "prompt"
        /\ qrfile' = IF qrfile[f] = NoFile THEN [qrfile EXCEPT ![f] = cl.query] ELSE qrfile
        /\ cl' = [cl EXCEPT !.at = "responded"]
        /\ hist' = [hist EXCEPT !.unseen = IF cl.shown THEN @ ELSE @ \cup {cl.query}]
        /\ UNCHANGED <<jobtable, lastjobno, job, bqfile, written>>

DeleteQuery ==
    /\ cl.at = "responded"
    /\ bqfile' = [bqfile EXCEPT ![get_bkgqfiles(cl.slot)] = NoFile]
    /\ cl' = Idle
    /\ UNCHANGED <<jobtable, lastjobno, job, written, qrfile, hist>>

Interrupt ==
    /\ cl # Idle /\ hist.events < MaxEvents
    /\ cl' = Idle
    /\ hist' = [hist EXCEPT !.events = @ + 1,
                            !.left = IF cl.at = "responded" THEN @ \cup {cl.slot} ELSE @]
    /\ UNCHANGED <<jobtable, lastjobno, job, bqfile, written, qrfile>>

-----------------------------------------------------------------------------
(* The jobs: bkg_query.                                                    *)

File(p) == get_bkgqfiles(job[p].slot)
Goes(p, from, to) == job[p].at = from /\ job' = [job EXCEPT ![p].at = to]

\* A parameter is to be asked for; an old query is deleted.
Ask(p) ==
    /\ job[p].at = "run" /\ hist.queries < MaxQueries
    /\ hist' = [hist EXCEPT !.queries = @ + 1,
                            !.left = IF cl.at = "prompt" /\ cl.slot = job[p].slot THEN @
                                     ELSE @ \ {job[p].slot}]
    /\ job' = [job EXCEPT ![p].at = "create", ![p].query = hist.queries + 1]
    /\ bqfile' = [bqfile EXCEPT ![File(p)] = NoFile]
    /\ UNCHANGED <<jobtable, lastjobno, written, qrfile, cl>>

\* The query file is made; it is empty.
Create(p) ==
    /\ Goes(p, "create", "clear")
    /\ bqfile' = [bqfile EXCEPT ![File(p)] = job[p].query]
    /\ UNCHANGED <<jobtable, lastjobno, written, qrfile, cl, hist>>

\* An old response is deleted.
Clear(p) ==
    /\ Goes(p, "clear", "write")
    /\ qrfile' = [qrfile EXCEPT ![File(p)] = NoFile]
    /\ UNCHANGED <<jobtable, lastjobno, bqfile, written, cl, hist>>

\* pquery and fclose, also when the CL has deleted the file.
Write(p) ==
    /\ Goes(p, "write", "poll")
    /\ written' = written \cup {job[p].query}
    /\ UNCHANGED <<jobtable, lastjobno, bqfile, qrfile, cl, hist>>

Poll(p) ==
    /\ Goes(p, "poll", "read")
    /\ qrfile[File(p)] # NoFile
    /\ UNCHANGED <<jobtable, lastjobno, bqfile, written, qrfile, cl, hist>>

\* The response is read and deleted.  If it is not in range Ask follows.
Read(p) ==
    /\ Goes(p, "read", "run")
    /\ qrfile' = [qrfile EXCEPT ![File(p)] = NoFile]
    /\ UNCHANGED <<jobtable, lastjobno, bqfile, written, cl, hist>>

\* Mutant: the time the job sleeps is not counted.
NoTimeout(p) == job[p].at = "poll" /\ UNCHANGED vars

\* "Timeout on query" is an error, which ends a job.
Timeout(p) ==
    /\ Goes(p, "poll", "exited")
    /\ bqfile' = [bqfile EXCEPT ![File(p)] = NoFile]
    /\ UNCHANGED <<jobtable, lastjobno, written, qrfile, cl, hist>>

Exit(p) ==
    /\ Goes(p, "run", "exited")
    /\ UNCHANGED <<jobtable, lastjobno, bqfile, written, qrfile, cl, hist>>

\* A job that crashes does not delete its bkgfile.
Crash(p) ==
    /\ job[p].at \notin {"none", "exited", "crashed"} /\ hist.events < MaxEvents
    /\ job' = [job EXCEPT ![p].at = "crashed"]
    /\ hist' = [hist EXCEPT !.events = @ + 1]
    /\ UNCHANGED <<jobtable, lastjobno, bqfile, written, qrfile, cl>>

JobStep(p) ==
    \/ Ask(p) \/ Create(p) \/ Clear(p) \/ Write(p) \/ Poll(p) \/ Read(p)
    \/ Timeout(p) \/ Exit(p)

Next ==
    \/ \E p \in Pid : JobStep(p) \/ Crash(p) \/ bkg_spawn(p)
    \/ \E j \in Slots : bkg_kill(j) \/ service_bkgquery(j)
    \/ \E j \in Slots \cup {0} : bkg_wait(j)
    \/ bkg_update \/ SpawnFails \/ WaitLoop \/ Respond \/ DeleteQuery \/ Interrupt

\* The host runs the jobs, and the CL while it waits for one.
Fairness == WF_vars(WaitLoop) /\ \A p \in Pid : WF_vars(JobStep(p))

Spec == Init /\ [][Next]_vars /\ Fairness

-----------------------------------------------------------------------------
Slot == [running : BOOLEAN, service : BOOLEAN, killed : BOOLEAN, pids : SUBSET Pid]
Job == [at : {"none", "run", "create", "clear", "write", "poll", "read", "exited",
              "crashed"},
        slot : Slots, query : 0..MaxQueries]
Cl == [at : {"none", "wait", "prompt", "responded"}, slot : 0..NBKG, query : 0..MaxQueries,
       shown : BOOLEAN]
History == [queries : 0..MaxQueries, events : 0..MaxEvents, left : SUBSET Slots,
            unseen : SUBSET (0..MaxQueries)]

\* Also: a slot without a job is not marked as one that has a query (bkg_close).
TypeOK ==
    /\ jobtable \in [Slots -> Slot]
    /\ \A j \in Slots : jobtable[j].service => jobtable[j].running
    /\ lastjobno \in 0..NBKG
    /\ job \in [Pid -> Job]
    /\ bqfile \in [Slots -> 0..MaxQueries] /\ qrfile \in [Slots -> 0..MaxQueries]
    /\ written \subseteq 0..MaxQueries
    /\ cl \in Cl /\ (cl.slot \in Slots \/ cl.at = "wait")
    /\ hist \in History

\* The CL knows its jobs: a job that was not killed is in exactly one slot, which
\* is marked in use and is the one its query files are named for; so no two jobs
\* share their files (bkg_spawn, bkg_update, bkg_kill).
JobsListed ==
    /\ \A p \in Pid : job[p].at # "none" =>
          {j \in Slots : p \in jobtable[j].pids} = {job[p].slot}
    /\ \A j \in Slots : /\ busy(j) <=> jobtable[j].pids # {}
                        /\ \A p, q \in jobtable[j].pids : p = q

\* Whatever was killed, has crashed or timed out before: a job takes for an answer
\* only what the user has typed when he served the query the job is at - unless the
\* CL was interrupted before it could delete an answered query of the same job,
\* and that is served again (bkg_query, service_bkgquery, bkg_delfiles).
Answered(p) == job[p].at = "read" /\ job'[p].at = "run"
OwnAnswer(p) ==
    Answered(p) => qrfile[File(p)] = job[p].query \/ job[p].slot \in hist.left
AnswersQuery == [][\A p \in Pid : OwnAnswer(p)]_vars

\* "We must open the background query file for the indicated task and type out the
\* prompt therein for the user.  The user's response is then placed in the query
\* response file": what a job takes for an answer was typed by a user who was
\* shown the prompt (service_bkgquery).
PromptShown == [][\A p \in Pid : Answered(p) => job[p].query \notin hist.unseen]_vars

\* A wait ends: a job that nobody answers gives up.  But the CL does not notice
\* that a job has crashed, since its bkgfile is still there.
WaitEnds ==
    cl.at = "wait" ~> \/ cl.at = "none"
                      \/ \E p \in Pid : job[p].at = "crashed"

\* "We delete the original query file, and we are done": while a job polls for a
\* response there is a query the user can answer, or a response.
QueryPosted ==
    \A p \in Pid : job[p].at = "poll" =>
        \/ bqfile[File(p)] = job[p].query
        \/ qrfile[File(p)] # NoFile

=============================================================================
