------------------------------ MODULE FileLock ------------------------------
(***************************************************************************)
(* The file locking package sys/fio/osfnlock.x on a host without file      *)
(* locks (OS_FILELOCKING is false), with the order in which its only       *)
(* caller, the filename mapping database of sys/fio/vfnmap.x, calls it.    *)
(*                                                                         *)
(* A file (osfn, here "main") has three null length files beside it.  The  *)
(* file is free while its lockfile exists: it is locked by deleting the    *)
(* lockfile.  timelock2 carries, in its creation time, the time at which   *)
(* the lock was set; timelock1 is a second semaphore, for the right to     *)
(* break a lock that has expired.                                          *)
(*                                                                         *)
(* Every kernel call (zfdele, zfmkcp, zfinfo, zfacss, clktime) is one      *)
(* step, so the calls of different processes interleave as they do on the  *)
(* host.  A process may die between any two of them.                       *)
(***************************************************************************)
EXTENDS Integers, FiniteSets

CONSTANTS Proc,             \* processes that open VFNs in one directory
          FILELOCK_PERIOD,  \* seconds after which a lock may be broken
          FILEWAIT_PERIOD,  \* attempts between two timeouts
          MAX_DELAY,        \* attempts after which timelock1 is recreated
          MIN_TIMELEFT,     \* seconds vfnclose wants before it starts to write
          Permanent,        \* the map has an entry that nobody deletes
          MaxTime,          \* bound on the clock
          MaxDead           \* bound on the number of processes that die

ASSUME LockAssumption ==
    /\ FILELOCK_PERIOD \in Nat /\ FILEWAIT_PERIOD \in Nat \ {0}
    /\ MAX_DELAY \in Nat /\ MIN_TIMELEFT \in 1..FILELOCK_PERIOD
    /\ Permanent \in BOOLEAN
    /\ MaxTime \in Nat /\ MaxDead \in Nat

NoFile == -1                \* "creation time" of a file that is not there
Time == 0..MaxTime

VARIABLES
    now,        \* the clock, in whole seconds
    main,       \* the file to be locked exists
    lockfile,   \* its lockfile exists: the file is unlocked
    timelock1,  \* its timelock1 exists: nobody is breaking the lock
    timelock2,  \* creation time of its timelock2, or NoFile
    pc,         \* the next kernel call of each process
    tries,      \* "nsec" of osfn_lock
    delay,      \* "delay" of osfn_lock, counted up to MAX_DELAY
    fi,         \* FI_CTIME(fi) of osfn_lock, from its zfinfo to the test of it
    locktime,   \* what osfn_lock returned: M_LOCKTIME of the caller
    mode,       \* "plain", "rollback" (vfnclose repeats the transaction) or
                \* "raised" (osfn_initlock has posted an error)
    opened,     \* the caller created the file and has it open already
    \* History: what has happened to the semaphores so far.
    lastBreak,  \* when the lock was last broken; -FILELOCK_PERIOD if never
    installed,  \* the lock files were "present" from the start or "absent",
                \* and then osfn_initlock ran "once", or "again"
    recovered   \* timelock1 was recreated because it had been missing too long

files   == <<main, lockfile, timelock1, timelock2>>
locals  == <<tries, delay, fi, locktime, mode, opened>>
history == <<lastBreak, installed, recovered>>
vars    == <<now, files, pc, locals, history>>

-----------------------------------------------------------------------------
(* The places of a process.                                                *)

Waiting   == {"try", "tl1", "recover", "stat", "age", "brk1", "brk2", "brk3", "put1"}
Breaking  == {"stat", "age", "brk1", "brk2", "brk3", "put1"}
Setting   == {"set1", "set2", "set3"}
Checking  == {"chk2", "chk3"}
Unlocking == {"ulk1", "ulk2", "ulk3"}
Removing  == {"rm0", "rm1", "rm2", "rm3"}
Owning    == Setting \cup Checking \cup Unlocking \cup Removing
                \cup {"open", "held", "update", "undef"}
PC == Waiting \cup Owning
        \cup {"idle", "exist", "create", "init1", "init2", "init3", "access", "dead"}

Holding(p) == pc[p] \in Owning

GoTo(p, from, to) == pc[p] = from /\ pc' = [pc EXCEPT ![p] = to]

\* The local variables of a call end with it.
Forget(p) ==
    /\ tries' = [tries EXCEPT ![p] = 0]
    /\ delay' = [delay EXCEPT ![p] = 0]
    /\ fi' = [fi EXCEPT ![p] = NoFile]
    /\ locktime' = [locktime EXCEPT ![p] = NoFile]
    /\ mode' = [mode EXCEPT ![p] = "plain"]
    /\ opened' = [opened EXCEPT ![p] = FALSE]

Return(p) == IF pc'[p] \in {"idle", "dead"} THEN Forget(p) ELSE UNCHANGED locals

Init ==
    /\ now = 0
    /\ main \in BOOLEAN /\ (Permanent => main)
    /\ lockfile \in BOOLEAN /\ timelock1 \in BOOLEAN
    /\ timelock2 \in {NoFile, 0}
    /\ ~main => ~lockfile /\ ~timelock1 /\ timelock2 = NoFile
    /\ pc = [p \in Proc |-> "idle"]
    /\ tries = [p \in Proc |-> 0]
    /\ delay = [p \in Proc |-> 0]
    /\ fi = [p \in Proc |-> NoFile]
    /\ locktime = [p \in Proc |-> NoFile]
    /\ mode = [p \in Proc |-> "plain"]
    /\ opened = [p \in Proc |-> FALSE]
    /\ lastBreak = -FILELOCK_PERIOD
    /\ installed = IF main THEN "present" ELSE "absent"
    /\ recovered = FALSE

-----------------------------------------------------------------------------
(* vvfn_readmapfile: open the mapping file for writing.                    *)

\* zfacss (fname, 0, 0, file_exists) chooses between the two branches.
FindMain(p, from) ==
    /\ GoTo(p, from, IF main THEN "access" ELSE "create")
    /\ opened' = [opened EXCEPT ![p] = ~main]
    /\ UNCHANGED <<now, files, tries, delay, fi, locktime, mode, history>>

\* A VFN with a long root is opened VFN_WRITE and mapped.
OpenVfn(p) == FindMain(p, "idle")

\* vfnadd or vfndel is called again by the rollback of vfnclose.
Reopen(p) == FindMain(p, "exist")

\* zopnbf (fname, NEW_FILE, chan); if it fails vvfn_readmapfile raises SYS_FOPEN.
CreateMain(p) ==
    /\ \/ GoTo(p, "create", "init1") /\ main' = TRUE
       \/ GoTo(p, "create", "idle") /\ UNCHANGED main
    /\ Return(p)
    /\ UNCHANGED <<now, lockfile, timelock1, timelock2, history>>

\* osfn_initlock: three zfmkcp, each of which fails if main has gone.
Init1(p) ==
    /\ GoTo(p, "init1", "init2")
    /\ lockfile' = (lockfile \/ main)
    /\ installed' = IF installed = "absent" THEN "once" ELSE "again"
    /\ UNCHANGED <<now, main, timelock1, timelock2, locals, lastBreak, recovered>>

Init2(p) ==
    /\ GoTo(p, "init2", "init3")
    /\ timelock1' = (timelock1 \/ main)
    /\ UNCHANGED <<now, main, lockfile, timelock2, locals, history>>

\* The status of the last zfmkcp is checked, and syserrs called.  The errchk
\* of vvfn_readmapfile names "osfn_init", not osfn_initlock: the caller goes
\* on to osfn_lock with the error posted, and returns only after that call.
Init3(p) ==
    /\ GoTo(p, "init3", "access")
    /\ timelock2' = IF main THEN now ELSE timelock2
    /\ mode' = [mode EXCEPT ![p] = IF main THEN @ ELSE "raised"]
    /\ UNCHANGED <<now, main, lockfile, timelock1, tries, delay, fi, locktime,
                   opened, history>>

\* What the caller does with the return of osfn_lock.  With an error posted it
\* returns at once.  In a rollback it goes back to the loop of vfnclose, whose
\* local mfd was set to NULL by mfree and is not reloaded from V_MFD: it reads
\* M_LOCKTIME of a null pointer, and either dies or loops ("undef").
AfterLock(p) ==
    IF mode[p] = "raised" THEN "idle"
    ELSE IF mode[p] = "rollback" THEN "undef" ELSE "held"

\* zopnbf (fname, READ_WRITE) and the checksummed read, unless the file was
\* created.  If the file has gone, or is being written during every one of the
\* MAX_READS reads, the error exit frees the descriptor and does not unlock.
OpenMain(p) ==
    /\ \/ (opened[p] \/ main) /\ GoTo(p, "open", AfterLock(p))
       \/ /\ ~opened[p]
          /\ ~main \/ \E q \in Proc \ {p} : pc[q] = "update"
          /\ GoTo(p, "open", "idle")
    /\ Return(p)
    /\ UNCHANGED <<now, files, history>>

-----------------------------------------------------------------------------
(* osfn_lock                                                               *)

\* zfacss (osfn, READ_WRITE, 0, status): the kernel procedure answers YES or
\* NO, never ERR, so the test of the status for ERR lets every file through.
Access(p) ==
    /\ GoTo(p, "access", "try")
    /\ tries' = [tries EXCEPT ![p] = 0]
    /\ delay' = [delay EXCEPT ![p] = 0]
    /\ UNCHANGED <<now, files, fi, locktime, mode, opened, history>>

\* Mutant: the lockfile is looked at, not deleted.
TakeByTest(p) ==
    /\ lockfile
    /\ GoTo(p, "try", "set1")
    /\ UNCHANGED <<now, files, locals, history>>

\* zfdele (lockfile): test and set in one kernel call.
Take(p) ==
    /\ lockfile
    /\ GoTo(p, "try", "set1")
    /\ lockfile' = FALSE
    /\ UNCHANGED <<now, main, timelock1, timelock2, locals, history>>

TryAgain(p) ==
    /\ ~lockfile
    /\ tries[p] + 1 < FILEWAIT_PERIOD
    /\ pc[p] = "try"
    /\ tries' = [tries EXCEPT ![p] = @ + 1]
    /\ UNCHANGED <<now, files, pc, delay, fi, locktime, mode, opened, history>>

TimeOut(p) ==
    /\ ~lockfile
    /\ tries[p] + 1 >= FILEWAIT_PERIOD
    /\ GoTo(p, "try", "tl1")
    /\ tries' = [tries EXCEPT ![p] = 0]
    /\ delay' = [delay EXCEPT ![p] = IF @ + FILEWAIT_PERIOD < MAX_DELAY
                                     THEN @ + FILEWAIT_PERIOD ELSE MAX_DELAY]
    /\ UNCHANGED <<now, files, fi, locktime, mode, opened, history>>

\* Mutant: timelock1 is looked at, not deleted.
MayBreakByTest(p) ==
    /\ timelock1
    /\ GoTo(p, "tl1", "stat")
    /\ UNCHANGED <<now, files, locals, history>>

\* zfdele (timelock1): permission to look at the age of the lock.
MayBreak(p) ==
    /\ timelock1
    /\ GoTo(p, "tl1", "stat")
    /\ timelock1' = FALSE
    /\ UNCHANGED <<now, main, lockfile, timelock2, locals, history>>

\* Mutant: a missing timelock1 is waited for, however long it takes.
NeverRecover(p) ==
    /\ ~timelock1
    /\ GoTo(p, "tl1", "try")
    /\ UNCHANGED <<now, files, locals, history>>

MayNotBreak(p) ==
    /\ ~timelock1
    /\ GoTo(p, "tl1", IF delay[p] >= MAX_DELAY THEN "recover" ELSE "try")
    /\ UNCHANGED <<now, files, locals, history>>

\* zfmkcp (osfn, timelock1) after MAX_DELAY.
Recover(p) ==
    /\ GoTo(p, "recover", "try")
    /\ timelock1' = (timelock1 \/ main)
    /\ recovered' = (recovered \/ main)
    /\ UNCHANGED <<now, main, lockfile, timelock2, locals, lastBreak, installed>>

\* zfinfo (timelock2, fi, status); a status of ERR breaks the lock.
StatLock(p) ==
    /\ GoTo(p, "stat", IF timelock2 = NoFile THEN "brk1" ELSE "age")
    /\ fi' = [fi EXCEPT ![p] = IF timelock2 = NoFile THEN @ ELSE timelock2]
    /\ UNCHANGED <<now, files, tries, delay, locktime, mode, opened, history>>

\* Mutant: off by one in the age at which a lock expires.
CheckAgeLate(p) ==
    /\ GoTo(p, "age", IF now - fi[p] > FILELOCK_PERIOD THEN "brk1" ELSE "put1")
    /\ fi' = [fi EXCEPT ![p] = NoFile]
    /\ UNCHANGED <<now, files, tries, delay, locktime, mode, opened, history>>

\* clktime (FI_CTIME(fi)) >= FILELOCK_PERIOD
CheckAge(p) ==
    /\ GoTo(p, "age", IF now - fi[p] >= FILELOCK_PERIOD THEN "brk1" ELSE "put1")
    /\ fi' = [fi EXCEPT ![p] = NoFile]
    /\ UNCHANGED <<now, files, tries, delay, locktime, mode, opened, history>>

\* Mutant: the break section ends before timelock2 is renewed.
Break1Only(p) ==
    /\ GoTo(p, "brk1", "put1")
    /\ lockfile' = (lockfile \/ main)
    /\ lastBreak' = IF main THEN now ELSE lastBreak
    /\ UNCHANGED <<now, main, timelock1, timelock2, locals, installed, recovered>>

\* zfmkcp (osfn, lockfile): the lock is broken.
Break1(p) ==
    /\ GoTo(p, "brk1", "brk2")
    /\ lockfile' = (lockfile \/ main)
    /\ lastBreak' = IF main THEN now ELSE lastBreak
    /\ UNCHANGED <<now, main, timelock1, timelock2, locals, installed, recovered>>

Break2(p) ==
    /\ GoTo(p, "brk2", "brk3")
    /\ timelock2' = NoFile
    /\ UNCHANGED <<now, main, lockfile, timelock1, locals, history>>

Break3(p) ==
    /\ GoTo(p, "brk3", "put1")
    /\ timelock2' = IF main THEN now ELSE timelock2
    /\ UNCHANGED <<now, main, lockfile, timelock1, locals, history>>

\* Mutant: the wrong semaphore is put back.
PutBackLockfile(p) ==
    /\ GoTo(p, "put1", "try")
    /\ lockfile' = (lockfile \/ main)
    /\ UNCHANGED <<now, main, timelock1, timelock2, locals, history>>

\* zfmkcp (osfn, timelock1): leave the break section, broken or not.
PutBack(p) ==
    /\ GoTo(p, "put1", "try")
    /\ timelock1' = (timelock1 \/ main)
    /\ UNCHANGED <<now, main, lockfile, timelock2, locals, history>>

\* setlock_: the new lock is stamped, and its stamp returned.
Set1(p) ==
    /\ GoTo(p, "set1", "set2")
    /\ timelock2' = NoFile
    /\ UNCHANGED <<now, main, lockfile, timelock1, locals, history>>

\* Mutant: the stamp is the time at which the lock will expire.
Set2Expiry(p) ==
    /\ GoTo(p, "set2", "set3")
    /\ timelock2' = IF main THEN now + FILELOCK_PERIOD ELSE timelock2
    /\ UNCHANGED <<now, main, lockfile, timelock1, locals, history>>

Set2(p) ==
    /\ GoTo(p, "set2", "set3")
    /\ timelock2' = IF main THEN now ELSE timelock2
    /\ UNCHANGED <<now, main, lockfile, timelock1, locals, history>>

\* FI_CTIME(fi) is returned whatever the status of zfinfo: if timelock2 has
\* gone it is what an earlier round of the loop left there, or uninitialised.
Stamp == IF timelock2 # NoFile THEN {timelock2} ELSE Time \cup {NoFile}

\* Mutant: the clock is returned, not the creation time of timelock2.
Set3Clock(p) ==
    /\ GoTo(p, "set3", "open")
    /\ locktime' = [locktime EXCEPT ![p] = now]
    /\ tries' = [tries EXCEPT ![p] = 0]
    /\ delay' = [delay EXCEPT ![p] = 0]
    /\ UNCHANGED <<now, files, fi, mode, opened, history>>

Set3(p) ==
    /\ GoTo(p, "set3", "open")
    /\ \E t \in Stamp : locktime' = [locktime EXCEPT ![p] = t]
    /\ tries' = [tries EXCEPT ![p] = 0]     \* the locals of osfn_lock end here
    /\ delay' = [delay EXCEPT ![p] = 0]
    /\ UNCHANGED <<now, files, fi, mode, opened, history>>

-----------------------------------------------------------------------------
(* osfn_timeleft, for its two callers.                                     *)

\* zfacss (lockfile): if the lockfile exists the file is not locked.
SeeLockfile(p, from, next, err) ==
    /\ GoTo(p, from, IF lockfile THEN err ELSE next)
    /\ UNCHANGED <<now, files, history>>

\* zfinfo (timelock2): ours only if it carries the time at which we set it.
SeeStamp(p, from, next, err) ==
    /\ GoTo(p, from, IF timelock2 # NoFile /\ timelock2 = locktime[p] THEN next ELSE err)
    /\ UNCHANGED <<now, files, history>>

TimeLeft(p) == FILELOCK_PERIOD - (now - locktime[p])

-----------------------------------------------------------------------------
(* vfnclose and osfn_unlock                                                *)

\* zclsbf, then unlock; if no file is left in the map, remove it instead.  If
\* the close, or before it the write, fails, syserrs leaves vfnclose and with
\* it the lock, which stays set.
Finish(p, from) ==
    /\ \/ GoTo(p, from, "ulk1")
       \/ ~Permanent /\ GoTo(p, from, "rm0")
       \/ GoTo(p, from, "idle")
    /\ Return(p)
    /\ UNCHANGED <<now, files, history>>

\* The transaction did not change the database, or is not to be kept.
CloseNoUpdate(p) == Finish(p, "held")

\* osfn_timeleft < MIN_TIMELEFT (ERR included) starts a rollback with an
\* osfn_unlock; otherwise the update is written.
Decide(p) ==
    /\ mode' = [mode EXCEPT ![p] = IF pc'[p] = "ulk1" THEN "rollback" ELSE @]
    /\ UNCHANGED <<tries, delay, fi, locktime, opened>>

Check1(p) == SeeLockfile(p, "held", "chk2", "ulk1") /\ Decide(p)

Check2(p) == SeeStamp(p, "chk2", "chk3", "ulk1") /\ Decide(p)

Check3(p) ==
    /\ GoTo(p, "chk3", IF TimeLeft(p) >= MIN_TIMELEFT THEN "update" ELSE "ulk1")
    /\ Decide(p)
    /\ UNCHANGED <<now, files, history>>

\* zawrbf, zawtbf: the mapping file is being written while a process is at
\* "update".
Update(p) == Finish(p, "update")

AfterUnlock(p) == IF mode[p] = "rollback" THEN "exist" ELSE "idle"

Unlock1(p) == SeeLockfile(p, "ulk1", "ulk2", AfterUnlock(p)) /\ Return(p)

\* However old the lock is, the time left is at least 0, which is not ERR.
Unlock2(p) == SeeStamp(p, "ulk2", "ulk3", AfterUnlock(p)) /\ Return(p)

Unlock3(p) ==
    /\ GoTo(p, "ulk3", AfterUnlock(p))
    /\ lockfile' = (lockfile \/ main)
    /\ Return(p)
    /\ UNCHANGED <<now, main, timelock1, timelock2, history>>

\* zfdele (osfn), then osfn_rmlock.
RemoveMain(p) ==
    /\ GoTo(p, "rm0", "rm1")
    /\ main' = FALSE
    /\ UNCHANGED <<now, lockfile, timelock1, timelock2, locals, history>>

Remove1(p) ==
    /\ GoTo(p, "rm1", "rm2")
    /\ lockfile' = FALSE
    /\ UNCHANGED <<now, main, timelock1, timelock2, locals, history>>

Remove2(p) ==
    /\ GoTo(p, "rm2", "rm3")
    /\ timelock1' = FALSE
    /\ UNCHANGED <<now, main, lockfile, timelock2, locals, history>>

Remove3(p) ==
    /\ GoTo(p, "rm3", "idle")
    /\ timelock2' = NoFile
    /\ Return(p)
    /\ UNCHANGED <<now, main, lockfile, timelock1, history>>

-----------------------------------------------------------------------------
(* The environment.                                                        *)

Die(p) ==
    /\ pc[p] \notin {"idle", "dead"}
    /\ Cardinality({q \in Proc : pc[q] = "dead"}) < MaxDead
    /\ pc' = [pc EXCEPT ![p] = "dead"]
    /\ Return(p)
    /\ UNCHANGED <<now, files, history>>

Tick ==
    /\ now < MaxTime
    /\ now' = now + 1
    /\ UNCHANGED <<files, pc, locals, history>>

ReadMapFile(p) ==
    \/ Reopen(p) \/ CreateMain(p) \/ Init1(p) \/ Init2(p) \/ Init3(p) \/ OpenMain(p)

Lock(p) ==
    \/ Access(p) \/ Take(p) \/ TryAgain(p) \/ TimeOut(p) \/ MayBreak(p)
    \/ MayNotBreak(p) \/ Recover(p) \/ StatLock(p) \/ CheckAge(p) \/ Break1(p)
    \/ Break2(p) \/ Break3(p) \/ PutBack(p) \/ Set1(p) \/ Set2(p) \/ Set3(p)

VfnClose(p) ==
    \/ CloseNoUpdate(p) \/ Check1(p) \/ Check2(p) \/ Check3(p) \/ Update(p)

Unlock(p) == Unlock1(p) \/ Unlock2(p) \/ Unlock3(p)

Remove(p) == RemoveMain(p) \/ Remove1(p) \/ Remove2(p) \/ Remove3(p)

Step(p) == ReadMapFile(p) \/ Lock(p) \/ VfnClose(p) \/ Unlock(p) \/ Remove(p)

Next == Tick \/ \E p \in Proc : OpenVfn(p) \/ Step(p) \/ Die(p)

Spec == Init /\ [][Next]_vars

\* The host schedules every live process, and the clock runs.
Fairness == WF_vars(Tick) /\ \A p \in Proc : WF_vars(Step(p))

FairSpec == Spec /\ Fairness
-----------------------------------------------------------------------------
(* Properties.                                                             *)

FilesOK ==
    /\ main \in BOOLEAN /\ lockfile \in BOOLEAN /\ timelock1 \in BOOLEAN
    /\ timelock2 \in Time \cup {NoFile}

LocalsOK ==
    /\ tries \in [Proc -> 0..FILEWAIT_PERIOD - 1]
    /\ delay \in [Proc -> 0..MAX_DELAY]
    /\ fi \in [Proc -> Time \cup {NoFile}]
    /\ locktime \in [Proc -> Time \cup {NoFile}]
    /\ mode \in [Proc -> {"plain", "rollback", "raised"}]
    /\ opened \in [Proc -> BOOLEAN]

HistoryOK ==
    /\ lastBreak \in Time \cup {-FILELOCK_PERIOD}
    /\ installed \in {"absent", "present", "once", "again"}
    /\ recovered \in BOOLEAN

\* Every stamp is a time at which a file was created, or is missing; the
\* attempts and the delay of osfn_lock stay within its limits.
TypeOK ==
    /\ now \in Time
    /\ FilesOK
    /\ pc \in [Proc -> PC]
    /\ LocalsOK
    /\ HistoryOK

\* The semaphore was given back by somebody other than its holder: a waiter
\* broke the lock, or osfn_initlock ran for a file that had its lock files.
Broken == lastBreak >= 0 \/ installed = "again"

Abs == INSTANCE AdvisoryLock
         WITH free <- lockfile, holders <- {p \in Proc : Holding(p)}, broken <- Broken

\* Every step of osfn_lock, osfn_unlock, osfn_timeleft, osfn_initlock and
\* osfn_rmlock, and every death, is a step of the abstract lock or hidden.
Refinement == Abs!ASpec

\* Until the lock is broken at most one process is between the zfdele of the
\* lockfile in osfn_lock and the end of its unlock, and then there is no
\* lockfile: "only one process can be in the critical section at a time".
UnbrokenExclusion == Abs!Exclusion

\* Until the lock is broken, nothing that other processes do while they wait,
\* look at the age of the lock, or recover timelock1 disturbs the stamp the
\* holder compares with: osfn_timeleft and osfn_unlock do not return ERR.
OwnStamp ==
    ~Broken /\ installed = "present" =>
        \A p \in Proc :
            pc[p] \in {"open", "held", "update"} \cup Checking \cup Unlocking =>
                timelock2 # NoFile /\ timelock2 = locktime[p] /\ ~lockfile

\* timelock1 is a semaphore for the break section of osfn_lock: at most one
\* process is in it, as long as the file is not taken for lost (MAX_DELAY) and
\* not installed twice.
OneBreaker ==
    ~recovered /\ installed # "again" =>
        /\ \A p, q \in Proc : pc[p] \in Breaking /\ pc[q] \in Breaking => p = q
        /\ timelock1 => \A p \in Proc : pc[p] \notin Breaking

\* A lock that is broken because of its age is broken FILELOCK_PERIOD seconds
\* after the break before it at the earliest: the break section restores
\* timelock2 before it gives timelock1 back.
BreakSpacing ==
    ~recovered /\ installed # "again" =>
        \A p \in Proc : pc[p] = "age" /\ now - fi[p] >= FILELOCK_PERIOD =>
                           now - lastBreak >= FILELOCK_PERIOD

\* The lock is free, or nobody is about to stamp it again and the bounded clock
\* runs long enough for it to expire.
CanExpire ==
    \/ lockfile
    \/ /\ \A p \in Proc : pc[p] \notin {"brk2", "brk3"}
       /\ timelock2 = NoFile \/ MaxTime - timelock2 >= FILELOCK_PERIOD

\* Lockout ends: while a process waits for the lock of an existing file,
\* somebody gets it, whoever has died or left the lock set, and at whatever
\* place (the break section included).  A break alone is not enough.
LockoutEnds ==
    \A p \in Proc :
        pc[p] \in Waiting /\ CanExpire ~>
            (\E q \in Proc : Holding(q)) \/ pc[p] = "dead" \/ ~main

\* The right to break a lock is not lost for good: a process that finds
\* timelock1 missing waits until it is there again or needs it no more.
PermitReturns ==
    \A p \in Proc :
        pc[p] = "tl1" /\ ~timelock1 ~> timelock1 \/ ~main \/ pc[p] \notin Waiting

\* osfnlock.x:30-31: "The lock is guaranteed to remain in place for at least
\* FILELOCK_PERIOD seconds."  Two processes whose osfn_lock both returned less
\* than FILELOCK_PERIOD ago do not hold the lock together.
LockGuaranteed ==
    \A p, q \in Proc :
        p # q /\ pc[p] = "held" /\ pc[q] = "held" =>
            \/ now - locktime[p] >= FILELOCK_PERIOD
            \/ now - locktime[q] >= FILELOCK_PERIOD

\* vfnmap.x:541-543: "If there is not enough time remaining on the lock to
\* permit the update, rollback (repeat) the last transaction": a process that
\* has locked the file again for a rollback gets to the end of vfnclose.
RollbackEnds ==
    \A p \in Proc :
        mode[p] = "rollback" /\ Holding(p) ~> pc[p] \in {"idle", "dead"}
=============================================================================
