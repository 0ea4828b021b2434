------------------------------- MODULE VfnMap -------------------------------
(***************************************************************************)
(* The filename mapping database of sys/fio/vfnmap.x and the four          *)
(* procedures of FIO that change it: filopn (NEW_FILE), falloc (and        *)
(* fmkcopy, which has the same control), delete and frename, each with the *)
(* fclobber it calls.                                                      *)
(*                                                                         *)
(* A file whose name is longer than the host permits (its VFN) is kept     *)
(* under an OSFN made from the squeezed name; the mapping file of the      *)
(* directory holds the pairs.  Here the VFNs are those of one directory    *)
(* that have the same squeezed root, so that they compete for one series   *)
(* of OSFNs: 0 is the root itself, k the k-th name vfn_enter makes of it.  *)
(*                                                                         *)
(* Every call of the kernel on the directory is a step.  The lock on the   *)
(* mapping file is the advisory lock that FileLock implements.             *)
(***************************************************************************)
EXTENDS Integers, FiniteSets, Functions

CONSTANTS Proc,             \* processes that use the directory
          Name,             \* the VFNs
          NoName,           \* "no file has this OSFN", "nobody"
          MAX_LONGFNAMES,   \* filename pairs in the mapping file
          MAX_DEGENERACY,   \* OSFNs vfn_enter makes of one root
          RADIX,            \* OSFNs per round of vfn_enter (10 digits)
          Ops,              \* which of the four procedures are called
          MayFail,          \* the host may refuse to delete, create or rename
          MaxDead           \* bound on the number of processes that die

OSFN == 0..MAX_DEGENERACY

ASSUME MapAssumption ==
    /\ NoName \notin Name \cup Proc \cup OSFN
    /\ MAX_LONGFNAMES \in Nat \ {0}
    /\ RADIX \in Nat \ {0} /\ MAX_DEGENERACY \in {RADIX * i : i \in 1..MAX_DEGENERACY}
    /\ Ops \subseteq {"open", "alloc", "delete", "rename"}
    /\ MayFail \in BOOLEAN /\ MaxDead \in Nat

VARIABLES
    mapfile,    \* the mapping file exists
    map,        \* its pairs: the OSFN of each VFN in it
    disk,       \* the VFN whose data the host keeps under each OSFN, or NoName
    free,       \* the lockfile exists
    owner,      \* the process whose stamp is on the lock, or NoName
    st,         \* the processes
    broken,     \* history: a lock was put back by a process that had not set it
    harm        \* history: what has happened to the database so far

vars == <<mapfile, map, disk, free, owner, st, broken, harm>>

Empty == [v \in {} |-> 0]

\* What a process keeps: at, its next kernel call; op, the procedure it is in,
\* and after, the one that called fclobber; v, the open VFN; w, the other name
\* of frename; mem, the MFD of v; added, history: vfn_enter has put v in it;
\* fresh, the MFD was not read from a file; linked, its channel is that of the
\* present mapping file; osfn and old, the OSFNs of v and w; ok, how the
\* procedure will end.  M_MODIFIED needs no field: it is written to the mapping
\* file and read back with the rest, so that an MFD that has a pair, or had
\* one, is always modified.
Idle == [at |-> "idle", op |-> "none", after |-> "none", v |-> NoName, w |-> NoName,
         mem |-> Empty, added |-> FALSE, fresh |-> FALSE, linked |-> FALSE,
         osfn |-> 0, old |-> 0, ok |-> "ok"]

Locked == {"read", "enter", "exists", "unlink", "again", "create", "move", "commit",
           "close", "rmmap", "rmlock", "leave", "leak"}
Places == Locked \cup {"idle", "look", "access", "find", "make", "init", "lock",
                       "raised", "zopen", "dead"}

At(p, place) == st[p].at = place
Holders == {p \in Proc : st[p].at \in Locked}

Entry(v) == IF v \in DOMAIN map THEN map[v] ELSE NoName

Goto(p, place) == st' = [st EXCEPT ![p].at = place]

\* Something happens after which files and names need not agree any more: a
\* flaw of the code that FilesFound excepts.
FlawedIf(bad) == harm' = IF bad /\ harm = "none" THEN "flawed" ELSE harm
Flawed == FlawedIf(TRUE)

\* The procedure fails: leave through close_, without an update.
Abandon(p, how) == st' = [st EXCEPT ![p].at = "close", ![p].ok = how]

Within(p, ops) == st[p].op \in ops

Init ==
    /\ mapfile = FALSE /\ map = Empty
    /\ disk = [k \in OSFN |-> NoName]
    /\ free = FALSE /\ owner = NoName
    /\ st = [p \in Proc |-> Idle]
    /\ broken = FALSE /\ harm = "none"

-----------------------------------------------------------------------------
(* The four procedures, up to their first vfnopen (VFN_WRITE).             *)

Start(p) ==
    /\ At(p, "idle")
    /\ \E v \in Name :
         \/ \E op \in Ops \cap {"open", "alloc"} :
              st' = [st EXCEPT ![p] = [Idle EXCEPT !.at = "look", !.op = op, !.v = v]]
         \/ /\ "delete" \in Ops
            /\ st' = [st EXCEPT ![p] = [Idle EXCEPT !.at = "find", !.op = "delete", !.v = v]]
         \/ /\ "rename" \in Ops
            /\ \E w \in Name \ {v} :
                 st' = [st EXCEPT ![p] = [Idle EXCEPT !.at = "find", !.op = "rename1",
                                                      !.v = v, !.w = w]]
    /\ UNCHANGED <<mapfile, map, disk, free, owner, broken, harm>>

\* frename at fixvfn_: add the old name to the database again.
Undelete(p) == [Idle EXCEPT !.at = "find", !.op = "rename3",
                            !.v = st[p].w, !.w = st[p].v, !.old = st[p].old]

\* fclobber: access, which reads the mapping file without a lock, ...
Look(p) ==
    /\ At(p, "look")
    /\ IF mapfile /\ st[p].v \in DOMAIN map
       THEN st' = [st EXCEPT ![p].at = "access", ![p].osfn = map[st[p].v]]
       ELSE Goto(p, "find")
    /\ UNCHANGED <<mapfile, map, disk, free, owner, broken, harm>>

\* ... and delete if the file is there and may be clobbered.  If it may not,
\* filopn and falloc return the error and frename restores the old name.
Access(p) ==
    /\ At(p, "access")
    /\ \/ disk[st[p].osfn] = NoName /\ Goto(p, "find")
       \/ /\ disk[st[p].osfn] # NoName
          /\ st' = [st EXCEPT ![p].at = "find", ![p].op = "delete", ![p].after = st[p].op]
       \/ /\ disk[st[p].osfn] # NoName /\ MayFail
          /\ st' = [st EXCEPT ![p] = IF st[p].op = "rename2" THEN Undelete(p) ELSE Idle]
    /\ UNCHANGED <<mapfile, map, disk, free, owner, broken, harm>>

-----------------------------------------------------------------------------
(* vvfn_readmapfile, for VFN_WRITE                                         *)

FindMap(p) ==
    /\ At(p, "find")
    /\ st' = [st EXCEPT ![p].at = IF mapfile THEN "lock" ELSE "make",
                        ![p].fresh = ~mapfile]
    /\ UNCHANGED <<mapfile, map, disk, free, owner, broken, harm>>

\* zopnbf (NEW_FILE) truncates a mapping file that somebody else has made since.
MakeMap(p) ==
    /\ At(p, "make")
    /\ mapfile' = TRUE /\ map' = Empty
    /\ harm' = IF mapfile THEN "replaced" ELSE harm
    /\ st' = [st EXCEPT ![p].at = "init", ![p].linked = TRUE]
    /\ UNCHANGED <<disk, free, owner, broken>>

\* vfnopen or vfnclose ends with an error.  When it was called by the fclobber
\* of frename, the old name is restored; frename itself goes to abort_.
Fail(p) ==
    st' = [st EXCEPT ![p] = IF Within(p, {"delete"}) /\ st[p].after = "rename2"
                            THEN Undelete(p) ELSE Idle]

\* zopnbf fails: frename leaves the file without a name.
MakeFails(p) ==
    /\ At(p, "make")
    /\ MayFail /\ Fail(p)
    /\ FlawedIf(Within(p, {"rename2", "rename3"}))
    /\ UNCHANGED <<mapfile, map, disk, free, owner, broken>>

\* osfn_initlock.  Without the mapping file it fails, but its error is seen
\* only after osfn_lock has returned.
InitLock(p) ==
    /\ At(p, "init")
    /\ IF mapfile
       THEN /\ free' = TRUE /\ owner' = NoName
            /\ broken' = (broken \/ Holders # {})
            /\ Goto(p, "lock")
       ELSE /\ Goto(p, "raised")
            /\ UNCHANGED <<free, owner, broken>>
    /\ UNCHANGED <<mapfile, map, disk, harm>>

\* Mutant: the lockfile is looked at, not deleted.
TakeLockByTest(p) ==
    /\ free
    /\ \/ At(p, "lock") /\ Goto(p, "read")
       \/ At(p, "raised") /\ Goto(p, "leak")
    /\ owner' = p
    /\ UNCHANGED <<mapfile, map, disk, free, broken, harm>>

\* osfn_lock
TakeLock(p) ==
    /\ free
    /\ free' = FALSE /\ owner' = p
    /\ \/ At(p, "lock") /\ Goto(p, "read")
       \/ At(p, "raised") /\ Goto(p, "leak")
    /\ UNCHANGED <<mapfile, map, disk, broken, harm>>

\* An error exit of vvfn_readmapfile or a memory fault: the lock stays set.
LeakLock(p) ==
    /\ At(p, "leak") /\ Fail(p)
    /\ Flawed
    /\ UNCHANGED <<mapfile, map, disk, free, owner, broken>>

\* The MFD as vfndel leaves it when it finds the VFN, and vfnadd when it does
\* and need not call vfn_enter.
Deleting(p) == st[p].op \in {"delete", "rename1"}

Removed(mem, v) == Restrict(mem, DOMAIN mem \ {v})

Found(p, mem) ==
    IF Deleting(p)
    THEN [st[p] EXCEPT !.at = "exists", !.mem = Removed(mem, st[p].v),
                       !.osfn = mem[st[p].v]]
    ELSE [st[p] EXCEPT !.at = CASE st[p].op = "alloc"   -> "create"
                                [] st[p].op = "rename2" -> "close"
                                [] OTHER                -> "commit",
                       !.ok = IF st[p].op = "rename2" THEN "err" ELSE "ok",
                       !.mem = mem, !.osfn = mem[st[p].v]]

NotFound(p, mem) ==
    IF Deleting(p)
    THEN [st[p] EXCEPT !.at = "close", !.mem = mem, !.ok = "error"]
    ELSE [st[p] EXCEPT !.at = "enter", !.mem = mem, !.osfn = 0]

\* The mapping file is opened and read, unless it was created: then nobody
\* reads what others have written to it since.  vfnmap searches the MFD, and
\* vfnadd and vfndel go on from there.
ReadMap(p) ==
    /\ At(p, "read")
    /\ IF ~st[p].fresh /\ ~mapfile
       THEN Goto(p, "leak")
       ELSE LET mem == IF st[p].fresh THEN Empty ELSE map
                mfd == IF st[p].v \in DOMAIN mem THEN Found(p, mem) ELSE NotFound(p, mem)
            IN  st' = [st EXCEPT ![p] = [mfd EXCEPT !.linked = @ \/ ~st[p].fresh]]
    /\ IF st[p].fresh /\ map # Empty
       THEN harm' = "replaced"
       ELSE FlawedIf(st[p].op = "rename3" /\ Entry(st[p].v) \notin {NoName, st[p].old})
    /\ UNCHANGED <<mapfile, map, disk, free, owner, broken>>

-----------------------------------------------------------------------------
(* vfn_enter: the first OSFN of the series that no file has.               *)

Paired(mem, v, k) == [u \in DOMAIN mem \cup {v} |-> IF u = v THEN k ELSE mem[u]]

\* Where vfnadd was called from continues.
Added(p) == CASE st[p].op = "alloc"   -> "create"
              [] st[p].op = "rename2" -> "move"
              [] OTHER                -> "commit"

\* SYS_FDEGEN or SYS_FTMLONGFN.  frename goes to close_, not to fixvfn_: the
\* old name stays out of the database.
EnterFails(p) ==
    /\ Abandon(p, "error")
    /\ FlawedIf(st[p].op \in {"rename2", "rename3"})

\* The last round of the search ends with m * RADIX at the limit, whether or
\* not it has found a name.
InLastRound(k) == k > MAX_DEGENERACY - RADIX

\* zfacss says that the OSFN is in use.  The first time M_ADDZMD is set through
\* a pointer that has no value yet: a memory fault, or a word lost somewhere.
Probe(p) ==
    /\ At(p, "enter")
    /\ disk[st[p].osfn] # NoName
    /\ \/ st[p].osfn = 0 /\ Goto(p, "leak") /\ UNCHANGED harm
       \/ /\ st[p].osfn < MAX_DEGENERACY
          /\ st' = [st EXCEPT ![p].osfn = @ + 1]
          /\ UNCHANGED harm
       \/ st[p].osfn = MAX_DEGENERACY /\ EnterFails(p)
    /\ UNCHANGED <<mapfile, map, disk, free, owner, broken>>

\* Mutant: the limit is compared with the pairs there were.
EnterOneMore(p) ==
    /\ At(p, "enter")
    /\ disk[st[p].osfn] = NoName
    /\ IF \/ st[p].osfn > 0 /\ InLastRound(st[p].osfn)
          \/ Cardinality(DOMAIN st[p].mem) > MAX_LONGFNAMES
       THEN EnterFails(p)
       ELSE /\ st' = [st EXCEPT ![p].at = Added(p), ![p].added = TRUE,
                                ![p].mem = Paired(@, st[p].v, st[p].osfn)]
            /\ UNCHANGED harm
    /\ UNCHANGED <<mapfile, map, disk, free, owner, broken>>

\* zfacss says that it is not: the pair is added to the MFD.  Nobody looks
\* whether another pair of the map has the OSFN already.
Enter(p) ==
    /\ At(p, "enter")
    /\ disk[st[p].osfn] = NoName
    /\ IF \/ st[p].osfn > 0 /\ InLastRound(st[p].osfn)
          \/ Cardinality(DOMAIN st[p].mem) + 1 > MAX_LONGFNAMES
       THEN EnterFails(p)
       ELSE /\ st' = [st EXCEPT ![p].at = Added(p), ![p].added = TRUE,
                                ![p].mem = Paired(@, st[p].v, st[p].osfn)]
            /\ FlawedIf(\/ st[p].osfn \in Range(st[p].mem)
                        \/ st[p].op = "rename3" /\ st[p].osfn # st[p].old)
    /\ UNCHANGED <<mapfile, map, disk, free, owner, broken>>

-----------------------------------------------------------------------------
(* The physical file operations inside a transaction.                      *)

\* delete and frename: zfacss (osfn)
Exists(p) ==
    /\ At(p, "exists")
    /\ IF disk[st[p].osfn] = NoName
       THEN Abandon(p, "error")
       ELSE Goto(p, IF st[p].op = "delete" THEN "unlink" ELSE "commit")
    /\ UNCHANGED <<mapfile, map, disk, free, owner, broken, harm>>

\* delete: zfprot, zfdele
Unlink(p) ==
    /\ At(p, "unlink")
    /\ \/ /\ disk[st[p].osfn] # NoName
          /\ disk' = [disk EXCEPT ![st[p].osfn] = NoName]
          /\ Goto(p, "again")
       \/ /\ disk[st[p].osfn] = NoName \/ MayFail
          /\ Abandon(p, "error")
          /\ UNCHANGED disk
    /\ UNCHANGED <<mapfile, map, free, owner, broken, harm>>

\* Mutant: the test for an older version is inverted.
AgainInverted(p) ==
    /\ At(p, "again")
    /\ Goto(p, IF disk[st[p].osfn] = NoName THEN "close" ELSE "commit")
    /\ UNCHANGED <<mapfile, map, disk, free, owner, broken, harm>>

\* delete: if the file is there again the pair is kept.
Again(p) ==
    /\ At(p, "again")
    /\ Goto(p, IF disk[st[p].osfn] = NoName THEN "commit" ELSE "close")
    /\ UNCHANGED <<mapfile, map, disk, free, owner, broken, harm>>

\* falloc: zfaloc (fmkcopy: zfmkcp)
Create(p) ==
    /\ At(p, "create")
    /\ \/ /\ disk' = [disk EXCEPT ![st[p].osfn] = st[p].v]
          /\ Goto(p, "commit")
       \/ MayFail /\ Abandon(p, "error") /\ UNCHANGED disk
    /\ UNCHANGED <<mapfile, map, free, owner, broken, harm>>

\* frename: zfrnam; an error closes the new name and restores the old one.
Move(p) ==
    /\ At(p, "move")
    /\ \/ /\ disk[st[p].old] # NoName
          /\ disk' = [disk EXCEPT ![st[p].old] = NoName, ![st[p].osfn] = st[p].v]
          /\ Goto(p, "commit")
       \/ /\ disk[st[p].old] = NoName \/ MayFail
          /\ Abandon(p, "err")
          /\ UNCHANGED disk
    /\ UNCHANGED <<mapfile, map, free, owner, broken, harm>>

-----------------------------------------------------------------------------
(* vfnclose                                                                *)

\* VFN_UPDATE, while there is time left on the lock.
Commit(p) ==
    /\ At(p, "commit") /\ owner = p
    /\ map' = IF st[p].linked THEN st[p].mem ELSE map
    /\ harm' = IF st[p].linked THEN harm ELSE "replaced"
    /\ Goto(p, "close")
    /\ UNCHANGED <<mapfile, disk, free, owner, broken>>

\* The write fails: the lock stays set.  A file that has been made or has a new
\* name is not in the database, one that has been deleted still is.
WriteFails(p) ==
    /\ At(p, "commit") /\ owner = p
    /\ MayFail /\ Fail(p)
    /\ FlawedIf(\/ Within(p, {"delete", "rename2", "rename3"})
                \/ Within(p, {"alloc"}) /\ st[p].added)
    /\ UNCHANGED <<mapfile, map, disk, free, owner, broken>>

\* The lock is lost, or has too little time left.  osfn_unlock; then the
\* rollback locks the file again and ends in a null pointer (see FileLock).
Rollback(p) ==
    /\ At(p, "commit")
    /\ free' = (free \/ owner = p)
    /\ Goto(p, "dead")
    /\ Flawed
    /\ UNCHANGED <<mapfile, map, disk, owner, broken>>

\* What follows vfnclose.
AfterClose(p) ==
    CASE st[p].op = "open" /\ st[p].ok = "ok" ->
            [Idle EXCEPT !.at = "zopen", !.op = "open", !.v = st[p].v, !.osfn = st[p].osfn]
      [] st[p].op = "delete" /\ st[p].ok = "ok" /\ st[p].after # "none" ->
            [Idle EXCEPT !.at = "find", !.op = st[p].after, !.v = st[p].v,
                         !.w = st[p].w, !.old = st[p].old]
      [] st[p].op = "delete" /\ st[p].ok # "ok" /\ st[p].after = "rename2" ->
            Undelete(p)
      [] st[p].op = "rename1" /\ st[p].ok = "ok" ->
            [Idle EXCEPT !.at = "look", !.op = "rename2", !.v = st[p].w, !.w = st[p].v,
                         !.old = st[p].osfn]
      [] st[p].op = "rename2" /\ st[p].ok = "err" ->
            Undelete(p)
      [] OTHER -> Idle

\* Mutant: the lock is given back before the mapping file is deleted.
CloseUnlocking(p) ==
    /\ At(p, "close")
    /\ free' = (free \/ owner = p)
    /\ IF st[p].mem = Empty
       THEN Goto(p, "rmmap")
       ELSE st' = [st EXCEPT ![p] = AfterClose(p)]
    /\ UNCHANGED <<mapfile, map, disk, owner, broken, harm>>

\* zclsbf fails: the lock stays set, and the caller takes a transaction that was
\* written for one that was not: filopn does not make the file, frename does
\* not move it.  A frename that was to restore the old name does not.
CloseFails(p) ==
    /\ At(p, "close")
    /\ MayFail /\ Fail(p)
    /\ FlawedIf(\/ Within(p, {"open", "rename1"}) /\ st[p].ok = "ok"
                \/ Within(p, {"rename2"}) /\ st[p].ok = "err")
    /\ UNCHANGED <<mapfile, map, disk, free, owner, broken>>

\* osfn_unlock, if the MFD has a pair left; otherwise, with VFN_NOUPDATE too,
\* the mapping file is deleted.
Close(p) ==
    /\ At(p, "close")
    /\ IF st[p].mem = Empty
       THEN Goto(p, "rmmap") /\ UNCHANGED free
       ELSE /\ free' = (free \/ owner = p)
            /\ st' = [st EXCEPT ![p] = AfterClose(p)]
    /\ UNCHANGED <<mapfile, map, disk, owner, broken, harm>>

\* zfdele (osfn): channels that are open to it are cut off.
RemoveMap(p) ==
    /\ At(p, "rmmap")
    /\ mapfile' = FALSE /\ map' = Empty
    /\ FlawedIf(map # Empty)
    /\ st' = [q \in Proc |-> [st[q] EXCEPT !.linked = FALSE,
                                           !.at = IF q = p THEN "rmlock" ELSE @]]
    /\ UNCHANGED <<disk, free, owner, broken>>

\* osfn_rmlock
RemoveLock(p) ==
    /\ At(p, "rmlock")
    /\ free' = FALSE /\ owner' = NoName
    /\ Goto(p, "leave")
    /\ UNCHANGED <<mapfile, map, disk, broken, harm>>

Leave(p) ==
    /\ At(p, "leave")
    /\ st' = [st EXCEPT ![p] = AfterClose(p)]
    /\ UNCHANGED <<mapfile, map, disk, free, owner, broken, harm>>

\* filopn opens the new file when the VFN has been closed: the pair may be gone
\* already, or about to go.
ZOpen(p) ==
    /\ At(p, "zopen")
    /\ \/ /\ disk' = [disk EXCEPT ![st[p].osfn] = st[p].v]
          /\ FlawedIf(\/ Entry(st[p].v) # st[p].osfn
                      \/ \E q \in Holders : st[q].v = st[p].v)
       \/ MayFail /\ UNCHANGED disk /\ Flawed
    /\ st' = [st EXCEPT ![p] = Idle]
    /\ UNCHANGED <<mapfile, map, free, owner, broken>>

-----------------------------------------------------------------------------
(* The environment.                                                        *)

\* A waiter finds that the lock has expired, and breaks it.
BreakLock(p) ==
    /\ At(p, "lock") \/ At(p, "raised")
    /\ mapfile /\ ~free
    /\ free' = TRUE /\ owner' = NoName /\ broken' = TRUE
    /\ UNCHANGED <<mapfile, map, disk, st, harm>>

Die(p) ==
    /\ st[p].at \notin {"idle", "dead"}
    /\ Cardinality({q \in Proc : At(q, "dead")}) < MaxDead
    /\ Goto(p, "dead")
    /\ Flawed
    /\ UNCHANGED <<mapfile, map, disk, free, owner, broken>>

OpenMap(p) == \/ FindMap(p) \/ MakeMap(p) \/ MakeFails(p) \/ InitLock(p) \/ TakeLock(p)
              \/ LeakLock(p) \/ ReadMap(p)

FileOp(p) == Exists(p) \/ Unlink(p) \/ Again(p) \/ Create(p) \/ Move(p) \/ ZOpen(p)

VfnClose(p) == \/ Commit(p) \/ WriteFails(p) \/ Rollback(p) \/ Close(p) \/ CloseFails(p)
               \/ RemoveMap(p) \/ RemoveLock(p) \/ Leave(p)

Next ==
    \E p \in Proc :
        \/ Start(p) \/ Look(p) \/ Access(p) \/ OpenMap(p) \/ Probe(p) \/ Enter(p)
        \/ FileOp(p) \/ VfnClose(p) \/ BreakLock(p) \/ Die(p)

Spec == Init /\ [][Next]_vars
-----------------------------------------------------------------------------
(* Properties.                                                             *)

Mappings == UNION {[V -> OSFN] : V \in SUBSET Name}

\* The MFD of a process, like the mapping file, holds each VFN once, at most
\* MAX_LONGFNAMES of them, and OSFNs of the series only.
TypeOK ==
    /\ mapfile \in BOOLEAN /\ free \in BOOLEAN /\ broken \in BOOLEAN
    /\ map \in Mappings /\ Cardinality(DOMAIN map) <= MAX_LONGFNAMES
    /\ ~mapfile => map = Empty
    /\ disk \in [OSFN -> Name \cup {NoName}]
    /\ owner \in Proc \cup {NoName}
    /\ \A p \in Proc :
         /\ st[p].at \in Places
         /\ st[p].mem \in Mappings /\ Cardinality(DOMAIN st[p].mem) <= MAX_LONGFNAMES
         /\ {st[p].osfn, st[p].old} \subseteq OSFN
         /\ {st[p].v, st[p].w} \subseteq Name \cup {NoName}
    /\ harm \in {"none", "flawed", "replaced"}

Lock == INSTANCE AdvisoryLock WITH holders <- Holders

\* The transactions use the lock as osfn_lock promises it: every step takes,
\* gives back, gives up, withdraws, installs or breaks it, or leaves it alone.
LockProtocol == Lock!ASpec

\* A step that changes the mapping file changes the pair of one VFN only, that
\* of the process which takes the step.
OwnPairOnly ==
    \A v \in Name : Entry(v)' # Entry(v) =>
        \E p \in Proc : st[p].v = v /\ st'[p] # st[p] /\ st[p].at \in {"commit", "rmmap"}

\* No update is lost as long as the lock has not been broken and the mapping
\* file has been in place when the others came to use it.
OnePairChanges == [][~broken /\ harm' # "replaced" => OwnPairOnly]_vars

\* doc/vfn.hlp:286-289: "Mutual exclusion must be guaranteed.  The period of
\* time during which a process opens and reads the mapping file, modifies it,
\* and updates the file on disk is the critical section": no update is lost as
\* long as the lock has not been broken.
NoLostUpdate == [][~broken => OwnPairOnly]_vars

\* A VFN that some procedure is working on.
Busy(v) == \E p \in Proc : st[p].at # "idle" /\ v \in {st[p].v, st[p].w}

\* Every file is found under its own name, and every name of the database has
\* its file, between the procedures that work on them: unless the lock was
\* broken, or one of the flaws has occurred.
FilesFound ==
    ~broken /\ harm = "none" =>
        \A v \in Name : ~Busy(v) =>
            \A k \in OSFN : disk[k] = v <=> Entry(v) = k

\* vfnmap.x:49-50: "No vfn disk data structures will be modified if a vfn is
\* closed with VFN_NOUPDATE set."
NoUpdateKeepsMap ==
    [][\A p \in Proc : At(p, "rmmap") /\ st'[p] # st[p] /\ st[p].ok # "ok" =>
          \A v \in Name : Entry(v)' = Entry(v)]_vars

\* frename.x:81-83: "If the vfnadd or the physical rename operation fail then
\* we must go back and undelete the old VFN": when frename has done so and
\* returns, the file that it did not rename is found under the old name again.
RenameUndeletes ==
    [][\A p \in Proc :
         /\ st[p].op = "rename3" /\ st[p].ok = "ok"
         /\ st[p].at \in {"close", "leave"} /\ At(p, "idle")'
         /\ disk[st[p].old] = st[p].v
         => Entry(st[p].v) = st[p].old]_vars
=============================================================================
