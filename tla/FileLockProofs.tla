--------------------------- MODULE FileLockProofs ---------------------------
(***************************************************************************)
(* What holds of the file locking protocol for every set of processes and  *)
(* every value of the periods and bounds.                                  *)
(***************************************************************************)
EXTENDS FileLock, TLAPS

-----------------------------------------------------------------------------
(* Types.                                                                  *)

\* Every place a step goes to is one of PC.
LEMMA Places ==
  /\ {"try", "tl1", "recover", "stat", "age", "brk1", "brk2", "brk3", "put1"} \subseteq PC
  /\ {"set1", "set2", "set3", "open", "held", "chk2", "chk3", "update"} \subseteq PC
  /\ {"ulk1", "ulk2", "ulk3", "rm0", "rm1", "rm2", "rm3", "undef"} \subseteq PC
  /\ {"idle", "exist", "create", "init1", "init2", "init3", "access", "dead"} \subseteq PC
  BY DEF PC, Waiting, Owning, Setting, Checking, Unlocking, Removing

LEMMA GoToType ==
  ASSUME pc \in [Proc -> PC], NEW p \in Proc, NEW from, NEW to \in PC, GoTo(p, from, to)
  PROVE  pc' \in [Proc -> PC]
  BY DEF GoTo

\* Returning from a call, or dying, leaves the locals well typed.
LEMMA ReturnType ==
  ASSUME LocalsOK, NEW p \in Proc, Return(p)
  PROVE  LocalsOK'
  <1>1. CASE Forget(p)
    BY <1>1, LockAssumption DEF LocalsOK, Forget, NoFile
  <1>2. CASE UNCHANGED locals
    BY <1>2 DEF LocalsOK, locals
  <1> QED BY <1>1, <1>2 DEF Return

LEMMA InitType == Init => TypeOK
  <1> SUFFICES ASSUME Init
               PROVE  TypeOK
    OBVIOUS
  <1>1. now \in Time /\ FilesOK
    BY LockAssumption DEF Init, FilesOK, Time, NoFile
  <1>2. HistoryOK
    BY LockAssumption DEF Init, HistoryOK, Time
  <1>3. pc \in [Proc -> PC]
    BY Places DEF Init
  <1>4. LocalsOK
    BY LockAssumption DEF Init, LocalsOK, NoFile
  <1> QED BY <1>1, <1>2, <1>3, <1>4 DEF TypeOK

LEMMA ReadMapFileType ==
  ASSUME TypeOK, NEW p \in Proc, OpenVfn(p) \/ ReadMapFile(p)
  PROVE  TypeOK'
  <1>1. CASE OpenVfn(p)
    <2>1. pc' \in [Proc -> PC]
      BY <1>1, GoToType, Places DEF TypeOK, OpenVfn, FindMain
    <2>2. LocalsOK'
      BY <1>1, LockAssumption DEF TypeOK, LocalsOK, FilesOK, OpenVfn, FindMain, locals
    <2> QED BY <1>1, <2>1, <2>2
        DEF TypeOK, FilesOK, HistoryOK, OpenVfn, FindMain, files, history
  <1>2. CASE Reopen(p)
    <2>1. pc' \in [Proc -> PC]
      BY <1>2, GoToType, Places DEF TypeOK, Reopen, FindMain
    <2>2. LocalsOK'
      BY <1>2, LockAssumption DEF TypeOK, LocalsOK, FilesOK, Reopen, FindMain, locals
    <2> QED BY <1>2, <2>1, <2>2
        DEF TypeOK, FilesOK, HistoryOK, Reopen, FindMain, files, history
  <1>3. CASE CreateMain(p)
    <2>1. pc' \in [Proc -> PC]
      BY <1>3, GoToType, Places DEF TypeOK, CreateMain
    <2>2. LocalsOK'
      BY <1>3, ReturnType DEF TypeOK, CreateMain
    <2> QED BY <1>3, <2>1, <2>2
        DEF TypeOK, FilesOK, HistoryOK, CreateMain, files, history
  <1>4. CASE Init1(p)
    <2>1. pc' \in [Proc -> PC]
      BY <1>4, GoToType, Places DEF TypeOK, Init1
    <2>2. LocalsOK'
      BY <1>4, LockAssumption DEF TypeOK, LocalsOK, FilesOK, Init1, locals
    <2> QED BY <1>4, <2>1, <2>2 DEF TypeOK, FilesOK, HistoryOK, Init1, files, history
  <1>5. CASE Init2(p)
    <2>1. pc' \in [Proc -> PC]
      BY <1>5, GoToType, Places DEF TypeOK, Init2
    <2>2. LocalsOK'
      BY <1>5, LockAssumption DEF TypeOK, LocalsOK, FilesOK, Init2, locals
    <2> QED BY <1>5, <2>1, <2>2 DEF TypeOK, FilesOK, HistoryOK, Init2, files, history
  <1>6. CASE Init3(p)
    <2>1. pc' \in [Proc -> PC]
      BY <1>6, GoToType, Places DEF TypeOK, Init3
    <2>2. LocalsOK'
      BY <1>6, LockAssumption DEF TypeOK, LocalsOK, FilesOK, Init3, locals
    <2> QED BY <1>6, <2>1, <2>2 DEF TypeOK, FilesOK, HistoryOK, Init3, files, history
  <1>7. CASE OpenMain(p)
    <2>1. pc' \in [Proc -> PC]
      BY <1>7, GoToType, Places DEF TypeOK, OpenMain, AfterLock, Return, Forget
    <2>2. LocalsOK'
      BY <1>7, ReturnType DEF TypeOK, OpenMain
    <2> QED BY <1>7, <2>1, <2>2
        DEF TypeOK, FilesOK, HistoryOK, OpenMain, AfterLock, Return, Forget, files,
            history
  <1> QED BY <1>1, <1>2, <1>3, <1>4, <1>5, <1>6, <1>7 DEF ReadMapFile

LEMMA LockType ==
  ASSUME TypeOK, NEW p \in Proc, Lock(p)
  PROVE  TypeOK'
  <1>1. CASE Access(p)
    <2>1. pc' \in [Proc -> PC]
      BY <1>1, GoToType, Places DEF TypeOK, Access
    <2>2. LocalsOK'
      BY <1>1, LockAssumption DEF TypeOK, LocalsOK, FilesOK, Access, locals
    <2> QED BY <1>1, <2>1, <2>2 DEF TypeOK, FilesOK, HistoryOK, Access, files, history
  <1>2. CASE Take(p)
    <2>1. pc' \in [Proc -> PC]
      BY <1>2, GoToType, Places DEF TypeOK, Take
    <2>2. LocalsOK'
      BY <1>2, LockAssumption DEF TypeOK, LocalsOK, FilesOK, Take, locals
    <2> QED BY <1>2, <2>1, <2>2 DEF TypeOK, FilesOK, HistoryOK, Take, files, history
  <1>3. CASE TryAgain(p)
    <2>1. pc' \in [Proc -> PC]
      BY <1>3, GoToType, Places DEF TypeOK, TryAgain
    <2>2. LocalsOK'
      BY <1>3, LockAssumption DEF TypeOK, LocalsOK, FilesOK, TryAgain, locals
    <2> QED BY <1>3, <2>1, <2>2 DEF TypeOK, FilesOK, HistoryOK, TryAgain, files, history
  <1>4. CASE TimeOut(p)
    <2>1. pc' \in [Proc -> PC]
      BY <1>4, GoToType, Places DEF TypeOK, TimeOut
    <2>2. LocalsOK'
      BY <1>4, LockAssumption DEF TypeOK, LocalsOK, FilesOK, TimeOut, locals
    <2> QED BY <1>4, <2>1, <2>2 DEF TypeOK, FilesOK, HistoryOK, TimeOut, files, history
  <1>5. CASE MayBreak(p)
    <2>1. pc' \in [Proc -> PC]
      BY <1>5, GoToType, Places DEF TypeOK, MayBreak
    <2>2. LocalsOK'
      BY <1>5, LockAssumption DEF TypeOK, LocalsOK, FilesOK, MayBreak, locals
    <2> QED BY <1>5, <2>1, <2>2 DEF TypeOK, FilesOK, HistoryOK, MayBreak, files, history
  <1>6. CASE MayNotBreak(p)
    <2>1. pc' \in [Proc -> PC]
      BY <1>6, GoToType, Places DEF TypeOK, MayNotBreak
    <2>2. LocalsOK'
      BY <1>6, LockAssumption DEF TypeOK, LocalsOK, FilesOK, MayNotBreak, locals
    <2> QED BY <1>6, <2>1, <2>2
        DEF TypeOK, FilesOK, HistoryOK, MayNotBreak, files, history
  <1>7. CASE Recover(p)
    <2>1. pc' \in [Proc -> PC]
      BY <1>7, GoToType, Places DEF TypeOK, Recover
    <2>2. LocalsOK'
      BY <1>7, LockAssumption DEF TypeOK, LocalsOK, FilesOK, Recover, locals
    <2> QED BY <1>7, <2>1, <2>2 DEF TypeOK, FilesOK, HistoryOK, Recover, files, history
  <1>8. CASE StatLock(p)
    <2>1. pc' \in [Proc -> PC]
      BY <1>8, GoToType, Places DEF TypeOK, StatLock
    <2>2. LocalsOK'
      BY <1>8, LockAssumption DEF TypeOK, LocalsOK, FilesOK, StatLock, locals
    <2> QED BY <1>8, <2>1, <2>2 DEF TypeOK, FilesOK, HistoryOK, StatLock, files, history
  <1>9. CASE CheckAge(p)
    <2>1. pc' \in [Proc -> PC]
      BY <1>9, GoToType, Places DEF TypeOK, CheckAge
    <2>2. LocalsOK'
      BY <1>9, LockAssumption DEF TypeOK, LocalsOK, FilesOK, CheckAge, locals
    <2> QED BY <1>9, <2>1, <2>2 DEF TypeOK, FilesOK, HistoryOK, CheckAge, files, history
  <1>10. CASE Break1(p)
    <2>1. pc' \in [Proc -> PC]
      BY <1>10, GoToType, Places DEF TypeOK, Break1
    <2>2. LocalsOK'
      BY <1>10, LockAssumption DEF TypeOK, LocalsOK, FilesOK, Break1, locals
    <2> QED BY <1>10, <2>1, <2>2 DEF TypeOK, FilesOK, HistoryOK, Break1, files, history
  <1>11. CASE Break2(p)
    <2>1. pc' \in [Proc -> PC]
      BY <1>11, GoToType, Places DEF TypeOK, Break2
    <2>2. LocalsOK'
      BY <1>11, LockAssumption DEF TypeOK, LocalsOK, FilesOK, Break2, locals
    <2> QED BY <1>11, <2>1, <2>2 DEF TypeOK, FilesOK, HistoryOK, Break2, files, history
  <1>12. CASE Break3(p)
    <2>1. pc' \in [Proc -> PC]
      BY <1>12, GoToType, Places DEF TypeOK, Break3
    <2>2. LocalsOK'
      BY <1>12, LockAssumption DEF TypeOK, LocalsOK, FilesOK, Break3, locals
    <2> QED BY <1>12, <2>1, <2>2 DEF TypeOK, FilesOK, HistoryOK, Break3, files, history
  <1>13. CASE PutBack(p)
    <2>1. pc' \in [Proc -> PC]
      BY <1>13, GoToType, Places DEF TypeOK, PutBack
    <2>2. LocalsOK'
      BY <1>13, LockAssumption DEF TypeOK, LocalsOK, FilesOK, PutBack, locals
    <2> QED BY <1>13, <2>1, <2>2 DEF TypeOK, FilesOK, HistoryOK, PutBack, files, history
  <1>14. CASE Set1(p)
    <2>1. pc' \in [Proc -> PC]
      BY <1>14, GoToType, Places DEF TypeOK, Set1
    <2>2. LocalsOK'
      BY <1>14, LockAssumption DEF TypeOK, LocalsOK, FilesOK, Set1, locals
    <2> QED BY <1>14, <2>1, <2>2 DEF TypeOK, FilesOK, HistoryOK, Set1, files, history
  <1>15. CASE Set2(p)
    <2>1. pc' \in [Proc -> PC]
      BY <1>15, GoToType, Places DEF TypeOK, Set2
    <2>2. LocalsOK'
      BY <1>15, LockAssumption DEF TypeOK, LocalsOK, FilesOK, Set2, locals
    <2> QED BY <1>15, <2>1, <2>2 DEF TypeOK, FilesOK, HistoryOK, Set2, files, history
  <1>16. CASE Set3(p)
    <2>1. pc' \in [Proc -> PC]
      BY <1>16, GoToType, Places DEF TypeOK, Set3, Stamp
    <2>2. LocalsOK'
      BY <1>16, LockAssumption DEF TypeOK, LocalsOK, FilesOK, Set3, Stamp, locals
    <2> QED BY <1>16, <2>1, <2>2
        DEF TypeOK, FilesOK, HistoryOK, Set3, Stamp, files, history
  <1> QED BY <1>1, <1>2, <1>3, <1>4, <1>5, <1>6, <1>7, <1>8, <1>9, <1>10, <1>11, <1>12, <1>13, <1>14, <1>15, <1>16
      DEF Lock

LEMMA VfnCloseType ==
  ASSUME TypeOK, NEW p \in Proc, VfnClose(p)
  PROVE  TypeOK'
  <1>1. CASE CloseNoUpdate(p)
    <2>1. pc' \in [Proc -> PC]
      BY <1>1, GoToType, Places DEF TypeOK, CloseNoUpdate, Finish
    <2>2. LocalsOK'
      BY <1>1, ReturnType DEF TypeOK, CloseNoUpdate, Finish
    <2> QED BY <1>1, <2>1, <2>2
        DEF TypeOK, FilesOK, HistoryOK, CloseNoUpdate, Finish, files, history
  <1>2. CASE Check1(p)
    <2>1. pc' \in [Proc -> PC]
      BY <1>2, GoToType, Places DEF TypeOK, Check1, SeeLockfile, Decide
    <2>2. LocalsOK'
      BY <1>2, LockAssumption
      DEF TypeOK, LocalsOK, FilesOK, Check1, SeeLockfile, Decide, locals
    <2> QED BY <1>2, <2>1, <2>2
        DEF TypeOK, FilesOK, HistoryOK, Check1, SeeLockfile, Decide, files, history
  <1>3. CASE Check2(p)
    <2>1. pc' \in [Proc -> PC]
      BY <1>3, GoToType, Places DEF TypeOK, Check2, SeeStamp, Decide
    <2>2. LocalsOK'
      BY <1>3, LockAssumption
      DEF TypeOK, LocalsOK, FilesOK, Check2, SeeStamp, Decide, locals
    <2> QED BY <1>3, <2>1, <2>2
        DEF TypeOK, FilesOK, HistoryOK, Check2, SeeStamp, Decide, files, history
  <1>4. CASE Check3(p)
    <2>1. pc' \in [Proc -> PC]
      BY <1>4, GoToType, Places DEF TypeOK, Check3, Decide
    <2>2. LocalsOK'
      BY <1>4, LockAssumption DEF TypeOK, LocalsOK, FilesOK, Check3, Decide, locals
    <2> QED BY <1>4, <2>1, <2>2
        DEF TypeOK, FilesOK, HistoryOK, Check3, Decide, files, history
  <1>5. CASE Update(p)
    <2>1. pc' \in [Proc -> PC]
      BY <1>5, GoToType, Places DEF TypeOK, Update, Finish
    <2>2. LocalsOK'
      BY <1>5, ReturnType DEF TypeOK, Update, Finish
    <2> QED BY <1>5, <2>1, <2>2
        DEF TypeOK, FilesOK, HistoryOK, Update, Finish, files, history
  <1> QED BY <1>1, <1>2, <1>3, <1>4, <1>5 DEF VfnClose

LEMMA UnlockType ==
  ASSUME TypeOK, NEW p \in Proc, Unlock(p)
  PROVE  TypeOK'
  <1>1. CASE Unlock1(p)
    <2>1. pc' \in [Proc -> PC]
      BY <1>1, GoToType, Places
      DEF TypeOK, Unlock1, SeeLockfile, AfterUnlock, Return, Forget
    <2>2. LocalsOK'
      BY <1>1, ReturnType DEF TypeOK, Unlock1, SeeLockfile
    <2> QED BY <1>1, <2>1, <2>2
        DEF TypeOK, FilesOK, HistoryOK, Unlock1, SeeLockfile, AfterUnlock, Return,
            Forget, files, history
  <1>2. CASE Unlock2(p)
    <2>1. pc' \in [Proc -> PC]
      BY <1>2, GoToType, Places
      DEF TypeOK, Unlock2, SeeStamp, AfterUnlock, Return, Forget
    <2>2. LocalsOK'
      BY <1>2, ReturnType DEF TypeOK, Unlock2, SeeStamp
    <2> QED BY <1>2, <2>1, <2>2
        DEF TypeOK, FilesOK, HistoryOK, Unlock2, SeeStamp, AfterUnlock, Return,
            Forget, files, history
  <1>3. CASE Unlock3(p)
    <2>1. pc' \in [Proc -> PC]
      BY <1>3, GoToType, Places DEF TypeOK, Unlock3, AfterUnlock, Return, Forget
    <2>2. LocalsOK'
      BY <1>3, ReturnType DEF TypeOK, Unlock3
    <2> QED BY <1>3, <2>1, <2>2
        DEF TypeOK, FilesOK, HistoryOK, Unlock3, AfterUnlock, Return, Forget, files,
            history
  <1> QED BY <1>1, <1>2, <1>3 DEF Unlock

LEMMA RemoveType ==
  ASSUME TypeOK, NEW p \in Proc, Remove(p)
  PROVE  TypeOK'
  <1>1. CASE RemoveMain(p)
    <2>1. pc' \in [Proc -> PC]
      BY <1>1, GoToType, Places DEF TypeOK, RemoveMain
    <2>2. LocalsOK'
      BY <1>1, LockAssumption DEF TypeOK, LocalsOK, FilesOK, RemoveMain, locals
    <2> QED BY <1>1, <2>1, <2>2
        DEF TypeOK, FilesOK, HistoryOK, RemoveMain, files, history
  <1>2. CASE Remove1(p)
    <2>1. pc' \in [Proc -> PC]
      BY <1>2, GoToType, Places DEF TypeOK, Remove1
    <2>2. LocalsOK'
      BY <1>2, LockAssumption DEF TypeOK, LocalsOK, FilesOK, Remove1, locals
    <2> QED BY <1>2, <2>1, <2>2 DEF TypeOK, FilesOK, HistoryOK, Remove1, files, history
  <1>3. CASE Remove2(p)
    <2>1. pc' \in [Proc -> PC]
      BY <1>3, GoToType, Places DEF TypeOK, Remove2
    <2>2. LocalsOK'
      BY <1>3, LockAssumption DEF TypeOK, LocalsOK, FilesOK, Remove2, locals
    <2> QED BY <1>3, <2>1, <2>2 DEF TypeOK, FilesOK, HistoryOK, Remove2, files, history
  <1>4. CASE Remove3(p)
    <2>1. pc' \in [Proc -> PC]
      BY <1>4, GoToType, Places DEF TypeOK, Remove3, Return, Forget
    <2>2. LocalsOK'
      BY <1>4, ReturnType DEF TypeOK, Remove3
    <2> QED BY <1>4, <2>1, <2>2
        DEF TypeOK, FilesOK, HistoryOK, Remove3, Return, Forget, files, history
  <1> QED BY <1>1, <1>2, <1>3, <1>4 DEF Remove

LEMMA StepType ==
  ASSUME TypeOK, [Next]_vars
  PROVE  TypeOK'
  <1>1. CASE Tick
    BY <1>1, LockAssumption
    DEF TypeOK, FilesOK, LocalsOK, HistoryOK, Tick, Time, files, locals, history
  <1>2. ASSUME NEW p \in Proc, OpenVfn(p) \/ Step(p)
        PROVE  TypeOK'
    BY <1>2, ReadMapFileType, LockType, VfnCloseType, UnlockType, RemoveType DEF Step
  <1>3. ASSUME NEW p \in Proc, Die(p)
        PROVE  TypeOK'
    <2>1. LocalsOK'
      BY <1>3, ReturnType DEF TypeOK, Die
    <2> QED BY <1>3, <2>1, Places DEF TypeOK, FilesOK, HistoryOK, Die, files, history
  <1>4. CASE UNCHANGED vars
    BY <1>4 DEF TypeOK, FilesOK, LocalsOK, HistoryOK, vars, files, locals, history
  <1> QED BY <1>1, <1>2, <1>3, <1>4 DEF Next

\* Type correctness of the protocol: the stamps are file times, and the retry
\* counters of osfn_lock stay within their limits.
THEOREM TypeCorrect == Spec => []TypeOK
  BY InitType, StepType, PTL DEF Spec

-----------------------------------------------------------------------------
(* The protocol implements the advisory lock.                              *)

Holders == {p \in Proc : Holding(p)}

\* Before osfn_initlock has run for a file without lock files, and before a
\* waiter has recreated the lockfile, nobody can have taken it.
Fresh == installed = "absent" /\ lastBreak < 0 => ~lockfile /\ Holders = {}

LockInv == TypeOK /\ Fresh

LEMMA Owned ==
  /\ {"set1", "set2", "set3", "open", "held", "chk2", "chk3", "update"} \subseteq Owning
  /\ {"ulk1", "ulk2", "ulk3", "rm0", "rm1", "rm2", "rm3", "undef"} \subseteq Owning
  BY DEF Owning, Setting, Checking, Unlocking, Removing

LEMMA NotOwned ==
  /\ "try" \notin Owning /\ "tl1" \notin Owning /\ "recover" \notin Owning
  /\ "stat" \notin Owning /\ "age" \notin Owning /\ "brk1" \notin Owning
  /\ "brk2" \notin Owning /\ "brk3" \notin Owning /\ "put1" \notin Owning
  /\ "idle" \notin Owning /\ "exist" \notin Owning /\ "create" \notin Owning
  /\ "init1" \notin Owning /\ "init2" \notin Owning /\ "init3" \notin Owning
  /\ "access" \notin Owning /\ "dead" \notin Owning
  BY DEF Owning, Setting, Checking, Unlocking, Removing

\* A move to another place makes the process a holder or takes it away.
LEMMA MoveHolders ==
  ASSUME pc \in [Proc -> PC], NEW p \in Proc, NEW from, NEW to, GoTo(p, from, to)
  PROVE  /\ Holders' = IF to \in Owning THEN Holders \cup {p} ELSE Holders \ {p}
         /\ p \in Holders <=> from \in Owning
  BY DEF GoTo, Holders, Holding

\* A step that the abstract lock does not see.
Silent == UNCHANGED <<lockfile, Holders, lastBreak, installed>>

LEMMA SilentLock ==
  ASSUME TypeOK, NEW p \in Proc,
           \/ Access(p) \/ TryAgain(p) \/ TimeOut(p) \/ MayBreak(p) \/ MayNotBreak(p)
           \/ Recover(p) \/ StatLock(p) \/ CheckAge(p) \/ Break2(p) \/ Break3(p)
           \/ PutBack(p) \/ Set1(p) \/ Set2(p) \/ Set3(p)
  PROVE  Silent
  <1>1. CASE Access(p)
    BY <1>1, MoveHolders, Owned, NotOwned
    DEF TypeOK, Silent, Access, files, locals, history
  <1>2. CASE TryAgain(p)
    BY <1>2 DEF Silent, Holders, Holding, TryAgain, files, locals, history
  <1>3. CASE TimeOut(p)
    BY <1>3, MoveHolders, Owned, NotOwned
    DEF TypeOK, Silent, TimeOut, files, locals, history
  <1>4. CASE MayBreak(p)
    BY <1>4, MoveHolders, Owned, NotOwned
    DEF TypeOK, Silent, MayBreak, files, locals, history
  <1>5. CASE MayNotBreak(p)
    BY <1>5, MoveHolders, Owned, NotOwned
    DEF TypeOK, Silent, MayNotBreak, files, locals, history
  <1>6. CASE Recover(p)
    BY <1>6, MoveHolders, Owned, NotOwned
    DEF TypeOK, Silent, Recover, files, locals, history
  <1>7. CASE StatLock(p)
    BY <1>7, MoveHolders, Owned, NotOwned
    DEF TypeOK, Silent, StatLock, files, locals, history
  <1>8. CASE CheckAge(p)
    BY <1>8, MoveHolders, Owned, NotOwned
    DEF TypeOK, Silent, CheckAge, files, locals, history
  <1>9. CASE Break2(p)
    BY <1>9, MoveHolders, Owned, NotOwned
    DEF TypeOK, Silent, Break2, files, locals, history
  <1>10. CASE Break3(p)
    BY <1>10, MoveHolders, Owned, NotOwned
    DEF TypeOK, Silent, Break3, files, locals, history
  <1>11. CASE PutBack(p)
    BY <1>11, MoveHolders, Owned, NotOwned
    DEF TypeOK, Silent, PutBack, files, locals, history
  <1>12. CASE Set1(p)
    BY <1>12, MoveHolders, Owned, NotOwned
    DEF TypeOK, Silent, Set1, files, locals, history
  <1>13. CASE Set2(p)
    BY <1>13, MoveHolders, Owned, NotOwned
    DEF TypeOK, Silent, Set2, files, locals, history
  <1>14. CASE Set3(p)
    BY <1>14, MoveHolders, Owned, NotOwned
    DEF TypeOK, Silent, Set3, Stamp, files, locals, history
  <1> QED BY <1>1, <1>2, <1>3, <1>4, <1>5, <1>6, <1>7, <1>8, <1>9, <1>10, <1>11, <1>12, <1>13, <1>14

LEMMA SilentOther ==
  ASSUME TypeOK, NEW p \in Proc,
           \/ OpenVfn(p) \/ Reopen(p) \/ CreateMain(p) \/ Init2(p) \/ Init3(p)
           \/ Check1(p) \/ Check2(p) \/ Check3(p)
           \/ RemoveMain(p) \/ Remove2(p)
  PROVE  Silent
  <1>1. CASE OpenVfn(p)
    BY <1>1, MoveHolders, Owned, NotOwned
    DEF TypeOK, Silent, OpenVfn, FindMain, files, locals, history
  <1>2. CASE Reopen(p)
    BY <1>2, MoveHolders, Owned, NotOwned
    DEF TypeOK, Silent, Reopen, FindMain, files, locals, history
  <1>3. CASE CreateMain(p)
    BY <1>3, MoveHolders, Owned, NotOwned
    DEF TypeOK, Silent, CreateMain, files, locals, history
  <1>4. CASE Init2(p)
    BY <1>4, MoveHolders, Owned, NotOwned
    DEF TypeOK, Silent, Init2, files, locals, history
  <1>5. CASE Init3(p)
    BY <1>5, MoveHolders, Owned, NotOwned
    DEF TypeOK, Silent, Init3, files, locals, history
  <1>7. CASE Check1(p)
    BY <1>7, MoveHolders, Owned, NotOwned
    DEF TypeOK, Silent, Check1, SeeLockfile, Decide, files, locals, history
  <1>8. CASE Check2(p)
    BY <1>8, MoveHolders, Owned, NotOwned
    DEF TypeOK, Silent, Check2, SeeStamp, Decide, files, locals, history
  <1>9. CASE Check3(p)
    BY <1>9, MoveHolders, Owned, NotOwned
    DEF TypeOK, Silent, Check3, Decide, files, locals, history
  <1>11. CASE RemoveMain(p)
    BY <1>11, MoveHolders, Owned, NotOwned
    DEF TypeOK, Silent, RemoveMain, files, locals, history
  <1>12. CASE Remove2(p)
    BY <1>12, MoveHolders, Owned, NotOwned
    DEF TypeOK, Silent, Remove2, files, locals, history
  <1> QED BY <1>1, <1>2, <1>3, <1>4, <1>5, <1>7, <1>8, <1>9, <1>11, <1>12

\* Every other step is one of the abstract lock.
LEMMA StepImplements ==
  ASSUME LockInv, [Next]_vars
  PROVE  [Abs!ANext]_(Abs!avars) /\ Fresh'
  <1> USE DEF LockInv, Fresh, TypeOK
  <1>1. CASE Silent
    BY <1>1 DEF Silent, Abs!avars, Holders, Broken
  <1>2. ASSUME NEW p \in Proc, OpenMain(p)
        PROVE  Silent \/ (Abs!Abandon(p) /\ Fresh')
    BY <1>2, MoveHolders, Owned, NotOwned
    DEF OpenMain, AfterLock, Silent, Abs!Abandon, Holders, Broken, files, history
  <1>3. ASSUME NEW p \in Proc, Take(p)
        PROVE  Abs!Acquire(p) /\ Fresh'
    BY <1>3, MoveHolders, Owned, NotOwned
    DEF Take, Abs!Acquire, Holders, Broken, locals, history
  <1>4. ASSUME NEW p \in Proc, Break1(p)
        PROVE  Silent \/ (Abs!Break /\ Fresh')
    <2>1. Holders' = Holders
      BY <1>4, MoveHolders, NotOwned DEF Break1, Holders
    <2>2. CASE main
      <3>1. lockfile' = TRUE
        BY <1>4, <2>2 DEF Break1
      <3>2. lastBreak' >= 0 /\ ~(lastBreak' < 0)
        BY <1>4, <2>2, LockAssumption DEF Break1, Time
      <3> QED BY <2>1, <3>1, <3>2 DEF Abs!Break, Holders, Broken
    <2>3. CASE ~main
      BY <1>4, <2>1, <2>3 DEF Break1, Silent, FilesOK
    <2> QED BY <2>2, <2>3
  <1>5. ASSUME NEW p \in Proc, Init1(p)
        PROVE  (UNCHANGED Abs!avars \/ Abs!Install \/ Abs!Break) /\ Fresh'
    <2>1. Holders' = Holders /\ lastBreak' = lastBreak
      BY <1>5, MoveHolders, NotOwned DEF Init1, Holders
    <2>2. lockfile' \in {lockfile, TRUE}
      BY <1>5 DEF Init1, FilesOK
    <2>3. installed' # "absent"
      BY <1>5 DEF Init1
    <2>4. CASE installed = "absent" /\ lastBreak < 0
      <3>1. installed' # "again" /\ installed # "again"
        BY <1>5, <2>4 DEF Init1
      <3>2. Broken' = Broken
        BY <2>1, <3>1 DEF Broken
      <3>3. Holders = {}
        BY <2>4
      <3> QED BY <2>1, <2>2, <2>3, <3>2, <3>3 DEF Abs!Install, Abs!avars, Holders
    <2>5. CASE ~(installed = "absent" /\ lastBreak < 0)
      <3>1. installed' = "again" \/ lastBreak' >= 0
        BY <1>5, <2>1, <2>5, LockAssumption DEF Init1, HistoryOK, Time
      <3> QED BY <2>1, <2>2, <2>3, <3>1 DEF Abs!Break, Holders, Broken
    <2> QED BY <2>4, <2>5
  <1>6. ASSUME NEW p \in Proc, Unlock(p)
        PROVE  Silent \/ ((Abs!Release(p) \/ Abs!Abandon(p)) /\ Fresh')
    <2>1. CASE Unlock1(p)
      BY <2>1, MoveHolders, Owned, NotOwned
      DEF Unlock1, SeeLockfile, AfterUnlock, Silent, Abs!Abandon, Holders, Broken,
          files, history
    <2>2. CASE Unlock2(p)
      BY <2>2, MoveHolders, Owned, NotOwned
      DEF Unlock2, SeeStamp, AfterUnlock, Silent, Abs!Abandon, Holders, Broken,
          files, history
    <2>3. CASE Unlock3(p)
      BY <2>3, MoveHolders, Owned, NotOwned
      DEF Unlock3, AfterUnlock, Abs!Release, Abs!Abandon, Holders, Broken, FilesOK,
          history
    <2> QED BY <1>6, <2>1, <2>2, <2>3 DEF Unlock
  <1>7. ASSUME NEW p \in Proc, Remove1(p)
        PROVE  Abs!Withdraw(p) /\ Fresh'
    BY <1>7, MoveHolders, Owned, NotOwned
    DEF Remove1, Abs!Withdraw, Holders, Broken, locals, history
  <1>8. ASSUME NEW p \in Proc, Remove3(p)
        PROVE  Abs!Abandon(p) /\ Fresh'
    BY <1>8, MoveHolders, Owned, NotOwned
    DEF Remove3, Abs!Abandon, Holders, Broken, history
  <1>9. ASSUME NEW p \in Proc, Die(p)
        PROVE  Silent \/ (Abs!Abandon(p) /\ Fresh')
    <2>1. GoTo(p, pc[p], "dead")
      BY <1>9 DEF Die, GoTo
    <2> QED
      BY <1>9, <2>1, MoveHolders, NotOwned
      DEF Die, Silent, Abs!Abandon, Holders, Broken, files, history
  <1>12. ASSUME NEW p \in Proc, CloseNoUpdate(p) \/ Update(p)
         PROVE  Silent \/ (Abs!Abandon(p) /\ Fresh')
    BY <1>12, MoveHolders, Owned, NotOwned
    DEF CloseNoUpdate, Update, Finish, Silent, Abs!Abandon, Holders, Broken, files,
        history
  <1>10. ASSUME Tick \/ UNCHANGED vars
         PROVE  Silent
    BY <1>10 DEF Tick, vars, Silent, Holders, Holding, files, locals, history
  <1>11. ASSUME NEW p \in Proc, OpenVfn(p) \/ Step(p) \/ Die(p)
         PROVE  [Abs!ANext]_(Abs!avars) /\ Fresh'
    BY <1>1, <1>2, <1>3, <1>4, <1>5, <1>6, <1>7, <1>8, <1>9, <1>11, <1>12, SilentLock, SilentOther
    DEF Step, ReadMapFile, Lock, VfnClose, Remove, Abs!ANext
  <1> QED BY <1>1, <1>10, <1>11 DEF Next

LEMMA InitImplements == Init => Abs!AInit /\ Fresh
  BY LockAssumption, NotOwned
  DEF Init, Abs!AInit, Fresh, Holders, Holding, Broken

\* The strengthened invariant the simulation needs.
LEMMA LockInvariance == Spec => []LockInv
  BY InitType, InitImplements, StepType, StepImplements, PTL DEF LockInv, Spec

\* osfn_lock, osfn_unlock, osfn_timeleft, osfn_initlock and osfn_rmlock, with
\* all their kernel calls interleaved, implement the advisory lock.
THEOREM Implementation == Spec => Refinement
  <1>1. Init => Abs!AInit
    BY InitImplements
  <1>2. LockInv /\ [Next]_vars => [Abs!ANext]_(Abs!avars)
    BY StepImplements
  <1> QED BY <1>1, <1>2, LockInvariance, PTL DEF Spec, Refinement, Abs!ASpec

\* The advisory lock is exclusive until it is broken: its invariant is inductive.
LEMMA AdvisoryExclusive == Abs!ASpec => []Abs!Exclusion
  <1>1. Abs!AInit => Abs!Exclusion
    BY DEF Abs!AInit, Abs!Exclusion
  <1>2. ASSUME Abs!Exclusion, [Abs!ANext]_(Abs!avars)
        PROVE  Abs!Exclusion'
    <2>1. CASE Broken'
      BY <2>1 DEF Abs!Exclusion
    <2>2. ASSUME NEW p \in Proc, Abs!Acquire(p)
          PROVE  Abs!Exclusion'
      BY <1>2, <2>2 DEF Abs!Exclusion, Abs!Acquire
    <2>3. ASSUME NEW p \in Proc, Abs!Release(p) \/ Abs!Abandon(p)
          PROVE  Abs!Exclusion'
      BY <1>2, <2>3 DEF Abs!Exclusion, Abs!Release, Abs!Abandon
    <2>4. ASSUME NEW p \in Proc, Abs!Withdraw(p)
          PROVE  Abs!Exclusion'
      BY <1>2, <2>4 DEF Abs!Exclusion, Abs!Withdraw
    <2>5. CASE Abs!Install
      BY <1>2, <2>5 DEF Abs!Exclusion, Abs!Install
    <2>6. CASE Abs!Break
      BY <2>1, <2>6 DEF Abs!Break
    <2>7. CASE UNCHANGED Abs!avars
      BY <1>2, <2>7 DEF Abs!Exclusion, Abs!avars
    <2> QED BY <1>2, <2>2, <2>3, <2>4, <2>5, <2>6, <2>7 DEF Abs!ANext
  <1> QED BY <1>1, <1>2, PTL DEF Abs!ASpec

\* Until a lock is broken, no two processes are between the zfdele of the
\* lockfile and the end of their unlock: mutual exclusion for any number of
\* processes, any retry limits and any schedule, crashes included.
THEOREM Exclusive == Spec => []UnbrokenExclusion
  BY Implementation, AdvisoryExclusive, PTL DEF Refinement, UnbrokenExclusion

-----------------------------------------------------------------------------
(* The stamp of an unbroken lock.                                          *)

Stamped == {"open", "held", "update"} \cup Checking \cup Unlocking

\* The lock is there to be taken, or somebody has it who has not removed main.
Alive == lockfile \/ \E p \in Proc : Holding(p) /\ pc[p] \notin {"rm1", "rm2", "rm3"}

\* The file with its lock files has gone, or a process has seen it gone.
Past ==
  ~main \/ \E p \in Proc : pc[p] \in {"create", "init1", "init2", "init3", "brk2", "brk3"}

\* OwnStamp is not inductive: it also matters that a process that is about to
\* write timelock2 for another reason finds no holder it could disturb.
StampInv ==
  ~Broken /\ installed = "present" =>
    /\ Alive => ~Past
    /\ \A p \in Proc : pc[p] \in Stamped => timelock2 # NoFile /\ timelock2 = locktime[p]
    /\ \A p \in Proc : pc[p] = "set3" => timelock2 # NoFile

\* What UnbrokenExclusion says, without the abstract lock.
OnlyHolder ==
  ~Broken => /\ \A p, q \in Proc : Holding(p) /\ Holding(q) => p = q
             /\ lockfile => \A p \in Proc : ~Holding(p)

LEMMA OnlyHolderInvariance == Spec => []OnlyHolder
  <1>1. UnbrokenExclusion => OnlyHolder
    BY DEF UnbrokenExclusion, Abs!Exclusion, OnlyHolder
  <1> QED BY <1>1, Exclusive, PTL

\* A move that leaves timelock2 and main alone, and sees no holder to come.
LEMMA StampFrame ==
  ASSUME TypeOK, StampInv, NEW p \in Proc, NEW from, NEW to, GoTo(p, from, to),
         UNCHANGED <<main, timelock2, installed, lastBreak>>, lockfile' => lockfile,
         to \in Stamped => from \in Stamped /\ locktime'[p] = locktime[p],
         \A q \in Proc \ {p} : locktime'[q] = locktime[q],
         to # "set3", to \in Owning \ {"rm1", "rm2", "rm3"} => from \in Owning \ {"rm1", "rm2", "rm3"},
         to \in {"init1", "init2", "init3", "brk2", "brk3"} =>
            from \in {"create", "init1", "init2", "init3", "brk2", "brk3"},
         to = "create" => ~main
  PROVE  StampInv'
  <1> DEFINE Q(q) == Holding(q) /\ pc[q] \notin {"rm1", "rm2", "rm3"}
             R(q) == pc[q] \in {"create", "init1", "init2", "init3", "brk2", "brk3"}
  <1>1. /\ pc[p] = from /\ pc'[p] = to
        /\ \A q \in Proc \ {p} : pc'[q] = pc[q]
    BY DEF GoTo, TypeOK
  <1>2. Broken' = Broken
    BY DEF Broken
  <1>3. Alive' => Alive
    <2>1. \A q \in Proc : Q(q)' => Q(q)
      BY <1>1 DEF Holding
    <2> QED BY <2>1 DEF Alive
  <1>4. Past' => Past
    <2>1. \A q \in Proc : R(q)' => R(q) \/ ~main
      BY <1>1
    <2> QED BY <2>1 DEF Past
  <1>5. \A q \in Proc : pc'[q] \in Stamped => pc[q] \in Stamped /\ locktime'[q] = locktime[q]
    BY <1>1
  <1>6. \A q \in Proc : pc'[q] = "set3" => pc[q] = "set3"
    BY <1>1
  <1>7. ~Broken /\ installed = "present" =>
          /\ Alive' => ~Past'
          /\ \A q \in Proc : pc'[q] \in Stamped => timelock2 # NoFile /\ timelock2 = locktime'[q]
          /\ \A q \in Proc : pc'[q] = "set3" => timelock2 # NoFile
    BY <1>3, <1>4, <1>5, <1>6 DEF StampInv
  <1> HIDE DEF Q, R
  <1> QED BY <1>2, <1>7 DEF StampInv, Stamped

\* Returning, or dying, ends the locals of one process only.
LEMMA ReturnKeeps ==
  ASSUME TypeOK, NEW p \in Proc, NEW from, NEW to, GoTo(p, from, to), Return(p)
  PROVE  /\ \A q \in Proc \ {p} : locktime'[q] = locktime[q]
         /\ to \notin {"idle", "dead"} => locktime'[p] = locktime[p]
  BY DEF TypeOK, LocalsOK, GoTo, Return, Forget, locals

LEMMA StampStep ==
  ASSUME TypeOK, OnlyHolder, OnlyHolder', StampInv, [Next]_vars
  PROVE  StampInv'
  <1>1. ASSUME NEW p \in Proc, OpenVfn(p)
        PROVE  StampInv'
    BY <1>1, StampFrame
    DEF OpenVfn, FindMain, TypeOK, LocalsOK, Stamped, Owning, Setting, Checking,
        Unlocking, Removing, files, locals, history
  <1>2. ASSUME NEW p \in Proc, Reopen(p)
        PROVE  StampInv'
    BY <1>2, StampFrame
    DEF Reopen, FindMain, TypeOK, LocalsOK, Stamped, Owning, Setting, Checking,
        Unlocking, Removing, files, locals, history
  <1>3. ASSUME NEW p \in Proc, CreateMain(p)
        PROVE  StampInv'
    BY <1>3, LockAssumption
    DEF TypeOK, FilesOK, LocalsOK, HistoryOK, StampInv, Alive, Past, Stamped,
        Broken, Time, NoFile, OnlyHolder, Holding, Owning, Setting, Checking,
        Unlocking, Removing, CreateMain, GoTo, files, locals, history
  <1>4. ASSUME NEW p \in Proc, Init1(p)
        PROVE  StampInv'
    BY <1>4, LockAssumption
    DEF TypeOK, FilesOK, LocalsOK, HistoryOK, StampInv, Alive, Past, Stamped,
        Broken, Time, NoFile, OnlyHolder, Holding, Owning, Setting, Checking,
        Unlocking, Removing, Init1, GoTo, files, locals, history
  <1>5. ASSUME NEW p \in Proc, Init2(p)
        PROVE  StampInv'
    BY <1>5, StampFrame
    DEF Init2, TypeOK, LocalsOK, Stamped, Owning, Setting, Checking, Unlocking,
        Removing, files, locals, history
  <1>6. ASSUME NEW p \in Proc, Init3(p)
        PROVE  StampInv'
    BY <1>6, LockAssumption
    DEF TypeOK, FilesOK, LocalsOK, HistoryOK, StampInv, Alive, Past, Stamped,
        Broken, Time, NoFile, OnlyHolder, Holding, Owning, Setting, Checking,
        Unlocking, Removing, Init3, GoTo, files, locals, history
  <1>7. ASSUME NEW p \in Proc, OpenMain(p)
        PROVE  StampInv'
    <2> DEFINE to == pc'[p]
    <2>1. GoTo(p, "open", to) /\ Return(p)
      BY <1>7 DEF OpenMain, GoTo, TypeOK
    <2>2. to \in Stamped => pc[p] \in Stamped /\ to \notin {"idle", "dead"}
      BY <2>1 DEF GoTo, AfterLock, AfterUnlock, Stamped, Checking, Unlocking
    <2> QED BY <1>7, <2>1, <2>2, ReturnKeeps, StampFrame
        DEF OpenMain, AfterLock, GoTo, Stamped, Owning, Setting, Checking,
            Unlocking, Removing, files, history
  <1>8. ASSUME NEW p \in Proc, Access(p)
        PROVE  StampInv'
    BY <1>8, StampFrame
    DEF Access, TypeOK, LocalsOK, Stamped, Owning, Setting, Checking, Unlocking,
        Removing, files, locals, history
  <1>9. ASSUME NEW p \in Proc, Take(p)
        PROVE  StampInv'
    BY <1>9, LockAssumption
    DEF TypeOK, FilesOK, LocalsOK, HistoryOK, StampInv, Alive, Past, Stamped,
        Broken, Time, NoFile, OnlyHolder, Holding, Owning, Setting, Checking,
        Unlocking, Removing, Take, GoTo, files, locals, history
  <1>10. ASSUME NEW p \in Proc, TryAgain(p)
         PROVE  StampInv'
    BY <1>10, LockAssumption
    DEF TypeOK, FilesOK, LocalsOK, HistoryOK, StampInv, Alive, Past, Stamped,
        Broken, Time, NoFile, OnlyHolder, Holding, Owning, Setting, Checking,
        Unlocking, Removing, TryAgain, GoTo, files, locals, history
  <1>11. ASSUME NEW p \in Proc, TimeOut(p)
         PROVE  StampInv'
    BY <1>11, StampFrame
    DEF TimeOut, TypeOK, LocalsOK, Stamped, Owning, Setting, Checking, Unlocking,
        Removing, files, locals, history
  <1>12. ASSUME NEW p \in Proc, MayBreak(p)
         PROVE  StampInv'
    BY <1>12, StampFrame
    DEF MayBreak, TypeOK, LocalsOK, Stamped, Owning, Setting, Checking, Unlocking,
        Removing, files, locals, history
  <1>13. ASSUME NEW p \in Proc, MayNotBreak(p)
         PROVE  StampInv'
    BY <1>13, StampFrame
    DEF MayNotBreak, TypeOK, LocalsOK, Stamped, Owning, Setting, Checking,
        Unlocking, Removing, files, locals, history
  <1>14. ASSUME NEW p \in Proc, Recover(p)
         PROVE  StampInv'
    BY <1>14, StampFrame
    DEF Recover, TypeOK, LocalsOK, Stamped, Owning, Setting, Checking, Unlocking,
        Removing, files, locals, history
  <1>15. ASSUME NEW p \in Proc, StatLock(p)
         PROVE  StampInv'
    BY <1>15, StampFrame
    DEF StatLock, TypeOK, LocalsOK, Stamped, Owning, Setting, Checking, Unlocking,
        Removing, files, locals, history
  <1>16. ASSUME NEW p \in Proc, CheckAge(p)
         PROVE  StampInv'
    BY <1>16, StampFrame
    DEF CheckAge, TypeOK, LocalsOK, Stamped, Owning, Setting, Checking, Unlocking,
        Removing, files, locals, history
  <1>17. ASSUME NEW p \in Proc, Break1(p)
         PROVE  StampInv'
    BY <1>17, LockAssumption
    DEF TypeOK, FilesOK, LocalsOK, HistoryOK, StampInv, Alive, Past, Stamped,
        Broken, Time, NoFile, OnlyHolder, Holding, Owning, Setting, Checking,
        Unlocking, Removing, Break1, GoTo, files, locals, history
  <1>18. ASSUME NEW p \in Proc, Break2(p)
         PROVE  StampInv'
    BY <1>18, LockAssumption
    DEF TypeOK, FilesOK, LocalsOK, HistoryOK, StampInv, Alive, Past, Stamped,
        Broken, Time, NoFile, OnlyHolder, Holding, Owning, Setting, Checking,
        Unlocking, Removing, Break2, GoTo, files, locals, history
  <1>19. ASSUME NEW p \in Proc, Break3(p)
         PROVE  StampInv'
    BY <1>19, LockAssumption
    DEF TypeOK, FilesOK, LocalsOK, HistoryOK, StampInv, Alive, Past, Stamped,
        Broken, Time, NoFile, OnlyHolder, Holding, Owning, Setting, Checking,
        Unlocking, Removing, Break3, GoTo, files, locals, history
  <1>20. ASSUME NEW p \in Proc, PutBack(p)
         PROVE  StampInv'
    BY <1>20, StampFrame
    DEF PutBack, TypeOK, LocalsOK, Stamped, Owning, Setting, Checking, Unlocking,
        Removing, files, locals, history
  <1>21. ASSUME NEW p \in Proc, Set1(p)
         PROVE  StampInv'
    BY <1>21, LockAssumption
    DEF TypeOK, FilesOK, LocalsOK, HistoryOK, StampInv, Alive, Past, Stamped,
        Broken, Time, NoFile, OnlyHolder, Holding, Owning, Setting, Checking,
        Unlocking, Removing, Set1, GoTo, files, locals, history
  <1>22. ASSUME NEW p \in Proc, Set2(p)
         PROVE  StampInv'
    BY <1>22, LockAssumption
    DEF TypeOK, FilesOK, LocalsOK, HistoryOK, StampInv, Alive, Past, Stamped,
        Broken, Time, NoFile, OnlyHolder, Holding, Owning, Setting, Checking,
        Unlocking, Removing, Set2, GoTo, files, locals, history
  <1>23. ASSUME NEW p \in Proc, Set3(p)
         PROVE  StampInv'
    BY <1>23, LockAssumption
    DEF TypeOK, FilesOK, LocalsOK, HistoryOK, StampInv, Alive, Past, Stamped,
        Broken, Time, NoFile, OnlyHolder, Holding, Owning, Setting, Checking,
        Unlocking, Removing, Set3, Stamp, GoTo, files, locals, history
  <1>24. ASSUME NEW p \in Proc, CloseNoUpdate(p)
         PROVE  StampInv'
    <2>1. PICK to \in {"ulk1", "rm0", "idle"} : GoTo(p, "held", to)
      BY <1>24 DEF CloseNoUpdate, Finish
    <2>2. Return(p) /\ UNCHANGED <<main, timelock2, installed, lastBreak, lockfile>>
      BY <1>24 DEF CloseNoUpdate, Finish, files, history
    <2>3. /\ to \in Stamped => locktime'[p] = locktime[p]
          /\ \A q \in Proc \ {p} : locktime'[q] = locktime[q]
      BY <2>1, <2>2, ReturnKeeps DEF Stamped, Checking, Unlocking
    <2> QED BY <2>1, <2>2, <2>3, StampFrame
        DEF Stamped, Owning, Setting, Checking, Unlocking, Removing
  <1>25. ASSUME NEW p \in Proc, Check1(p)
         PROVE  StampInv'
    BY <1>25, StampFrame
    DEF Check1, SeeLockfile, Decide, TypeOK, LocalsOK, Stamped, Owning, Setting,
        Checking, Unlocking, Removing, files, locals, history
  <1>26. ASSUME NEW p \in Proc, Check2(p)
         PROVE  StampInv'
    BY <1>26, StampFrame
    DEF Check2, SeeStamp, Decide, TypeOK, LocalsOK, Stamped, Owning, Setting,
        Checking, Unlocking, Removing, files, locals, history
  <1>27. ASSUME NEW p \in Proc, Check3(p)
         PROVE  StampInv'
    BY <1>27, StampFrame
    DEF Check3, Decide, TypeOK, LocalsOK, Stamped, Owning, Setting, Checking,
        Unlocking, Removing, files, locals, history
  <1>28. ASSUME NEW p \in Proc, Update(p)
         PROVE  StampInv'
    <2>1. PICK to \in {"ulk1", "rm0", "idle"} : GoTo(p, "update", to)
      BY <1>28 DEF Update, Finish
    <2>2. Return(p) /\ UNCHANGED <<main, timelock2, installed, lastBreak, lockfile>>
      BY <1>28 DEF Update, Finish, files, history
    <2>3. /\ to \in Stamped => locktime'[p] = locktime[p]
          /\ \A q \in Proc \ {p} : locktime'[q] = locktime[q]
      BY <2>1, <2>2, ReturnKeeps DEF Stamped, Checking, Unlocking
    <2> QED BY <2>1, <2>2, <2>3, StampFrame
        DEF Stamped, Owning, Setting, Checking, Unlocking, Removing
  <1>29. ASSUME NEW p \in Proc, Unlock1(p)
         PROVE  StampInv'
    <2> DEFINE to == IF lockfile THEN AfterUnlock(p) ELSE "ulk2"
    <2>1. GoTo(p, "ulk1", to) /\ Return(p)
      BY <1>29 DEF Unlock1, SeeLockfile
    <2>2. to \in Stamped => pc[p] \in Stamped /\ to \notin {"idle", "dead"}
      BY <2>1 DEF GoTo, AfterLock, AfterUnlock, Stamped, Checking, Unlocking
    <2> QED BY <1>29, <2>1, <2>2, ReturnKeeps, StampFrame, ZenonT(60)
        DEF Unlock1, SeeLockfile, AfterUnlock, GoTo, Stamped, Owning, Setting,
            Checking, Unlocking, Removing, files, history
  <1>30. ASSUME NEW p \in Proc, Unlock2(p)
         PROVE  StampInv'
    <2> DEFINE to == IF timelock2 # NoFile /\ timelock2 = locktime[p] THEN "ulk3" ELSE AfterUnlock(p)
    <2>1. GoTo(p, "ulk2", to) /\ Return(p)
      BY <1>30 DEF Unlock2, SeeStamp
    <2>2. to \in Stamped => pc[p] \in Stamped /\ to \notin {"idle", "dead"}
      BY <2>1 DEF GoTo, AfterLock, AfterUnlock, Stamped, Checking, Unlocking
    <2> QED BY <1>30, <2>1, <2>2, ReturnKeeps, StampFrame
        DEF Unlock2, SeeStamp, AfterUnlock, GoTo, Stamped, Owning, Setting,
            Checking, Unlocking, Removing, files, history
  <1>31. ASSUME NEW p \in Proc, Unlock3(p)
         PROVE  StampInv'
    BY <1>31, LockAssumption
    DEF TypeOK, FilesOK, LocalsOK, HistoryOK, StampInv, Alive, Past, Stamped,
        Broken, Time, NoFile, OnlyHolder, Holding, Owning, Setting, Checking,
        Unlocking, Removing, Unlock3, AfterUnlock, Return, Forget, GoTo, files,
        locals, history
  <1>32. ASSUME NEW p \in Proc, RemoveMain(p)
         PROVE  StampInv'
    BY <1>32, LockAssumption
    DEF TypeOK, FilesOK, LocalsOK, HistoryOK, StampInv, Alive, Past, Stamped,
        Broken, Time, NoFile, OnlyHolder, Holding, Owning, Setting, Checking,
        Unlocking, Removing, RemoveMain, GoTo, files, locals, history
  <1>33. ASSUME NEW p \in Proc, Remove1(p)
         PROVE  StampInv'
    BY <1>33, LockAssumption
    DEF TypeOK, FilesOK, LocalsOK, HistoryOK, StampInv, Alive, Past, Stamped,
        Broken, Time, NoFile, OnlyHolder, Holding, Owning, Setting, Checking,
        Unlocking, Removing, Remove1, GoTo, files, locals, history
  <1>34. ASSUME NEW p \in Proc, Remove2(p)
         PROVE  StampInv'
    BY <1>34, StampFrame
    DEF Remove2, TypeOK, LocalsOK, Stamped, Owning, Setting, Checking, Unlocking,
        Removing, files, locals, history
  <1>35. ASSUME NEW p \in Proc, Remove3(p)
         PROVE  StampInv'
    BY <1>35, LockAssumption
    DEF TypeOK, FilesOK, LocalsOK, HistoryOK, StampInv, Alive, Past, Stamped,
        Broken, Time, NoFile, OnlyHolder, Holding, Owning, Setting, Checking,
        Unlocking, Removing, Remove3, Return, Forget, GoTo, files, locals,
        history
  <1>36. ASSUME NEW p \in Proc, Die(p)
         PROVE  StampInv'
    <2>1. GoTo(p, pc[p], "dead")
      BY <1>36 DEF Die, GoTo
    <2> QED BY <1>36, <2>1, StampFrame
        DEF Die, Return, Forget, TypeOK, LocalsOK, Stamped, Owning, Setting,
            Checking, Unlocking, Removing, files, locals, history
  <1>37. ASSUME Tick \/ UNCHANGED vars
         PROVE  StampInv'
    BY <1>37
    DEF StampInv, Alive, Past, Broken, Holding, Tick, vars, files, locals,
        history
  <1> QED
    BY <1>1, <1>2, <1>3, <1>4, <1>5, <1>6, <1>7, <1>8, <1>9, <1>10, <1>11,
       <1>12, <1>13, <1>14, <1>15, <1>16, <1>17, <1>18, <1>19, <1>20, <1>21,
       <1>22, <1>23, <1>24, <1>25, <1>26, <1>27, <1>28, <1>29, <1>30, <1>31,
       <1>32, <1>33, <1>34, <1>35, <1>36, <1>37
    DEF Next, Step, ReadMapFile, Lock, VfnClose, Unlock, Remove

\* The stamp of an unbroken lock is its holder's own, whatever the waiters do.
THEOREM StampIntact == Spec => []OwnStamp
  <1>1. Init => StampInv
    BY
    DEF Init, StampInv, Alive, Past, Stamped, Holding, Owning, Setting, Checking,
        Unlocking, Removing
  <1>2. OnlyHolder /\ StampInv => OwnStamp
    BY DEF OnlyHolder, StampInv, OwnStamp, Stamped, Holding, Owning, Checking, Unlocking
  <1> QED BY <1>1, <1>2, StampStep, TypeCorrect, OnlyHolderInvariance, PTL DEF Spec

-----------------------------------------------------------------------------
(* The right to break a lock.                                              *)

\* OneBreaker, and why the first osfn_initlock does not disturb it.
BreakerInv ==
  ~recovered /\ installed # "again" =>
    /\ \A p, q \in Proc : pc[p] \in Breaking /\ pc[q] \in Breaking => p = q
    /\ timelock1 => \A p \in Proc : pc[p] \notin Breaking
    /\ installed = "absent" => ~timelock1 /\ \A p \in Proc : pc[p] \notin Breaking
    /\ \A p \in Proc : pc[p] \in {"init2", "init3"} => installed = "once"
    /\ \A p \in Proc : pc[p] = "init2" =>
          ~timelock1 /\ \A q \in Proc : pc[q] \notin Breaking /\ (pc[q] = "init2" => q = p)

\* Most moves leave the two semaphores and their users alone.
LEMMA BreakerFrame ==
  ASSUME TypeOK, BreakerInv, NEW p \in Proc, NEW from, NEW to, GoTo(p, from, to),
         to \in Breaking => from \in Breaking,
         to # "init2", to = "init3" => from = "init2",
         timelock1' => timelock1, installed' = installed, recovered' = recovered
  PROVE  BreakerInv'
  BY DEF TypeOK, BreakerInv, GoTo

LEMMA BreakerStep ==
  ASSUME TypeOK, BreakerInv, [Next]_vars
  PROVE  BreakerInv'
  <1>1. ASSUME NEW p \in Proc, OpenVfn(p)
        PROVE  BreakerInv'
    BY <1>1, BreakerFrame DEF OpenVfn, FindMain, Breaking, files, history
  <1>2. ASSUME NEW p \in Proc, Reopen(p)
        PROVE  BreakerInv'
    BY <1>2, BreakerFrame DEF Reopen, FindMain, Breaking, files, history
  <1>3. ASSUME NEW p \in Proc, CreateMain(p)
        PROVE  BreakerInv'
    BY <1>3, BreakerFrame DEF CreateMain, Breaking, files, history
  <1>4. ASSUME NEW p \in Proc, Init1(p)
        PROVE  BreakerInv'
    BY <1>4 DEF TypeOK, BreakerInv, Init1, GoTo, Breaking, locals, HistoryOK
  <1>5. ASSUME NEW p \in Proc, Init2(p)
        PROVE  BreakerInv'
    BY <1>5 DEF TypeOK, BreakerInv, Init2, GoTo, Breaking, locals, history
  <1>6. ASSUME NEW p \in Proc, Init3(p)
        PROVE  BreakerInv'
    BY <1>6, BreakerFrame DEF Init3, Breaking, files, history
  <1>7. ASSUME NEW p \in Proc, OpenMain(p)
        PROVE  BreakerInv'
    BY <1>7, BreakerFrame
    DEF OpenMain, AfterLock, Return, Forget, Breaking, files, history
  <1>8. ASSUME NEW p \in Proc, Access(p)
        PROVE  BreakerInv'
    BY <1>8, BreakerFrame DEF Access, Breaking, files, history
  <1>9. ASSUME NEW p \in Proc, Take(p)
        PROVE  BreakerInv'
    BY <1>9, BreakerFrame DEF Take, Breaking, files, history
  <1>10. ASSUME NEW p \in Proc, TryAgain(p)
         PROVE  BreakerInv'
    BY <1>10 DEF BreakerInv, TryAgain, files, history
  <1>11. ASSUME NEW p \in Proc, TimeOut(p)
         PROVE  BreakerInv'
    BY <1>11, BreakerFrame DEF TimeOut, Breaking, files, history
  <1>12. ASSUME NEW p \in Proc, MayBreak(p)
         PROVE  BreakerInv'
    BY <1>12 DEF TypeOK, BreakerInv, MayBreak, GoTo, Breaking, locals, history
  <1>13. ASSUME NEW p \in Proc, MayNotBreak(p)
         PROVE  BreakerInv'
    BY <1>13, BreakerFrame DEF MayNotBreak, Breaking, files, history
  <1>14. ASSUME NEW p \in Proc, Recover(p)
         PROVE  BreakerInv'
    BY <1>14 DEF TypeOK, BreakerInv, Recover, GoTo, Breaking, FilesOK, HistoryOK, locals
  <1>15. ASSUME NEW p \in Proc, StatLock(p)
         PROVE  BreakerInv'
    BY <1>15, BreakerFrame DEF StatLock, Breaking, files, history
  <1>16. ASSUME NEW p \in Proc, CheckAge(p)
         PROVE  BreakerInv'
    BY <1>16, BreakerFrame DEF CheckAge, Breaking, files, history
  <1>17. ASSUME NEW p \in Proc, Break1(p)
         PROVE  BreakerInv'
    BY <1>17, BreakerFrame DEF Break1, Breaking, files, history
  <1>18. ASSUME NEW p \in Proc, Break2(p)
         PROVE  BreakerInv'
    BY <1>18, BreakerFrame DEF Break2, Breaking, files, history
  <1>19. ASSUME NEW p \in Proc, Break3(p)
         PROVE  BreakerInv'
    BY <1>19, BreakerFrame DEF Break3, Breaking, files, history
  <1>20. ASSUME NEW p \in Proc, PutBack(p)
         PROVE  BreakerInv'
    BY <1>20 DEF TypeOK, BreakerInv, PutBack, GoTo, Breaking, locals, history
  <1>21. ASSUME NEW p \in Proc, Set1(p)
         PROVE  BreakerInv'
    BY <1>21, BreakerFrame DEF Set1, Breaking, files, history
  <1>22. ASSUME NEW p \in Proc, Set2(p)
         PROVE  BreakerInv'
    BY <1>22, BreakerFrame DEF Set2, Breaking, files, history
  <1>23. ASSUME NEW p \in Proc, Set3(p)
         PROVE  BreakerInv'
    BY <1>23, BreakerFrame DEF Set3, Stamp, Breaking, files, history
  <1>24. ASSUME NEW p \in Proc, CloseNoUpdate(p)
         PROVE  BreakerInv'
    BY <1>24, BreakerFrame DEF CloseNoUpdate, Finish, Breaking, files, history
  <1>25. ASSUME NEW p \in Proc, Check1(p)
         PROVE  BreakerInv'
    BY <1>25, BreakerFrame DEF Check1, SeeLockfile, Decide, Breaking, files, history
  <1>26. ASSUME NEW p \in Proc, Check2(p)
         PROVE  BreakerInv'
    BY <1>26, BreakerFrame DEF Check2, SeeStamp, Decide, Breaking, files, history
  <1>27. ASSUME NEW p \in Proc, Check3(p)
         PROVE  BreakerInv'
    BY <1>27, BreakerFrame DEF Check3, Decide, Breaking, files, history
  <1>28. ASSUME NEW p \in Proc, Update(p)
         PROVE  BreakerInv'
    BY <1>28, BreakerFrame DEF Update, Finish, Breaking, files, history
  <1>29. ASSUME NEW p \in Proc, Unlock1(p)
         PROVE  BreakerInv'
    BY <1>29, BreakerFrame
    DEF Unlock1, SeeLockfile, AfterUnlock, Return, Forget, Breaking, files, history
  <1>30. ASSUME NEW p \in Proc, Unlock2(p)
         PROVE  BreakerInv'
    BY <1>30, BreakerFrame
    DEF Unlock2, SeeStamp, AfterUnlock, Return, Forget, Breaking, files, history
  <1>31. ASSUME NEW p \in Proc, Unlock3(p)
         PROVE  BreakerInv'
    BY <1>31, BreakerFrame
    DEF Unlock3, AfterUnlock, Return, Forget, Breaking, files, history
  <1>32. ASSUME NEW p \in Proc, RemoveMain(p)
         PROVE  BreakerInv'
    BY <1>32, BreakerFrame DEF RemoveMain, Breaking, files, history
  <1>33. ASSUME NEW p \in Proc, Remove1(p)
         PROVE  BreakerInv'
    BY <1>33, BreakerFrame DEF Remove1, Breaking, files, history
  <1>34. ASSUME NEW p \in Proc, Remove2(p)
         PROVE  BreakerInv'
    BY <1>34, BreakerFrame DEF Remove2, Breaking, files, history
  <1>35. ASSUME NEW p \in Proc, Remove3(p)
         PROVE  BreakerInv'
    BY <1>35, BreakerFrame DEF Remove3, Return, Forget, Breaking, files, history
  <1>36. ASSUME NEW p \in Proc, Die(p)
         PROVE  BreakerInv'
    <2>1. GoTo(p, pc[p], "dead")
      BY <1>36 DEF Die, GoTo
    <2> QED BY <1>36, <2>1, BreakerFrame DEF Die, Breaking, files, history
  <1>37. ASSUME Tick \/ UNCHANGED vars
         PROVE  BreakerInv'
    BY <1>37 DEF BreakerInv, Tick, vars, files, history
  <1> QED
    BY <1>1, <1>2, <1>3, <1>4, <1>5, <1>6, <1>7, <1>8, <1>9, <1>10, <1>11,
       <1>12, <1>13, <1>14, <1>15, <1>16, <1>17, <1>18, <1>19, <1>20, <1>21,
       <1>22, <1>23, <1>24, <1>25, <1>26, <1>27, <1>28, <1>29, <1>30, <1>31,
       <1>32, <1>33, <1>34, <1>35, <1>36, <1>37
    DEF Next, Step, ReadMapFile, Lock, VfnClose, Unlock, Remove

\* "Only one process is permitted to break the lock": timelock1 is a mutual
\* exclusion of its own, which holds even when the lock itself has been broken.
THEOREM BreakersExclusive == Spec => []OneBreaker
  <1>1. Init => BreakerInv
    BY DEF Init, BreakerInv, Breaking
  <1>2. BreakerInv => OneBreaker
    BY DEF BreakerInv, OneBreaker
  <1> QED BY <1>1, <1>2, BreakerStep, TypeCorrect, PTL DEF Spec

Renewed == timelock2 = NoFile \/ timelock2 >= lastBreak

\* BreakSpacing: after a break, timelock1 is not given back before timelock2
\* has been renewed.
SpacingInv ==
  /\ lastBreak <= now
  /\ ~recovered /\ installed # "again" =>
       /\ \A p \in Proc : pc[p] = "age" => fi[p] >= lastBreak
       /\ ~Renewed => ~timelock1 /\ \A p \in Proc : pc[p] \in Breaking => pc[p] = "brk2"
       /\ installed = "absent" => lastBreak < 0
       /\ \A p \in Proc : pc[p] = "init2" => lastBreak < 0

\* A move that leaves the stamps, the clock and the semaphores alone.
LEMMA SpacingFrame ==
  ASSUME TypeOK, SpacingInv, NEW p \in Proc, NEW from, NEW to, GoTo(p, from, to),
         to \in Breaking => from \in Breaking /\ from # "brk2", to # "brk2", to # "age",
         to # "init2", UNCHANGED <<now, lastBreak, installed, recovered, timelock2>>,
         timelock1' => timelock1, fi' = fi \/ fi' = [fi EXCEPT ![p] = NoFile]
  PROVE  SpacingInv'
  BY DEF TypeOK, LocalsOK, SpacingInv, GoTo, Renewed, Breaking

LEMMA SpacingStep ==
  ASSUME TypeOK, BreakerInv, SpacingInv, [Next]_vars
  PROVE  SpacingInv'
  <1>1. ASSUME NEW p \in Proc, OpenVfn(p)
        PROVE  SpacingInv'
    BY <1>1, SpacingFrame
    DEF OpenVfn, FindMain, Breaking, files, locals, history
  <1>2. ASSUME NEW p \in Proc, Reopen(p)
        PROVE  SpacingInv'
    BY <1>2, SpacingFrame
    DEF Reopen, FindMain, Breaking, files, locals, history
  <1>3. ASSUME NEW p \in Proc, CreateMain(p)
        PROVE  SpacingInv'
    BY <1>3, SpacingFrame
    DEF CreateMain, Return, Forget, Breaking, files, locals, history
  <1>4. ASSUME NEW p \in Proc, Init1(p)
        PROVE  SpacingInv'
    BY <1>4, LockAssumption
    DEF TypeOK, FilesOK, LocalsOK, HistoryOK, SpacingInv, Renewed, Time, NoFile,
        BreakerInv, Init1, GoTo, Breaking, files, locals, history
  <1>5. ASSUME NEW p \in Proc, Init2(p)
        PROVE  SpacingInv'
    BY <1>5, LockAssumption
    DEF TypeOK, FilesOK, LocalsOK, HistoryOK, SpacingInv, Renewed, Time, NoFile,
        BreakerInv, Init2, GoTo, Breaking, files, locals, history
  <1>6. ASSUME NEW p \in Proc, Init3(p)
        PROVE  SpacingInv'
    BY <1>6, LockAssumption
    DEF TypeOK, FilesOK, LocalsOK, HistoryOK, SpacingInv, Renewed, Time, NoFile,
        BreakerInv, Init3, GoTo, Breaking, files, locals, history
  <1>7. ASSUME NEW p \in Proc, OpenMain(p)
        PROVE  SpacingInv'
    BY <1>7, LockAssumption
    DEF TypeOK, FilesOK, LocalsOK, HistoryOK, SpacingInv, Renewed, Time, NoFile,
        BreakerInv, OpenMain, AfterLock, Return, Forget, GoTo, Breaking, files,
        locals, history
  <1>8. ASSUME NEW p \in Proc, Access(p)
        PROVE  SpacingInv'
    BY <1>8, SpacingFrame
    DEF Access, Breaking, files, locals, history
  <1>9. ASSUME NEW p \in Proc, Take(p)
        PROVE  SpacingInv'
    BY <1>9, SpacingFrame
    DEF Take, Breaking, files, locals, history
  <1>10. ASSUME NEW p \in Proc, TryAgain(p)
         PROVE  SpacingInv'
    BY <1>10, LockAssumption
    DEF TypeOK, FilesOK, LocalsOK, HistoryOK, SpacingInv, Renewed, Time, NoFile,
        BreakerInv, TryAgain, GoTo, Breaking, files, locals, history
  <1>11. ASSUME NEW p \in Proc, TimeOut(p)
         PROVE  SpacingInv'
    BY <1>11, SpacingFrame
    DEF TimeOut, Breaking, files, locals, history
  <1>12. ASSUME NEW p \in Proc, MayBreak(p)
         PROVE  SpacingInv'
    BY <1>12, LockAssumption
    DEF TypeOK, FilesOK, LocalsOK, HistoryOK, SpacingInv, Renewed, Time, NoFile,
        BreakerInv, MayBreak, GoTo, Breaking, files, locals, history
  <1>13. ASSUME NEW p \in Proc, MayNotBreak(p)
         PROVE  SpacingInv'
    BY <1>13, SpacingFrame
    DEF MayNotBreak, Breaking, files, locals, history
  <1>14. ASSUME NEW p \in Proc, Recover(p)
         PROVE  SpacingInv'
    BY <1>14, LockAssumption
    DEF TypeOK, FilesOK, LocalsOK, HistoryOK, SpacingInv, Renewed, Time, NoFile,
        BreakerInv, Recover, GoTo, Breaking, files, locals, history
  <1>15. ASSUME NEW p \in Proc, StatLock(p)
         PROVE  SpacingInv'
    BY <1>15, LockAssumption
    DEF TypeOK, FilesOK, LocalsOK, HistoryOK, SpacingInv, Renewed, Time, NoFile,
        BreakerInv, StatLock, GoTo, Breaking, files, locals, history
  <1>16. ASSUME NEW p \in Proc, CheckAge(p)
         PROVE  SpacingInv'
    BY <1>16, LockAssumption
    DEF TypeOK, FilesOK, LocalsOK, HistoryOK, SpacingInv, Renewed, Time, NoFile,
        BreakerInv, CheckAge, GoTo, Breaking, files, locals, history
  <1>17. ASSUME NEW p \in Proc, Break1(p)
         PROVE  SpacingInv'
    BY <1>17, LockAssumption
    DEF TypeOK, FilesOK, LocalsOK, HistoryOK, SpacingInv, Renewed, Time, NoFile,
        BreakerInv, Break1, GoTo, Breaking, files, locals, history
  <1>18. ASSUME NEW p \in Proc, Break2(p)
         PROVE  SpacingInv'
    BY <1>18, LockAssumption
    DEF TypeOK, FilesOK, LocalsOK, HistoryOK, SpacingInv, Renewed, Time, NoFile,
        BreakerInv, Break2, GoTo, Breaking, files, locals, history
  <1>19. ASSUME NEW p \in Proc, Break3(p)
         PROVE  SpacingInv'
    BY <1>19, LockAssumption
    DEF TypeOK, FilesOK, LocalsOK, HistoryOK, SpacingInv, Renewed, Time, NoFile,
        BreakerInv, Break3, GoTo, Breaking, files, locals, history
  <1>20. ASSUME NEW p \in Proc, PutBack(p)
         PROVE  SpacingInv'
    BY <1>20, LockAssumption
    DEF TypeOK, FilesOK, LocalsOK, HistoryOK, SpacingInv, Renewed, Time, NoFile,
        BreakerInv, PutBack, GoTo, Breaking, files, locals, history
  <1>21. ASSUME NEW p \in Proc, Set1(p)
         PROVE  SpacingInv'
    BY <1>21, LockAssumption
    DEF TypeOK, FilesOK, LocalsOK, HistoryOK, SpacingInv, Renewed, Time, NoFile,
        BreakerInv, Set1, GoTo, Breaking, files, locals, history
  <1>22. ASSUME NEW p \in Proc, Set2(p)
         PROVE  SpacingInv'
    BY <1>22, LockAssumption
    DEF TypeOK, FilesOK, LocalsOK, HistoryOK, SpacingInv, Renewed, Time, NoFile,
        BreakerInv, Set2, GoTo, Breaking, files, locals, history
  <1>23. ASSUME NEW p \in Proc, Set3(p)
         PROVE  SpacingInv'
    BY <1>23, SpacingFrame
    DEF Set3, Stamp, Breaking, files, locals, history
  <1>24. ASSUME NEW p \in Proc, CloseNoUpdate(p)
         PROVE  SpacingInv'
    BY <1>24, SpacingFrame
    DEF CloseNoUpdate, Finish, Return, Forget, Breaking, files, locals, history
  <1>25. ASSUME NEW p \in Proc, Check1(p)
         PROVE  SpacingInv'
    BY <1>25, SpacingFrame
    DEF Check1, SeeLockfile, Decide, Breaking, files, locals, history
  <1>26. ASSUME NEW p \in Proc, Check2(p)
         PROVE  SpacingInv'
    BY <1>26, SpacingFrame
    DEF Check2, SeeStamp, Decide, Breaking, files, locals, history
  <1>27. ASSUME NEW p \in Proc, Check3(p)
         PROVE  SpacingInv'
    BY <1>27, SpacingFrame
    DEF Check3, Decide, Breaking, files, locals, history
  <1>28. ASSUME NEW p \in Proc, Update(p)
         PROVE  SpacingInv'
    BY <1>28, SpacingFrame
    DEF Update, Finish, Return, Forget, Breaking, files, locals, history
  <1>29. ASSUME NEW p \in Proc, Unlock1(p)
         PROVE  SpacingInv'
    BY <1>29, LockAssumption
    DEF TypeOK, FilesOK, LocalsOK, HistoryOK, SpacingInv, Renewed, Time, NoFile,
        BreakerInv, Unlock1, SeeLockfile, AfterUnlock, Return, Forget, GoTo,
        Breaking, files, locals, history
  <1>30. ASSUME NEW p \in Proc, Unlock2(p)
         PROVE  SpacingInv'
    BY <1>30, LockAssumption
    DEF TypeOK, FilesOK, LocalsOK, HistoryOK, SpacingInv, Renewed, Time, NoFile,
        BreakerInv, Unlock2, SeeStamp, AfterUnlock, Return, Forget, GoTo, Breaking,
        files, locals, history
  <1>31. ASSUME NEW p \in Proc, Unlock3(p)
         PROVE  SpacingInv'
    BY <1>31, LockAssumption
    DEF TypeOK, FilesOK, LocalsOK, HistoryOK, SpacingInv, Renewed, Time, NoFile,
        BreakerInv, Unlock3, AfterUnlock, Return, Forget, GoTo, Breaking, files,
        locals, history
  <1>32. ASSUME NEW p \in Proc, RemoveMain(p)
         PROVE  SpacingInv'
    BY <1>32, SpacingFrame
    DEF RemoveMain, Breaking, files, locals, history
  <1>33. ASSUME NEW p \in Proc, Remove1(p)
         PROVE  SpacingInv'
    BY <1>33, SpacingFrame
    DEF Remove1, Breaking, files, locals, history
  <1>34. ASSUME NEW p \in Proc, Remove2(p)
         PROVE  SpacingInv'
    BY <1>34, SpacingFrame
    DEF Remove2, Breaking, files, locals, history
  <1>35. ASSUME NEW p \in Proc, Remove3(p)
         PROVE  SpacingInv'
    BY <1>35, LockAssumption
    DEF TypeOK, FilesOK, LocalsOK, HistoryOK, SpacingInv, Renewed, Time, NoFile,
        BreakerInv, Remove3, Return, Forget, GoTo, Breaking, files, locals, history
  <1>36. ASSUME NEW p \in Proc, Die(p)
         PROVE  SpacingInv'
    <2>1. GoTo(p, pc[p], "dead")
      BY <1>36 DEF Die, GoTo
    <2> QED BY <1>36, <2>1, SpacingFrame
        DEF Die, Return, Forget, Breaking, files, locals, history
  <1>37. ASSUME Tick \/ UNCHANGED vars
         PROVE  SpacingInv'
    BY <1>37, LockAssumption
    DEF TypeOK, FilesOK, LocalsOK, HistoryOK, SpacingInv, Renewed, Time, NoFile,
        Tick, vars, files, locals, history
  <1> QED
    BY <1>1, <1>2, <1>3, <1>4, <1>5, <1>6, <1>7, <1>8, <1>9, <1>10, <1>11,
       <1>12, <1>13, <1>14, <1>15, <1>16, <1>17, <1>18, <1>19, <1>20, <1>21,
       <1>22, <1>23, <1>24, <1>25, <1>26, <1>27, <1>28, <1>29, <1>30, <1>31,
       <1>32, <1>33, <1>34, <1>35, <1>36, <1>37
    DEF Next, Step, ReadMapFile, Lock, VfnClose, Unlock, Remove

\* "The lock can only be broken once in a specified interval of time", when it
\* is broken for its age.
THEOREM BreaksAreSpaced == Spec => []BreakSpacing
  <1>1. Init => BreakerInv /\ SpacingInv
    BY LockAssumption DEF Init, BreakerInv, SpacingInv, Renewed, Breaking, NoFile
  <1>2. TypeOK /\ SpacingInv => BreakSpacing
    BY LockAssumption
    DEF TypeOK, LocalsOK, HistoryOK, SpacingInv, BreakSpacing, Time, NoFile
  <1> QED BY <1>1, <1>2, BreakerStep, SpacingStep, TypeCorrect, PTL DEF Spec
=============================================================================
