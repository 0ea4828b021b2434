--------------------------- MODULE ProcTableProofs --------------------------
(***************************************************************************)
(* What holds of the process table for every set of processes, every size  *)
(* of the table and every order in which processes end and are closed.     *)
(***************************************************************************)
EXTENDS ProcTable, LeastElement, TLAPS

-----------------------------------------------------------------------------
(* The search of the table.                                                *)

\* Of the entries with a given process id the search finds one.
LEMMA FindPid ==
  ASSUME NEW p, Entries(p) # {}
  PROVE  pr_findpid(p) \in Entries(p)
  <1>1. Entries(p) \subseteq Nat
    BY TableAssumption DEF Entries
  <1> QED BY <1>1, LeastIsMember DEF pr_findpid

LEMMA FindSlot ==
  ASSUME NEW p, Entries(p) # {}
  PROVE  pr_findpid(p) \in 1..MAXPROCS /\ prtable[pr_findpid(p)].pid = p
  BY FindPid DEF Entries

-----------------------------------------------------------------------------
(* Types.                                                                  *)

LEMMA EntryTypes ==
  /\ Free \in Entry /\ Free.pid = NoPid
  /\ \A e \in Ends : WEXITSTATUS(e) \in Code
  /\ "none" \notin Ends /\ "running" \notin Ends /\ NoPid \notin Pid
  BY TableAssumption DEF Free, Entry, Code, Ends, WEXITSTATUS

LEMMA InitType == Init => TypeOK
  <1> SUFFICES ASSUME Init
               PROVE  TypeOK
    OBVIOUS
  <1>1. prtable \in [1..MAXPROCS -> Entry]
    BY EntryTypes DEF Init
  <1>2. /\ child \in [Pid -> {"none", "running"} \cup Ends]
        /\ held \in [Pid -> {"none", "connected", "detached", "command"}]
    BY DEF Init
  <1>3. /\ call \in [op : {"none", "forked", "wait", "panic"}, pid : Pid \cup {NoPid}]
        /\ call.op = "none"
    BY DEF Init, Idle
  <1>4. result \in (Pid \cup {"none"}) \X (Code \cup {ERR})
    BY DEF Init, Code
  <1>5. lost \subseteq Pid /\ interrupts \in 0..MaxInterrupts
    BY TableAssumption DEF Init
  <1> QED BY <1>1, <1>2, <1>3, <1>4, <1>5 DEF TypeOK

LEMMA ReturnType ==
  ASSUME TypeOK, NEW p \in Pid, NEW s \in Code \cup {ERR}, Return(p, s)
  PROVE  /\ held' \in [Pid -> {"none", "connected", "detached", "command"}]
         /\ call' = Idle
         /\ result' \in (Pid \cup {"none"}) \X (Code \cup {ERR})
  BY DEF Return, TypeOK

LEMMA EnterType ==
  ASSUME TypeOK, NEW p \in Pid, NEW kind \in {"connected", "detached", "command"},
         NEW next \in [op : {"none", "forked", "wait", "panic"}, pid : Pid \cup {NoPid}],
         next.op # "none" => next.pid \in Pid,
         pr_enter(p, kind, next)
  PROVE  /\ prtable' \in [1..MAXPROCS -> Entry]
         /\ held' \in [Pid -> {"none", "connected", "detached", "command"}]
         /\ call' \in [op : {"none", "forked", "wait", "panic"}, pid : Pid \cup {NoPid}]
         /\ call'.op # "none" => call'.pid \in Pid
  <1>1. CASE Entries(NoPid) = {}
    BY <1>1 DEF pr_enter, TypeOK
  <1>2. CASE Entries(NoPid) # {}
    BY <1>2, FindSlot DEF pr_enter, TypeOK, Entry
  <1> QED BY <1>1, <1>2

LEMMA CloseType ==
  ASSUME TypeOK, NEW p \in Pid, Close(p)
  PROVE  TypeOK'
  <1>1. CASE Entries(p) = {}
    <2>1. Return(p, ERR) /\ UNCHANGED prtable
      BY <1>1 DEF Close, pr_wait
    <2> QED BY <2>1, ReturnType DEF TypeOK, Close, Idle
  <1>2. CASE Entries(p) # {} /\ ~prtable[pr_findpid(p)].active
    <2>1. /\ Return(p, prtable[pr_findpid(p)].status)
          /\ prtable' = [prtable EXCEPT ![pr_findpid(p)] = Free]
      BY <1>2 DEF Close, pr_wait
    <2>2. prtable[pr_findpid(p)].status \in Code
      BY <1>2, FindSlot DEF TypeOK, Entry
    <2>3. prtable' \in [1..MAXPROCS -> Entry]
      BY <2>1, EntryTypes DEF TypeOK
    <2> QED BY <2>1, <2>2, <2>3, ReturnType DEF TypeOK, Close, Idle
  <1>3. CASE Entries(p) # {} /\ prtable[pr_findpid(p)].active
    BY <1>3 DEF TypeOK, Close, pr_wait
  <1> QED BY <1>1, <1>2, <1>3

LEMMA PrWaitNextType ==
  ASSUME TypeOK, NEW q \in Pid, PrWaitNext(q)
  PROVE  TypeOK'
  <1>1. child' \in [Pid -> {"none", "running"} \cup Ends] /\ WEXITSTATUS(child[q]) \in Code
    BY EntryTypes DEF PrWaitNext, TypeOK
  <1>2. CASE Entries(q) = {}
    BY <1>1, <1>2 DEF PrWaitNext, TypeOK
  <1>3. CASE Entries(q) # {} /\ q = call.pid
    <2>1. Return(q, WEXITSTATUS(child[q])) /\ prtable' = [prtable EXCEPT ![pr_findpid(q)] = Free]
      BY <1>3 DEF PrWaitNext
    <2>2. prtable' \in [1..MAXPROCS -> Entry]
      BY <2>1, EntryTypes DEF TypeOK
    <2> QED BY <1>1, <2>1, <2>2, ReturnType DEF TypeOK, PrWaitNext, Idle
  <1>4. CASE Entries(q) # {} /\ q # call.pid
    <2>1. [pid |-> q, active |-> FALSE, status |-> WEXITSTATUS(child[q])] \in Entry
      BY <1>1 DEF Entry
    <2>2. prtable' \in [1..MAXPROCS -> Entry]
      BY <1>4, <2>1 DEF PrWaitNext, TypeOK
    <2> QED BY <1>1, <1>4, <2>2 DEF PrWaitNext, TypeOK
  <1> QED BY <1>2, <1>3, <1>4

LEMMA NextType == TypeOK /\ [Next]_vars => TypeOK'
  <1> SUFFICES ASSUME TypeOK, [Next]_vars
               PROVE  TypeOK'
    OBVIOUS
  <1>1. ASSUME NEW p \in Pid, ZOPCPR(p)
        PROVE  TypeOK'
    <2>1. child' \in [Pid -> {"none", "running"} \cup Ends]
      BY <1>1 DEF ZOPCPR, Fork, TypeOK
    <2> QED BY <1>1, <2>1, EnterType DEF ZOPCPR, TypeOK, Idle
  <1>2. ASSUME NEW p \in Pid, ZOPDPR(p)
        PROVE  TypeOK'
    <2>1. child' \in [Pid -> {"none", "running"} \cup Ends]
      BY <1>2 DEF ZOPDPR, Fork, TypeOK
    <2> QED BY <1>2, <2>1, EnterType DEF ZOPDPR, TypeOK, Idle
  <1>3. ASSUME NEW p \in Pid, ZOSCMD(p)
        PROVE  TypeOK'
    BY <1>3 DEF ZOSCMD, Fork, TypeOK
  <1>4. CASE ZOSCMD_Enter
    <2>1. call.pid \in Pid /\ [call EXCEPT !.op = "wait"] \in
             [op : {"none", "forked", "wait", "panic"}, pid : Pid \cup {NoPid}]
      BY <1>4 DEF ZOSCMD_Enter, TypeOK
    <2>2. [call EXCEPT !.op = "wait"].pid \in Pid
      BY <2>1 DEF TypeOK
    <2> QED BY <1>4, <2>1, <2>2, EnterType DEF ZOSCMD_Enter, TypeOK
  <1>5. ASSUME NEW p \in Pid, Close(p)
        PROVE  TypeOK'
    BY <1>5, CloseType
  <1>6. ASSUME NEW p \in Pid, PrWaitNext(p)
        PROVE  TypeOK'
    BY <1>6, PrWaitNextType
  <1>7. ASSUME NEW p \in Pid, Kill(p)
        PROVE  TypeOK'
    <2>1. prtable' \in [1..MAXPROCS -> Entry]
      BY <1>7, EntryTypes DEF Kill, TypeOK
    <2> QED BY <1>7, <2>1 DEF Kill, TypeOK
  <1>8. CASE Interrupt
    <2>1. call.pid \in Pid /\ interrupts' \in 0..MaxInterrupts
      BY <1>8, TableAssumption DEF Interrupt, TypeOK
    <2> QED BY <1>8, <2>1 DEF Interrupt, TypeOK, Idle
  <1>9. ASSUME NEW p \in Pid, ChildEnds(p)
        PROVE  TypeOK'
    BY <1>9 DEF ChildEnds, TypeOK
  <1>10. CASE UNCHANGED vars
    BY <1>10 DEF vars, TypeOK
  <1> QED BY <1>1, <1>2, <1>3, <1>4, <1>5, <1>6, <1>7, <1>8, <1>9, <1>10 DEF Next

\* Every state is well typed, whatever the size of the table.
THEOREM TypeCorrect == Spec => []TypeOK
  BY InitType, NextType, PTL DEF Spec

-----------------------------------------------------------------------------
(* What becomes of the entries when one is written.                        *)

LEMMA Written ==
  ASSUME TypeOK, NEW i \in 1..MAXPROCS, NEW e \in Entry,
         prtable' = [prtable EXCEPT ![i] = e]
  PROVE  /\ \A p : Entries(p)' = {j \in 1..MAXPROCS : IF j = i THEN e.pid = p
                                                            ELSE prtable[j].pid = p}
         /\ \A j \in 1..MAXPROCS : prtable'[j] = IF j = i THEN e ELSE prtable[j]
  BY DEF Entries, TypeOK

\* The entry of a process is given up: the others keep theirs.
LEMMA Freed ==
  ASSUME TypeOK, NEW q \in Pid, Owned(q), Entries(q) # {},
         prtable' = [prtable EXCEPT ![pr_findpid(q)] = Free]
  PROVE  /\ Entries(q)' = {}
         /\ \A p \in Pid \ {q} : /\ Entries(p)' = Entries(p)
                                 /\ \A i \in Entries(p) : prtable'[i] = prtable[i]
  <1> DEFINE k == pr_findpid(q)
  <1>1. k \in 1..MAXPROCS /\ prtable[k].pid = q /\ Entries(q) = {k}
    BY FindPid, FindSlot DEF Owned
  <1>2. /\ \A p : Entries(p)' = {j \in 1..MAXPROCS : IF j = k THEN Free.pid = p
                                                     ELSE prtable[j].pid = p}
        /\ \A j \in 1..MAXPROCS : prtable'[j] = IF j = k THEN Free ELSE prtable[j]
    BY <1>1, Written, EntryTypes
  <1>3. NoPid \notin Pid /\ Free.pid = NoPid
    BY EntryTypes
  <1> HIDE DEF k
  <1> QED BY <1>1, <1>2, <1>3 DEF Entries

\* The entry of a process is written again: all keep theirs.
LEMMA Marked ==
  ASSUME TypeOK, NEW q \in Pid, Owned(q), Entries(q) # {},
         NEW e \in Entry, e.pid = q,
         prtable' = [prtable EXCEPT ![pr_findpid(q)] = e]
  PROVE  /\ \A p \in Pid : Entries(p)' = Entries(p)
         /\ \A i \in Entries(q) : prtable'[i] = e
         /\ \A p \in Pid \ {q} : \A i \in Entries(p) : prtable'[i] = prtable[i]
  <1> DEFINE k == pr_findpid(q)
  <1>1. k \in 1..MAXPROCS /\ prtable[k].pid = q /\ Entries(q) = {k}
    BY FindPid, FindSlot DEF Owned
  <1>2. /\ \A p : Entries(p)' = {j \in 1..MAXPROCS : IF j = k THEN e.pid = p
                                                     ELSE prtable[j].pid = p}
        /\ \A j \in 1..MAXPROCS : prtable'[j] = IF j = k THEN e ELSE prtable[j]
    BY <1>1, Written
  <1> HIDE DEF k
  <1> QED BY <1>1, <1>2 DEF Entries

\* A process is put in a free entry.
LEMMA Entered ==
  ASSUME TypeOK, NEW q \in Pid, Entries(q) = {}, Entries(NoPid) # {},
         NEW kind, NEW next, pr_enter(q, kind, next)
  PROVE  /\ held' = [held EXCEPT ![q] = kind] /\ call' = next
         /\ \E i \in 1..MAXPROCS : Entries(q)' = {i} /\ prtable'[i].active = TRUE
         /\ \A p \in Pid \ {q} : /\ Entries(p)' = Entries(p)
                                 /\ \A i \in Entries(p) : prtable'[i] = prtable[i]
  <1> DEFINE k == pr_findpid(NoPid)
             e == [prtable[k] EXCEPT !.pid = q, !.active = TRUE]
  <1>1. k \in 1..MAXPROCS /\ prtable[k].pid = NoPid
    BY FindSlot
  <1>2. prtable[k] \in Entry
    BY <1>1 DEF TypeOK
  <1>3. e \in Entry /\ e.pid = q /\ e.active = TRUE
    BY <1>2 DEF Entry
  <1>4. prtable' = [prtable EXCEPT ![k] = e]
    BY <1>1, <1>2 DEF pr_enter, TypeOK, Entry
  <1>5. held' = [held EXCEPT ![q] = kind] /\ call' = next
    BY DEF pr_enter
  <1> HIDE DEF k, e
  <1>6. /\ \A p : Entries(p)' = {j \in 1..MAXPROCS : IF j = k THEN e.pid = p
                                                     ELSE prtable[j].pid = p}
        /\ \A j \in 1..MAXPROCS : prtable'[j] = IF j = k THEN e ELSE prtable[j]
    BY <1>1, <1>3, <1>4, Written
  <1>7. NoPid \notin Pid
    BY EntryTypes
  <1>8. Entries(q)' = {k} /\ prtable'[k].active = TRUE
    BY <1>1, <1>3, <1>6 DEF Entries
  <1>9. \A p \in Pid \ {q} : /\ Entries(p)' = Entries(p)
                             /\ \A i \in Entries(p) : prtable'[i] = prtable[i]
    BY <1>1, <1>3, <1>6, <1>7 DEF Entries
  <1> QED BY <1>1, <1>5, <1>8, <1>9

-----------------------------------------------------------------------------
(* The entries belong to the processes that are open or lost.              *)

\* What the primitive that is waiting may rely on: the process it waits for is
\* open, and the one it has forked is a child nobody knows of; a process that
\* is lost is not open.
CallInv ==
    /\ \A p \in lost : held[p] = "none"
    /\ call.op = "wait" => held[call.pid] # "none"
    /\ call.op = "forked" => /\ held[call.pid] = "none" /\ call.pid \notin lost
                             /\ child[call.pid] # "none"

IInv == TypeOK /\ EntriesOwned /\ CallInv

LEMMA InitIInv == Init => IInv
  <1> SUFFICES ASSUME Init
               PROVE  IInv
    OBVIOUS
  <1>1. \A p \in Pid : Entries(p) = {}
    BY EntryTypes DEF Init, Entries
  <1>2. EntriesOwned
    BY <1>1 DEF EntriesOwned, Owned, Init
  <1>3. CallInv
    BY DEF CallInv, Init, Idle
  <1> QED BY <1>2, <1>3, InitType DEF IInv

\* A process whose entry, child and hands do not change is owned as before.
LEMMA OwnedFrame ==
  ASSUME NEW p \in Pid, Owned(p),
         Entries(p)' = Entries(p), \A i \in Entries(p) : prtable'[i] = prtable[i],
         held'[p] = held[p], p \in lost' <=> p \in lost,
         child'[p] = "none" <=> child[p] = "none"
  PROVE  Owned(p)'
  <1>1. Entries(p)' # {} <=> held'[p] # "none" \/ p \in lost'
    BY DEF Owned
  <1>2. ASSUME NEW i \in Entries(p)'
        PROVE  Entries(p)' = {i} /\ (prtable'[i].active <=> child'[p] # "none")
    BY <1>2 DEF Owned
  <1> QED BY <1>1, <1>2 DEF Owned

\* Nothing was written.
LEMMA SameEntries ==
  ASSUME prtable' = prtable
  PROVE  \A p : Entries(p)' = Entries(p) /\ \A i \in Entries(p) : prtable'[i] = prtable[i]
  BY DEF Entries

\* A new process enters the table.
LEMMA EnterOwned ==
  ASSUME IInv, NEW q \in Pid, NEW kind \in {"connected", "detached", "command"},
         NEW next, pr_enter(q, kind, next), Entries(q) = {},
         child'[q] # "none", \A p \in Pid \ {q} : child'[p] = child[p], lost' = lost
  PROVE  EntriesOwned'
  <1>1. held \in [Pid -> {"none", "connected", "detached", "command"}]
    BY DEF IInv, TypeOK
  <1>2. q \notin lost /\ held[q] = "none" /\ \A p \in Pid : Owned(p)
    BY DEF IInv, EntriesOwned, Owned
  <1>3. CASE Entries(NoPid) = {}
    <2>1. prtable' = prtable /\ held' = held
      BY <1>3 DEF pr_enter
    <2>2. Owned(q)'
      BY <2>1, <1>2, SameEntries DEF Owned
    <2>3. \A p \in Pid \ {q} : Owned(p)'
      BY <2>1, <1>2, SameEntries, OwnedFrame
    <2> QED BY <2>2, <2>3 DEF EntriesOwned
  <1>4. CASE Entries(NoPid) # {}
    <2>1. /\ held' = [held EXCEPT ![q] = kind] /\ call' = next
          /\ \E i \in 1..MAXPROCS : Entries(q)' = {i} /\ prtable'[i].active = TRUE
          /\ \A p \in Pid \ {q} : /\ Entries(p)' = Entries(p)
                                  /\ \A i \in Entries(p) : prtable'[i] = prtable[i]
      BY <1>4, Entered DEF IInv
    <2>2. held'[q] # "none" /\ \A p \in Pid \ {q} : held'[p] = held[p]
      BY <1>1, <2>1
    <2>3. Owned(q)'
      BY <2>1, <2>2 DEF Owned
    <2>4. \A p \in Pid \ {q} : Owned(p)'
      BY <2>1, <2>2, <1>2, OwnedFrame
    <2> QED BY <2>3, <2>4 DEF EntriesOwned
  <1> QED BY <1>3, <1>4

LEMMA EnterCall ==
  ASSUME IInv, NEW q \in Pid, NEW kind \in {"connected", "detached", "command"},
         NEW next, pr_enter(q, kind, next), Entries(q) = {}, lost' = lost,
         next.op = "none" \/ (next.op = "wait" /\ next.pid = q)
  PROVE  CallInv'
  <1>1. /\ held \in [Pid -> {"none", "connected", "detached", "command"}]
        /\ lost \subseteq Pid /\ \A p \in lost : held[p] = "none"
    BY DEF IInv, TypeOK, CallInv
  <1>2. q \notin lost
    BY DEF IInv, EntriesOwned, Owned
  <1>3. CASE Entries(NoPid) = {}
    BY <1>1, <1>3 DEF pr_enter, CallInv
  <1>4. CASE Entries(NoPid) # {}
    <2>1. held' = [held EXCEPT ![q] = kind] /\ call' = next
      BY <1>4 DEF pr_enter
    <2> QED BY <1>1, <1>2, <2>1 DEF CallInv
  <1> QED BY <1>3, <1>4

\* The entry of a process that was open is given up with it.
LEMMA GiveUp ==
  ASSUME IInv, NEW q \in Pid, held[q] # "none",
         prtable' = [prtable EXCEPT ![pr_findpid(q)] = Free],
         held' = [held EXCEPT ![q] = "none"], call' = Idle \/ (call' = call /\ call = Idle),
         lost' = lost, \A p \in Pid \ {q} : child'[p] = child[p]
  PROVE  EntriesOwned' /\ CallInv'
  <1>1. /\ held \in [Pid -> {"none", "connected", "detached", "command"}]
        /\ lost \subseteq Pid /\ \A p \in lost : held[p] = "none"
        /\ \A p \in Pid : Owned(p)
        /\ Entries(q) # {} /\ q \notin lost
    BY DEF IInv, TypeOK, CallInv, EntriesOwned, Owned
  <1>2. /\ Entries(q)' = {}
        /\ \A p \in Pid \ {q} : /\ Entries(p)' = Entries(p)
                                /\ \A i \in Entries(p) : prtable'[i] = prtable[i]
    BY <1>1, Freed DEF IInv
  <1>3. held'[q] = "none" /\ \A p \in Pid \ {q} : held'[p] = held[p]
    BY <1>1
  <1>4. Owned(q)'
    BY <1>1, <1>2, <1>3 DEF Owned
  <1>5. \A p \in Pid \ {q} : Owned(p)'
    BY <1>1, <1>2, <1>3, OwnedFrame
  <1>6. CallInv'
    BY <1>1, <1>3 DEF CallInv, Idle
  <1> QED BY <1>4, <1>5, <1>6 DEF EntriesOwned

LEMMA NextIInv == IInv /\ [Next]_vars => IInv'
  <1> SUFFICES ASSUME IInv, [Next]_vars
               PROVE  EntriesOwned' /\ CallInv'
    BY NextType DEF IInv
  <1>0. /\ held \in [Pid -> {"none", "connected", "detached", "command"}]
        /\ child \in [Pid -> {"none", "running"} \cup Ends]
        /\ call.op # "none" => call.pid \in Pid
        /\ \A p \in Pid : Owned(p)
        /\ "none" \notin Ends /\ "running" \notin Ends
    BY EntryTypes DEF IInv, TypeOK, EntriesOwned
  <1>1. ASSUME NEW p \in Pid, ZOPCPR(p) \/ ZOPDPR(p)
        PROVE  EntriesOwned' /\ CallInv'
    <2>1. /\ pr_enter(p, "connected", Idle) \/ pr_enter(p, "detached", Idle)
          /\ Entries(p) = {} /\ child' = [child EXCEPT ![p] = "running"] /\ lost' = lost
      BY <1>1 DEF ZOPCPR, ZOPDPR, Fork, Unused
    <2>2. Idle.op = "none" /\ child'[p] # "none" /\ \A q \in Pid \ {p} : child'[q] = child[q]
      BY <1>0, <2>1 DEF Idle
    <2> QED BY <2>1, <2>2, EnterOwned, EnterCall
  <1>2. ASSUME NEW p \in Pid, ZOSCMD(p)
        PROVE  EntriesOwned' /\ CallInv'
    <2>1. /\ Entries(p) = {} /\ child' = [child EXCEPT ![p] = "running"]
          /\ lost' = lost /\ held' = held /\ prtable' = prtable
          /\ call' = [op |-> "forked", pid |-> p]
      BY <1>2 DEF ZOSCMD, Fork, Unused
    <2>2. held[p] = "none" /\ p \notin lost
      BY <1>0, <2>1 DEF Owned
    <2>3. CallInv'
      BY <1>0, <2>1, <2>2 DEF CallInv, IInv
    <2>4. Owned(p)'
      BY <2>1, <2>2, SameEntries DEF Owned
    <2>5. \A q \in Pid \ {p} : Owned(q)'
      BY <1>0, <2>1, SameEntries, OwnedFrame
    <2> QED BY <2>3, <2>4, <2>5 DEF EntriesOwned
  <1>3. CASE ZOSCMD_Enter
    <2> DEFINE next == [call EXCEPT !.op = "wait"]
    <2>1. /\ call.pid \in Pid /\ pr_enter(call.pid, "command", next)
          /\ child' = child /\ lost' = lost
      BY <1>0, <1>3 DEF ZOSCMD_Enter
    <2>2. child[call.pid] # "none" /\ Entries(call.pid) = {}
      BY <1>3, <2>1 DEF ZOSCMD_Enter, IInv, CallInv, EntriesOwned, Owned
    <2>3. next.op = "wait" /\ next.pid = call.pid
      BY DEF IInv, TypeOK
    <2> HIDE DEF next
    <2> QED BY <2>1, <2>2, <2>3, EnterOwned, EnterCall
  <1>4. ASSUME NEW p \in Pid, Close(p)
        PROVE  EntriesOwned' /\ CallInv'
    <2>1. /\ held[p] # "none" /\ call = Idle /\ child' = child /\ lost' = lost
          /\ pr_wait(p)
      BY <1>4 DEF Close
    <2>2. Entries(p) # {}
      BY <1>0, <2>1 DEF Owned
    <2>3. CASE prtable[pr_findpid(p)].active
      <3>1. prtable' = prtable /\ held' = held /\ call' = [op |-> "wait", pid |-> p]
        BY <2>1, <2>2, <2>3 DEF pr_wait
      <3>2. CallInv'
        BY <2>1, <3>1 DEF CallInv, IInv
      <3> QED BY <1>0, <2>1, <3>1, <3>2, SameEntries, OwnedFrame DEF EntriesOwned
    <2>4. CASE ~prtable[pr_findpid(p)].active
      <3>1. /\ prtable' = [prtable EXCEPT ![pr_findpid(p)] = Free]
            /\ held' = [held EXCEPT ![p] = "none"] /\ call' = Idle
        BY <2>1, <2>2, <2>4 DEF pr_wait, Return
      <3> QED BY <2>1, <3>1, GiveUp
    <2> QED BY <2>3, <2>4
  <1>5. ASSUME NEW q \in Pid, PrWaitNext(q)
        PROVE  EntriesOwned' /\ CallInv'
    <2>1. /\ child[q] # "none" /\ child' = [child EXCEPT ![q] = "none"] /\ lost' = lost
          /\ call.op = "wait" /\ held[call.pid] # "none"
      BY <1>0, <1>5 DEF PrWaitNext, IInv, CallInv
    <2>2. child'[q] = "none" /\ \A p \in Pid \ {q} : child'[p] = child[p]
      BY <1>0, <2>1
    <2>3. CASE Entries(q) = {}
      <3>1. prtable' = prtable /\ held' = held /\ call' = call
        BY <1>5, <2>3 DEF PrWaitNext
      <3>2. held[q] = "none" /\ q \notin lost
        BY <1>0, <2>3 DEF Owned
      <3>3. Owned(q)'
        BY <2>1, <2>3, <3>1, <3>2, SameEntries DEF Owned
      <3>4. \A p \in Pid \ {q} : Owned(p)'
        BY <1>0, <2>1, <2>2, <3>1, SameEntries, OwnedFrame
      <3>5. CallInv'
        BY <2>1, <3>1 DEF CallInv, IInv
      <3> QED BY <3>3, <3>4, <3>5 DEF EntriesOwned
    <2>4. CASE Entries(q) # {} /\ q = call.pid
      <3>1. /\ prtable' = [prtable EXCEPT ![pr_findpid(q)] = Free]
            /\ held' = [held EXCEPT ![q] = "none"] /\ call' = Idle
        BY <1>5, <2>4 DEF PrWaitNext, Return
      <3> QED BY <2>1, <2>2, <2>4, <3>1, GiveUp
    <2>5. CASE Entries(q) # {} /\ q # call.pid
      <3> DEFINE e == [pid |-> q, active |-> FALSE, status |-> WEXITSTATUS(child[q])]
      <3>1. /\ prtable' = [prtable EXCEPT ![pr_findpid(q)] = e]
            /\ held' = held /\ call' = call
        BY <1>5, <2>5 DEF PrWaitNext
      <3>2. e \in Entry /\ e.pid = q /\ ~e.active
        BY <1>5, EntryTypes DEF Entry, PrWaitNext
      <3> HIDE DEF e
      <3>3. /\ \A p \in Pid : Entries(p)' = Entries(p)
            /\ \A i \in Entries(q) : prtable'[i] = e
            /\ \A p \in Pid \ {q} : \A i \in Entries(p) : prtable'[i] = prtable[i]
        BY <1>0, <2>5, <3>1, <3>2, Marked DEF IInv
      <3>4. /\ Entries(q)' # {} <=> held'[q] # "none" \/ q \in lost'
            /\ \A i \in Entries(q)' : Entries(q)' = {i}
        BY <1>0, <2>1, <3>1, <3>3 DEF Owned
      <3>5. Owned(q)'
        BY <2>2, <3>2, <3>3, <3>4 DEF Owned
      <3>6. \A p \in Pid \ {q} : Owned(p)'
        BY <1>0, <2>1, <2>2, <3>1, <3>3, OwnedFrame
      <3>7. CallInv'
        BY <2>1, <3>1 DEF CallInv, IInv
      <3> QED BY <3>5, <3>6, <3>7 DEF EntriesOwned
    <2> QED BY <2>3, <2>4, <2>5
  <1>6. ASSUME NEW p \in Pid, Kill(p)
        PROVE  EntriesOwned' /\ CallInv'
    <2>1. Entries(p) # {}
      BY <1>0, <1>6 DEF Kill, Owned
    <2> QED BY <1>6, <2>1, GiveUp DEF Kill
  <1>7. CASE Interrupt
    <2>0. PICK q \in Pid : q = call.pid
      BY <1>0, <1>7 DEF Interrupt
    <2>1. /\ q \in Pid /\ call' = Idle /\ prtable' = prtable /\ child' = child
          /\ call.op \in {"forked", "wait"}
      BY <1>7 DEF Interrupt
    <2>2. CASE held[q] = "detached"
      <3>1. held' = held /\ lost' = lost
        BY <1>7, <2>0, <2>2 DEF Interrupt
      <3>2. CallInv'
        BY <2>1, <3>1 DEF CallInv, IInv, Idle
      <3> QED BY <1>0, <2>1, <3>1, <3>2, SameEntries, OwnedFrame DEF EntriesOwned
    <2>3. CASE held[q] # "detached" /\ call.op = "forked"
      <3>1. held[q] = "none" /\ held' = [held EXCEPT ![q] = "none"] /\ lost' = lost
        BY <1>7, <2>0, <2>3 DEF Interrupt, IInv, CallInv
      <3>2. held' = held
        BY <1>0, <2>0, <3>1
      <3>3. CallInv'
        BY <2>1, <3>1, <3>2 DEF CallInv, IInv, Idle
      <3> QED BY <1>0, <2>1, <3>1, <3>2, <3>3, SameEntries, OwnedFrame DEF EntriesOwned
    <2>4. CASE held[q] # "detached" /\ call.op = "wait"
      <3>1. /\ held' = [held EXCEPT ![q] = "none"] /\ lost' = lost \cup {q}
            /\ held[q] # "none"
        BY <1>7, <2>0, <2>4 DEF Interrupt, IInv, CallInv
      <3>2. held'[q] = "none" /\ \A p \in Pid \ {q} : held'[p] = held[p]
        BY <1>0, <2>0, <3>1
      <3>3. CallInv'
        <4>1. \A p \in lost' : held'[p] = "none"
          BY <2>0, <3>1, <3>2 DEF IInv, CallInv, TypeOK
        <4> QED BY <2>0, <2>1, <4>1 DEF CallInv, Idle
      <3>4. Owned(q)'
        BY <1>0, <2>1, <3>1, SameEntries DEF Owned
      <3>5. \A p \in Pid \ {q} : Owned(p)'
        BY <1>0, <2>1, <3>1, <3>2, SameEntries, OwnedFrame
      <3> QED BY <3>3, <3>4, <3>5 DEF EntriesOwned
    <2> QED BY <2>1, <2>2, <2>3, <2>4
  <1>8. ASSUME NEW p \in Pid, ChildEnds(p)
        PROVE  EntriesOwned' /\ CallInv'
    <2>1. /\ prtable' = prtable /\ held' = held /\ call' = call /\ lost' = lost
          /\ child[p] # "none" /\ \E e \in Ends : child' = [child EXCEPT ![p] = e]
      BY <1>8 DEF ChildEnds
    <2>2. \A q \in Pid : child'[q] = "none" <=> child[q] = "none"
      BY <1>0, <2>1
    <2>3. CallInv'
      BY <1>0, <2>1, <2>2 DEF CallInv, IInv
    <2> QED BY <1>0, <2>1, <2>2, <2>3, SameEntries, OwnedFrame DEF EntriesOwned
  <1>9. CASE UNCHANGED vars
    <2>1. CallInv'
      BY <1>9 DEF vars, CallInv, IInv
    <2>2. EntriesOwned'
      BY <1>0, <1>9, SameEntries, OwnedFrame DEF vars, EntriesOwned
    <2> QED BY <2>1, <2>2
  <1> QED BY <1>1, <1>2, <1>3, <1>4, <1>5, <1>6, <1>7, <1>8, <1>9 DEF Next

\* Whatever order processes end and are closed in, and wherever an interrupt
\* strikes, the entries of the table are those of the processes that are open
\* and of the calls that were interrupted.
THEOREM EntriesAreOwned == Spec => []EntriesOwned
  <1>1. IInv => EntriesOwned
    BY DEF IInv
  <1> QED BY <1>1, InitIInv, NextIInv, PTL DEF Spec

-----------------------------------------------------------------------------
(* The table implements what is promised to the program.                   *)

\* The entry of a process that is open is the one the search finds.
LEMMA TheEntry ==
  ASSUME NEW p, Owned(p), NEW i \in Entries(p)
  PROVE  pr_findpid(p) = i
  BY FindPid DEF Owned

LEMMA TheEntryNext ==
  ASSUME NEW p, Owned(p)', NEW i \in Entries(p)'
  PROVE  pr_findpid(p)' = i
  <1>1. Entries(p)' \subseteq Nat /\ Entries(p)' = {i}
    BY TableAssumption DEF Entries, Owned
  <1>2. pr_findpid(p)' \in Entries(p)'
    BY <1>1, LeastIsMember DEF pr_findpid
  <1> QED BY <1>1, <1>2

\* What the program would be told of a process does not change with its place.
LEMMA SameState ==
  ASSUME NEW p \in Pid, Owned(p), Owned(p)', p \in InHand' <=> p \in InHand,
         child'[p] = child[p], Entries(p)' = Entries(p),
         \A i \in Entries(p) : prtable'[i] = prtable[i]
  PROVE  State(p)' = State(p)
  <1>1. CASE Entries(p) = {}
    BY <1>1 DEF State
  <1>2. CASE Entries(p) # {}
    <2>1. PICK i \in Entries(p) : TRUE
      BY <1>2
    <2>2. pr_findpid(p) = i /\ pr_findpid(p)' = i
      BY <2>1, TheEntry, TheEntryNext
    <2> QED BY <1>2, <2>1, <2>2 DEF State
  <1> QED BY <1>1, <1>2

LEMMA OpenMaps ==
  ASSUME NEW p \in Pid, p \notin InHand, InHand' = InHand \cup {p}, State(p)' = "running",
         \A q \in Pid \ {p} : State(q)' = State(q), result' = result
  PROVE  Host!Open(p)
  BY DEF Host!Open

LEMMA EndMaps ==
  ASSUME NEW p \in Pid, InHand' = InHand, State(p) = "running", NEW c, State(p)' = c,
         \A q \in Pid \ {p} : State(q)' = State(q), result' = result
  PROVE  Host!End(p, c)
  BY DEF Host!End

LEMMA CloseMaps ==
  ASSUME NEW p \in Pid, p \in InHand, InHand' = InHand \ {p}, State(p) \in Code,
         State(p)' = "none", result' = <<p, State(p)>>,
         \A q \in Pid \ {p} : State(q)' = State(q)
  PROVE  Host!Close(p)
  BY DEF Host!Close

LEMMA DisownMaps ==
  ASSUME NEW p \in Pid, p \in InHand, InHand' = InHand \ {p}, State(p)' = "none",
         \A q \in Pid \ {p} : State(q)' = State(q), result' = result
  PROVE  Host!Disown(p)
  BY DEF Host!Disown

LEMMA StutterMaps ==
  ASSUME InHand' = InHand, \A q \in Pid : State(q)' = State(q), result' = result
  PROVE  UNCHANGED Host!table
  BY DEF Host!table

LEMMA InitMaps == Init => Host!Init
  <1> SUFFICES ASSUME Init
               PROVE  Host!Init
    OBVIOUS
  <1>1. InHand = {}
    BY DEF Init, InHand, Idle
  <1>2. \A p \in Pid : State(p) = "none"
    BY <1>1 DEF State
  <1>3. result \in {"none"} \X Code
    BY DEF Init, Code
  <1> QED BY <1>1, <1>2, <1>3 DEF Host!Init

LEMMA InHandIs ==
  ASSUME TypeOK
  PROVE  /\ InHand \subseteq Pid
         /\ \A p \in Pid : p \in InHand <=> held[p] # "none" \/ (call.op = "forked" /\ call.pid = p)
  BY DEF InHand, TypeOK

LEMMA InHandIsNext ==
  ASSUME TypeOK'
  PROVE  /\ InHand' \subseteq Pid
         /\ \A p \in Pid : p \in InHand' <=> held'[p] # "none" \/ (call'.op = "forked" /\ call'.pid = p)
  BY DEF InHand, TypeOK

\* A process that enters the table is open, or the program has ended.
LEMMA EnterMaps ==
  ASSUME IInv, IInv', NEW p \in Pid, NEW kind \in {"connected", "detached", "command"},
         NEW next, next.op \in {"none", "wait"}, pr_enter(p, kind, next), Entries(p) = {},
         call = Idle \/ (call.op = "forked" /\ call.pid = p),
         \A q \in Pid \ {p} : child'[q] = child[q], lost' = lost
  PROVE  /\ \A q \in Pid \ {p} : (q \in InHand' <=> q \in InHand) /\ State(q)' = State(q)
         /\ Entries(NoPid) = {} => p \notin InHand'
         /\ Entries(NoPid) # {} => p \in InHand'
  <1>1. /\ held \in [Pid -> {"none", "connected", "detached", "command"}]
        /\ \A q \in Pid : Owned(q) /\ Owned(q)'
        /\ TypeOK /\ TypeOK' /\ held[p] = "none"
    BY DEF IInv, TypeOK, EntriesOwned, Owned
  <1>2. CASE Entries(NoPid) = {}
    <2>1. prtable' = prtable /\ held' = held /\ call'.op = "panic"
      BY <1>2 DEF pr_enter
    <2>2. \A q \in Pid \ {p} : q \in InHand' <=> q \in InHand
      BY <1>1, <2>1, InHandIs, InHandIsNext DEF Idle
    <2>3. p \notin InHand'
      BY <1>1, <2>1, InHandIsNext
    <2>4. \A q \in Pid \ {p} : State(q)' = State(q)
      BY <1>1, <2>1, <2>2, SameEntries, SameState
    <2> QED BY <1>2, <2>2, <2>3, <2>4
  <1>3. CASE Entries(NoPid) # {}
    <2>1. /\ held' = [held EXCEPT ![p] = kind] /\ call' = next
          /\ \A q \in Pid \ {p} : /\ Entries(q)' = Entries(q)
                                  /\ \A i \in Entries(q) : prtable'[i] = prtable[i]
      BY <1>1, <1>3, Entered
    <2>2. held'[p] = kind /\ \A q \in Pid \ {p} : held'[q] = held[q]
      BY <1>1, <2>1
    <2>3. \A q \in Pid \ {p} : q \in InHand' <=> q \in InHand
      BY <1>1, <2>1, <2>2, InHandIs, InHandIsNext DEF Idle
    <2>4. p \in InHand'
      BY <1>1, <2>2, InHandIsNext
    <2>5. \A q \in Pid \ {p} : State(q)' = State(q)
      BY <1>1, <2>1, <2>3, SameState
    <2> QED BY <1>3, <2>3, <2>4, <2>5
  <1> QED BY <1>2, <1>3

\* The entry of a process that was open is given up, and the others are as before.
LEMMA GiveUpMaps ==
  ASSUME IInv, IInv', NEW p \in Pid, held[p] # "none",
         prtable' = [prtable EXCEPT ![pr_findpid(p)] = Free],
         held' = [held EXCEPT ![p] = "none"], call.op # "forked", call' = Idle,
         \A q \in Pid \ {p} : child'[q] = child[q]
  PROVE  /\ p \in InHand /\ InHand' = InHand \ {p} /\ State(p)' = "none"
         /\ \A q \in Pid \ {p} : State(q)' = State(q)
  <1>1. /\ held \in [Pid -> {"none", "connected", "detached", "command"}]
        /\ \A q \in Pid : Owned(q) /\ Owned(q)'
        /\ TypeOK /\ TypeOK' /\ Entries(p) # {}
    BY DEF IInv, TypeOK, EntriesOwned, Owned
  <1>2. held'[p] = "none" /\ \A q \in Pid \ {p} : held'[q] = held[q]
    BY <1>1
  <1>3. \A q \in Pid : q \in InHand' <=> q \in InHand /\ q # p
    BY <1>1, <1>2, InHandIs, InHandIsNext DEF Idle
  <1>4. p \in InHand /\ InHand' = InHand \ {p}
    BY <1>1, <1>3, InHandIs, InHandIsNext
  <1>5. \A q \in Pid \ {p} : /\ Entries(q)' = Entries(q)
                             /\ \A i \in Entries(q) : prtable'[i] = prtable[i]
    BY <1>1, Freed
  <1>6. \A q \in Pid \ {p} : State(q)' = State(q)
    BY <1>1, <1>3, <1>5, SameState
  <1>7. State(p)' = "none"
    BY <1>3 DEF State
  <1> QED BY <1>4, <1>6, <1>7

\* A close that waits changes nothing the program is told; one that finds the
\* status in the table is the close of the abstract specification.
LEMMA CloseStep ==
  ASSUME IInv, IInv', NEW p \in Pid, Close(p)
  PROVE  [Host!Next]_(Host!table)
  <1>1. /\ held \in [Pid -> {"none", "connected", "detached", "command"}]
        /\ \A q \in Pid : Owned(q) /\ Owned(q)'
        /\ TypeOK /\ TypeOK' /\ held[p] # "none" /\ Entries(p) # {}
        /\ call = Idle /\ child' = child /\ pr_wait(p)
    BY DEF IInv, TypeOK, EntriesOwned, Owned, Close
  <1>2. PICK i \in Entries(p) : pr_findpid(p) = i /\ (prtable[i].active <=> child[p] # "none")
    BY <1>1, TheEntry DEF Owned
  <1>3. CASE prtable[i].active
    <2>1. /\ prtable' = prtable /\ held' = held /\ result' = result
          /\ call' = [op |-> "wait", pid |-> p]
      BY <1>1, <1>2, <1>3 DEF pr_wait
    <2>2. \A q \in Pid : q \in InHand' <=> q \in InHand
      BY <1>1, <2>1, InHandIs, InHandIsNext DEF Idle
    <2>3. InHand' = InHand
      BY <1>1, <2>2, InHandIs, InHandIsNext
    <2>4. \A q \in Pid : State(q)' = State(q)
      BY <1>1, <2>1, <2>2, SameEntries, SameState
    <2> QED BY <2>1, <2>3, <2>4, StutterMaps
  <1>4. CASE ~prtable[i].active
    <2>1. /\ prtable' = [prtable EXCEPT ![pr_findpid(p)] = Free]
          /\ held' = [held EXCEPT ![p] = "none"] /\ call' = Idle
          /\ result' = <<p, prtable[i].status>>
      BY <1>1, <1>2, <1>4 DEF pr_wait, Return
    <2>2. /\ p \in InHand /\ InHand' = InHand \ {p} /\ State(p)' = "none"
          /\ \A q \in Pid \ {p} : State(q)' = State(q)
      BY <1>1, <2>1, GiveUpMaps DEF Idle
    <2>3. child[p] = "none" /\ "none" \notin Ends
      BY <1>2, <1>4, EntryTypes
    <2>4. prtable[i].status \in Code
      BY <1>1 DEF TypeOK, Entry, Entries
    <2>5. State(p) = prtable[i].status
      BY <1>1, <1>2, <2>2, <2>3 DEF State
    <2> QED BY <2>1, <2>2, <2>4, <2>5, CloseMaps DEF Host!Next
  <1> QED BY <1>3, <1>4

LEMMA PrWaitNextStep ==
  ASSUME IInv, IInv', NEW p \in Pid, PrWaitNext(p)
  PROVE  [Host!Next]_(Host!table)
  <1>1. /\ child \in [Pid -> {"none", "running"} \cup Ends]
        /\ \A q \in Pid : Owned(q) /\ Owned(q)'
        /\ TypeOK /\ TypeOK' /\ call.op = "wait" /\ held[call.pid] # "none"
        /\ child[p] \in Ends /\ child' = [child EXCEPT ![p] = "none"]
        /\ "none" \notin Ends /\ "running" \notin Ends /\ WEXITSTATUS(child[p]) \in Code
    BY EntryTypes DEF IInv, TypeOK, EntriesOwned, CallInv, PrWaitNext
  <1>2. child'[p] = "none" /\ \A q \in Pid \ {p} : child'[q] = child[q]
    BY <1>1
  <1>3. CASE Entries(p) = {}
    <2>1. prtable' = prtable /\ held' = held /\ call' = call /\ result' = result
      BY <1>3 DEF PrWaitNext
    <2>2. \A q \in Pid : q \in InHand' <=> q \in InHand
      BY <1>1, <2>1, InHandIs, InHandIsNext
    <2>3. InHand' = InHand
      BY <1>1, <2>2, InHandIs, InHandIsNext
    <2>4. held[p] = "none"
      BY <1>1, <1>3 DEF Owned
    <2>5. State(p)' = State(p)
      BY <1>1, <2>2, <2>4, InHandIs DEF State
    <2>6. \A q \in Pid \ {p} : State(q)' = State(q)
      BY <1>1, <1>2, <2>1, <2>2, SameEntries, SameState
    <2> QED BY <2>1, <2>3, <2>5, <2>6, StutterMaps
  <1>4. CASE Entries(p) # {} /\ p = call.pid
    <2>1. /\ prtable' = [prtable EXCEPT ![pr_findpid(p)] = Free]
          /\ held' = [held EXCEPT ![p] = "none"] /\ call' = Idle
          /\ result' = <<p, WEXITSTATUS(child[p])>>
      BY <1>4 DEF PrWaitNext, Return
    <2>2. /\ p \in InHand /\ InHand' = InHand \ {p} /\ State(p)' = "none"
          /\ \A q \in Pid \ {p} : State(q)' = State(q)
      BY <1>1, <1>2, <1>4, <2>1, GiveUpMaps
    <2>3. State(p) = WEXITSTATUS(child[p])
      BY <1>1, <2>2 DEF State
    <2> QED BY <1>1, <2>1, <2>2, <2>3, CloseMaps DEF Host!Next
  <1>5. CASE Entries(p) # {} /\ p # call.pid
    <2> DEFINE e == [pid |-> p, active |-> FALSE, status |-> WEXITSTATUS(child[p])]
    <2>1. /\ prtable' = [prtable EXCEPT ![pr_findpid(p)] = e]
          /\ held' = held /\ call' = call /\ result' = result
      BY <1>5 DEF PrWaitNext
    <2>2. e \in Entry /\ e.pid = p /\ e.status = WEXITSTATUS(child[p])
      BY <1>1 DEF Entry
    <2>3. e.status \in Code
      BY <1>1, <2>2
    <2> HIDE DEF e
    <2>4. /\ \A q \in Pid : Entries(q)' = Entries(q)
          /\ \A i \in Entries(p) : prtable'[i] = e
          /\ \A q \in Pid \ {p} : \A i \in Entries(q) : prtable'[i] = prtable[i]
      BY <1>1, <1>5, <2>1, <2>2, Marked
    <2>5. \A q \in Pid : q \in InHand' <=> q \in InHand
      BY <1>1, <2>1, InHandIs, InHandIsNext
    <2>6. InHand' = InHand
      BY <1>1, <2>5, InHandIs, InHandIsNext
    <2>7. PICK i \in Entries(p)' : pr_findpid(p)' = i /\ prtable'[i] = e
      BY <1>1, <1>5, <2>4, TheEntryNext
    <2>8. State(p)' = State(p)
      BY <1>1, <1>2, <2>2, <2>5, <2>7 DEF State
    <2>9. \A q \in Pid \ {p} : State(q)' = State(q)
      BY <1>1, <1>2, <2>4, <2>5, SameState
    <2> QED BY <2>1, <2>6, <2>8, <2>9, StutterMaps
  <1> QED BY <1>3, <1>4, <1>5

LEMMA InterruptStep ==
  ASSUME IInv, IInv', Interrupt
  PROVE  [Host!Next]_(Host!table)
  <1>1. PICK p \in Pid : p = call.pid
    BY DEF IInv, TypeOK, Interrupt
  <1>2. /\ held \in [Pid -> {"none", "connected", "detached", "command"}]
        /\ \A q \in Pid : Owned(q) /\ Owned(q)'
        /\ TypeOK /\ TypeOK' /\ call.op \in {"forked", "wait"} /\ call' = Idle
        /\ call.op = "wait" => held[p] # "none"
        /\ call.op = "forked" => held[p] = "none"
        /\ prtable' = prtable /\ child' = child /\ result' = result
    BY <1>1 DEF IInv, TypeOK, EntriesOwned, CallInv, Interrupt
  <1>3. CASE held[p] = "detached"
    <2>1. held' = held
      BY <1>1, <1>3 DEF Interrupt
    <2>2. \A q \in Pid : q \in InHand' <=> q \in InHand
      BY <1>2, <1>3, <2>1, InHandIs, InHandIsNext DEF Idle
    <2>3. InHand' = InHand
      BY <1>2, <2>2, InHandIs, InHandIsNext
    <2>4. \A q \in Pid : State(q)' = State(q)
      BY <1>2, <2>2, SameEntries, SameState
    <2> QED BY <1>2, <2>3, <2>4, StutterMaps
  <1>4. CASE held[p] # "detached"
    <2>1. held' = [held EXCEPT ![p] = "none"]
      BY <1>1, <1>4 DEF Interrupt
    <2>2. held'[p] = "none" /\ \A q \in Pid \ {p} : held'[q] = held[q]
      BY <1>2, <2>1
    <2>3. p \in InHand /\ \A q \in Pid : q \in InHand' <=> q \in InHand /\ q # p
      BY <1>1, <1>2, <2>2, InHandIs, InHandIsNext DEF Idle
    <2>4. InHand' = InHand \ {p}
      BY <1>2, <2>3, InHandIs, InHandIsNext
    <2>5. State(p)' = "none"
      BY <2>3 DEF State
    <2>6. \A q \in Pid \ {p} : State(q)' = State(q)
      BY <1>2, <2>3, SameEntries, SameState
    <2> QED BY <1>2, <2>3, <2>4, <2>5, <2>6, DisownMaps DEF Host!Next
  <1> QED BY <1>3, <1>4

LEMMA ChildEndsStep ==
  ASSUME IInv, IInv', NEW p \in Pid, ChildEnds(p)
  PROVE  [Host!Next]_(Host!table)
  <1>1. /\ child \in [Pid -> {"none", "running"} \cup Ends]
        /\ \A q \in Pid : Owned(q) /\ Owned(q)'
        /\ TypeOK /\ TypeOK' /\ child[p] = "running" /\ "running" \notin Ends
        /\ prtable' = prtable /\ held' = held /\ call' = call /\ result' = result
    BY EntryTypes DEF IInv, TypeOK, EntriesOwned, ChildEnds
  <1>2. PICK e \in Ends : child'[p] = e /\ \A q \in Pid \ {p} : child'[q] = child[q]
    BY <1>1 DEF ChildEnds
  <1>3. \A q \in Pid : q \in InHand' <=> q \in InHand
    BY <1>1, InHandIs, InHandIsNext
  <1>4. InHand' = InHand
    BY <1>1, <1>3, InHandIs, InHandIsNext
  <1>5. \A q \in Pid \ {p} : State(q)' = State(q)
    BY <1>1, <1>2, <1>3, SameEntries, SameState
  <1>6. CASE p \in InHand
    <2>1. State(p) = "running" /\ State(p)' = WEXITSTATUS(e)
      BY <1>1, <1>2, <1>4, <1>6 DEF State
    <2>2. WEXITSTATUS(e) \in Code /\ Host!End(p, WEXITSTATUS(e))
      BY <1>1, <1>4, <1>5, <2>1, EndMaps, EntryTypes
    <2> QED BY <2>2 DEF Host!Next
  <1>7. CASE p \notin InHand
    BY <1>1, <1>3, <1>4, <1>5, <1>7, StutterMaps DEF State
  <1> QED BY <1>6, <1>7

LEMMA OpenStep ==
  ASSUME IInv, IInv', NEW p \in Pid, ZOPCPR(p) \/ ZOPDPR(p)
  PROVE  [Host!Next]_(Host!table)
  <1>1. /\ child \in [Pid -> {"none", "running"} \cup Ends]
        /\ TypeOK /\ TypeOK' /\ Owned(p)
    BY DEF IInv, TypeOK, EntriesOwned
  <1>2. /\ pr_enter(p, "connected", Idle) \/ pr_enter(p, "detached", Idle)
        /\ Entries(p) = {} /\ child' = [child EXCEPT ![p] = "running"]
        /\ lost' = lost /\ result' = result /\ call = Idle /\ Idle.op = "none"
    BY DEF ZOPCPR, ZOPDPR, Fork, Unused, Idle
  <1>3. child'[p] = "running" /\ \A q \in Pid \ {p} : child'[q] = child[q]
    BY <1>1, <1>2
  <1>4. p \notin InHand
    BY <1>1, <1>2, InHandIs DEF Owned
  <1>5. /\ \A q \in Pid \ {p} : (q \in InHand' <=> q \in InHand) /\ State(q)' = State(q)
        /\ Entries(NoPid) = {} => p \notin InHand'
        /\ Entries(NoPid) # {} => p \in InHand'
    BY <1>2, <1>3, EnterMaps
  <1>6. CASE Entries(NoPid) = {}
    <2>1. InHand' = InHand /\ State(p) = "none" /\ State(p)' = "none"
      BY <1>1, <1>4, <1>5, <1>6, InHandIs, InHandIsNext, ZenonT(60) DEF State
    <2> QED BY <1>2, <1>5, <2>1, StutterMaps
  <1>7. CASE Entries(NoPid) # {}
    <2>1. InHand' = InHand \cup {p} /\ State(p)' = "running"
      BY <1>1, <1>3, <1>5, <1>7, InHandIs, InHandIsNext DEF State
    <2> QED BY <1>2, <1>4, <1>5, <2>1, OpenMaps DEF Host!Next
  <1> QED BY <1>6, <1>7

LEMMA CommandStep ==
  ASSUME IInv, IInv', NEW p \in Pid, ZOSCMD(p)
  PROVE  [Host!Next]_(Host!table)
  <1>1. /\ child \in [Pid -> {"none", "running"} \cup Ends]
        /\ TypeOK /\ TypeOK' /\ \A q \in Pid : Owned(q) /\ Owned(q)'
    BY DEF IInv, TypeOK, EntriesOwned
  <1>2. /\ Entries(p) = {} /\ child' = [child EXCEPT ![p] = "running"]
        /\ prtable' = prtable /\ held' = held /\ result' = result
        /\ call = Idle /\ call'.op = "forked" /\ call'.pid = p
    BY DEF ZOSCMD, Fork, Unused
  <1>3. child'[p] = "running" /\ \A q \in Pid \ {p} : child'[q] = child[q]
    BY <1>1, <1>2
  <1>4. p \notin InHand /\ \A q \in Pid : q \in InHand' <=> q \in InHand \/ q = p
    BY <1>1, <1>2, InHandIs, InHandIsNext DEF Owned, Idle
  <1>5. InHand' = InHand \cup {p} /\ State(p)' = "running"
    BY <1>1, <1>3, <1>4, InHandIs, InHandIsNext DEF State
  <1>6. \A q \in Pid \ {p} : State(q)' = State(q)
    BY <1>1, <1>2, <1>3, <1>4, SameEntries, SameState
  <1> QED BY <1>2, <1>4, <1>5, <1>6, OpenMaps DEF Host!Next

LEMMA CommandEnterStep ==
  ASSUME IInv, IInv', ZOSCMD_Enter
  PROVE  [Host!Next]_(Host!table)
  <1> DEFINE next == [call EXCEPT !.op = "wait"]
  <1>1. PICK p \in Pid : p = call.pid
    BY DEF IInv, TypeOK, ZOSCMD_Enter
  <1>2. /\ child \in [Pid -> {"none", "running"} \cup Ends]
        /\ TypeOK /\ TypeOK' /\ Owned(p) /\ Owned(p)' /\ child[p] # "none"
        /\ held[p] = "none" /\ p \notin lost /\ "none" \notin Ends
    BY <1>1, EntryTypes DEF IInv, TypeOK, EntriesOwned, CallInv, ZOSCMD_Enter
  <1>3. /\ pr_enter(p, "command", next) /\ call.op = "forked" /\ next.op = "wait"
        /\ child' = child /\ lost' = lost /\ result' = result /\ Entries(p) = {}
    BY <1>1, <1>2 DEF ZOSCMD_Enter, TypeOK, Owned
  <1> HIDE DEF next
  <1>4. p \in InHand
    BY <1>1, <1>2, <1>3, InHandIs
  <1>5. /\ \A q \in Pid \ {p} : (q \in InHand' <=> q \in InHand) /\ State(q)' = State(q)
        /\ Entries(NoPid) = {} => p \notin InHand'
        /\ Entries(NoPid) # {} => p \in InHand'
    BY <1>1, <1>3, EnterMaps
  <1>6. CASE Entries(NoPid) = {}
    <2>1. InHand' = InHand \ {p} /\ State(p)' = "none"
      BY <1>2, <1>4, <1>5, <1>6, InHandIs, InHandIsNext DEF State
    <2> QED BY <1>3, <1>4, <1>5, <2>1, DisownMaps DEF Host!Next
  <1>7. CASE Entries(NoPid) # {}
    <2>1. InHand' = InHand /\ p \in InHand'
      BY <1>2, <1>4, <1>5, <1>7, InHandIs, InHandIsNext
    <2>2. child[p] = "running" \/ child[p] \in Ends
      BY <1>2
    <2>3. State(p)' = State(p)
      BY <1>3, <1>4, <2>1, <2>2 DEF State
    <2> QED BY <1>3, <1>5, <2>1, <2>3, StutterMaps
  <1> QED BY <1>6, <1>7

LEMMA StepMaps == IInv /\ IInv' /\ [Next]_vars => [Host!Next]_(Host!table)
  <1> SUFFICES ASSUME IInv, IInv', [Next]_vars
               PROVE  [Host!Next]_(Host!table)
    OBVIOUS
  <1>1. ASSUME NEW p \in Pid, Kill(p)
        PROVE  [Host!Next]_(Host!table)
    <2>1. Entries(p) # {} /\ held[p] # "none"
      BY <1>1 DEF Kill, IInv, EntriesOwned, Owned
    <2>2. /\ p \in InHand /\ InHand' = InHand \ {p} /\ State(p)' = "none"
          /\ \A q \in Pid \ {p} : State(q)' = State(q)
      BY <1>1, <2>1, GiveUpMaps DEF Kill, Idle
    <2> QED BY <1>1, <2>2, DisownMaps DEF Kill, Host!Next
  <1>2. CASE UNCHANGED vars
    <2>1. InHand' = InHand
      BY <1>2 DEF vars, InHand
    <2>2. \A p \in Pid : Owned(p) /\ Owned(p)'
      BY DEF IInv, EntriesOwned
    <2>3. \A p \in Pid : State(p)' = State(p)
      BY <1>2, <2>1, <2>2, SameEntries, SameState DEF vars
    <2> QED BY <1>2, <2>1, <2>3, StutterMaps DEF vars
  <1> QED BY <1>1, <1>2, OpenStep, CommandStep, CommandEnterStep, CloseStep, PrWaitNextStep,
             InterruptStep, ChildEndsStep DEF Next

\* Processes may be closed in any order, and any number of them may end while
\* one is waited for: a close returns how the process that is closed ended,
\* never ERR and never the status of another.
THEOREM Implementation == Spec => Refinement
  <1>1. Init /\ [][Next]_vars => Host!Init /\ [][Host!Next]_(Host!table)
    BY InitMaps, InitIInv, NextIInv, StepMaps, PTL
  <1> QED BY <1>1, PTL DEF Spec, Refinement, Host!Spec

=============================================================================
