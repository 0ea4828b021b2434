----------------------------- MODULE VfnMapProofs ----------------------------
(***************************************************************************)
(* What holds of the filename mapping database for any set of processes    *)
(* and names and any number of OSFNs.                                      *)
(***************************************************************************)
EXTENDS VfnMap, FiniteSetTheorems, TLAPS

-----------------------------------------------------------------------------
(* Mappings that fit in the mapping file.                                  *)

Mem == {m \in Mappings : IsFiniteSet(DOMAIN m) /\ Cardinality(DOMAIN m) <= MAX_LONGFNAMES}

LEMMA OSFNs == 0 \in OSFN /\ MAX_DEGENERACY \in Nat
  <1>1. PICK i \in 1..MAX_DEGENERACY : MAX_DEGENERACY = RADIX * i
    BY MapAssumption
  <1>2. MAX_DEGENERACY \in Int /\ MAX_DEGENERACY >= 1
    <2>1. i \in Int /\ i >= 1
      BY <1>1
    <2>2. RADIX * i \in Int /\ RADIX * i >= 1
      BY <2>1, MapAssumption
    <2> QED BY <1>1, <2>2
  <1> QED BY <1>2 DEF OSFN

LEMMA MappingIs ==
  ASSUME NEW m
  PROVE  m \in Mappings <=> /\ m = [v \in DOMAIN m |-> m[v]]
                            /\ DOMAIN m \subseteq Name
                            /\ \A v \in DOMAIN m : m[v] \in OSFN
  BY DEF Mappings

LEMMA EmptyMem == Empty \in Mem /\ DOMAIN Empty = {}
  <1>1. DOMAIN Empty = {} /\ Empty = [v \in DOMAIN Empty |-> Empty[v]]
    BY DEF Empty
  <1>2. Empty \in Mappings
    BY <1>1, MappingIs
  <1> QED BY <1>1, <1>2, FS_EmptySet, MapAssumption DEF Mem

LEMMA MemValue ==
  ASSUME NEW m \in Mem, NEW v \in DOMAIN m
  PROVE  v \in Name /\ m[v] \in OSFN
  BY MappingIs DEF Mem

LEMMA RemovedMem ==
  ASSUME NEW m \in Mem, NEW v
  PROVE  /\ Removed(m, v) \in Mem
         /\ DOMAIN Removed(m, v) = DOMAIN m \ {v}
         /\ \A u \in DOMAIN m \ {v} : Removed(m, v)[u] = m[u]
  <1> DEFINE r == Removed(m, v)
  <1>1. /\ DOMAIN r = DOMAIN m \ {v}
        /\ \A u \in DOMAIN m \ {v} : r[u] = m[u]
        /\ r = [u \in DOMAIN r |-> r[u]]
    BY DEF Removed, Restrict
  <1>2. r \in Mappings
    BY <1>1, MappingIs DEF Mem
  <1>3. IsFiniteSet(DOMAIN r) /\ Cardinality(DOMAIN r) <= MAX_LONGFNAMES
    <2>1. IsFiniteSet(DOMAIN m) /\ DOMAIN r \in SUBSET DOMAIN m
      BY <1>1 DEF Mem
    <2>2. Cardinality(DOMAIN r) <= Cardinality(DOMAIN m) /\ IsFiniteSet(DOMAIN r)
      BY <2>1, FS_Subset
    <2>3. Cardinality(DOMAIN r) \in Nat /\ Cardinality(DOMAIN m) \in Nat
      BY <2>1, <2>2, FS_CardinalityType
    <2> QED BY <2>2, <2>3, MapAssumption DEF Mem
  <1> QED BY <1>1, <1>2, <1>3 DEF Mem

LEMMA PairedMem ==
  ASSUME NEW m \in Mem, NEW v \in Name, NEW k \in OSFN,
         Cardinality(DOMAIN m) + 1 <= MAX_LONGFNAMES
  PROVE  /\ Paired(m, v, k) \in Mem
         /\ DOMAIN Paired(m, v, k) = DOMAIN m \cup {v}
         /\ Paired(m, v, k)[v] = k
         /\ \A u \in DOMAIN m \ {v} : Paired(m, v, k)[u] = m[u]
  <1> DEFINE r == Paired(m, v, k)
  <1>1. /\ DOMAIN r = DOMAIN m \cup {v} /\ r[v] = k
        /\ \A u \in DOMAIN m \ {v} : r[u] = m[u]
        /\ r = [u \in DOMAIN r |-> r[u]]
    BY DEF Paired
  <1>2. r \in Mappings
    BY <1>1, MappingIs DEF Mem
  <1>3. IsFiniteSet(DOMAIN r) /\ Cardinality(DOMAIN r) <= MAX_LONGFNAMES
    <2>1. IsFiniteSet(DOMAIN m) /\ Cardinality(DOMAIN m) \in Nat
      BY FS_CardinalityType DEF Mem
    <2>2. /\ IsFiniteSet(DOMAIN m \cup {v})
          /\ v \in DOMAIN m => Cardinality(DOMAIN m \cup {v}) = Cardinality(DOMAIN m)
          /\ v \notin DOMAIN m => Cardinality(DOMAIN m \cup {v}) = Cardinality(DOMAIN m) + 1
      BY <2>1, FS_AddElement, Zenon
    <2>3. Cardinality(DOMAIN m \cup {v}) \in Nat
      BY <2>2, FS_CardinalityType
    <2> QED BY <1>1, <2>1, <2>2, <2>3, MapAssumption
  <1> QED BY <1>1, <1>2, <1>3 DEF Mem

-----------------------------------------------------------------------------
(* Types.                                                                  *)

State ==
    [at : Places, op : {"none", "open", "alloc", "delete", "rename1", "rename2", "rename3"},
     after : {"none", "open", "alloc", "rename2"}, v : Name \cup {NoName},
     w : Name \cup {NoName}, mem : Mem, added : BOOLEAN, fresh : BOOLEAN,
     linked : BOOLEAN, osfn : OSFN, old : OSFN, ok : {"ok", "error", "err"}]

\* A process that is in a procedure knows the names it is about; it calls
\* fclobber only from a procedure that makes a file.
Work == {s \in State :
            /\ s.at # "idle" => s.v \in Name
            /\ s.at \in {"look", "access"} => s.op \in {"open", "alloc", "rename2"}
            /\ s.op \in {"rename1", "rename2"} \/ s.after = "rename2" => s.w \in Name}

Globals ==
    /\ mapfile \in BOOLEAN /\ free \in BOOLEAN /\ broken \in BOOLEAN
    /\ map \in Mem
    /\ ~mapfile => map = Empty
    /\ disk \in [OSFN -> Name \cup {NoName}]
    /\ owner \in Proc \cup {NoName}
    /\ harm \in {"none", "flawed", "replaced"}

TypeInv ==
    /\ Globals
    /\ st \in [Proc -> Work]
    /\ \A p \in Proc : st[p].linked => mapfile

LEMMA PlacesAre ==
  /\ {"read", "enter", "exists", "unlink", "again", "create", "move", "commit"} \subseteq Places
  /\ {"close", "rmmap", "rmlock", "leave", "leak", "idle", "look", "access"} \subseteq Places
  /\ {"find", "make", "init", "lock", "raised", "zopen", "dead"} \subseteq Places
  BY DEF Places, Locked

LEMMA IdleWork == Idle \in Work /\ Idle.at = "idle" /\ ~Idle.linked /\ Idle.v = NoName
  BY OSFNs, EmptyMem DEF Idle, Work, State, Places, Locked

LEMMA GotoWork ==
  ASSUME NEW s \in Work, s.at # "idle", NEW place \in Places \ {"look", "access"}
  PROVE  [s EXCEPT !.at = place] \in Work
  BY DEF Work, State

LEMMA UndeleteWork ==
  ASSUME TypeInv, NEW p \in Proc, st[p].at # "idle", st[p].w \in Name
  PROVE  Undelete(p) \in Work /\ ~Undelete(p).linked /\ Undelete(p).at = "find"
  <1>1. st[p].v \in Name /\ st[p].old \in OSFN
    BY DEF TypeInv, Work, State
  <1> QED BY <1>1, IdleWork, PlacesAre DEF Undelete, Idle, Work, State

LEMMA AfterCloseWork ==
  ASSUME TypeInv, NEW p \in Proc, st[p].at # "idle"
  PROVE  /\ AfterClose(p) \in Work /\ ~AfterClose(p).linked
         /\ AfterClose(p).at \in {"zopen", "find", "look", "idle"}
  <1> DEFINE s == st[p]
  <1>1. /\ s.v \in Name /\ s.old \in OSFN /\ s.osfn \in OSFN
        /\ s.w \in Name \cup {NoName}
        /\ s.after \in {"none", "open", "alloc", "rename2"}
        /\ s.op \in {"rename1", "rename2"} \/ s.after = "rename2" => s.w \in Name
    BY DEF TypeInv, Work, State
  <1>2. CASE s.op = "open" /\ s.ok = "ok"
    BY <1>1, <1>2, IdleWork, PlacesAre, ZenonT(60) DEF AfterClose, Idle, Work, State
  <1>3. CASE s.op = "delete" /\ s.ok = "ok" /\ s.after # "none"
    BY <1>1, <1>3, IdleWork, PlacesAre, ZenonT(60) DEF AfterClose, Idle, Work, State
  <1>4. CASE s.op = "delete" /\ s.ok # "ok" /\ s.after = "rename2"
    BY <1>1, <1>4, UndeleteWork DEF AfterClose
  <1>5. CASE s.op = "rename1" /\ s.ok = "ok"
    BY <1>1, <1>5, IdleWork, PlacesAre, ZenonT(60) DEF AfterClose, Idle, Work, State
  <1>6. CASE s.op = "rename2" /\ s.ok = "err"
    BY <1>1, <1>6, UndeleteWork DEF AfterClose
  <1>7. CASE ~(\/ s.op = "open" /\ s.ok = "ok"
               \/ s.op = "delete" /\ s.ok = "ok" /\ s.after # "none"
               \/ s.op = "delete" /\ s.ok # "ok" /\ s.after = "rename2"
               \/ s.op = "rename1" /\ s.ok = "ok"
               \/ s.op = "rename2" /\ s.ok = "err")
    <2>1. AfterClose(p) = Idle
      BY <1>7 DEF AfterClose
    <2> QED BY <2>1, IdleWork
  <1> QED BY <1>2, <1>3, <1>4, <1>5, <1>6, <1>7

LEMMA FoundWork ==
  ASSUME TypeInv, NEW p \in Proc, st[p].at # "idle", NEW m \in Mem, st[p].v \in DOMAIN m
  PROVE  /\ Found(p, m) \in Work
         /\ Found(p, m).at \in {"exists", "create", "close", "commit"}
         /\ Found(p, m).linked = st[p].linked
  <1> DEFINE s == st[p]
  <1>1. s \in State /\ s \in Work /\ m[s.v] \in OSFN /\ Removed(m, s.v) \in Mem
    BY MemValue, RemovedMem DEF TypeInv, Work
  <1>2. CASE Deleting(p)
    BY <1>1, <1>2, PlacesAre DEF Found, Deleting, Work, State
  <1>3. CASE ~Deleting(p)
    <2> DEFINE at == CASE s.op = "alloc"   -> "create"
                       [] s.op = "rename2" -> "close"
                       [] OTHER            -> "commit"
               ok == IF s.op = "rename2" THEN "err" ELSE "ok"
    <2>1. Found(p, m) = [s EXCEPT !.at = at, !.ok = ok, !.mem = m, !.osfn = m[s.v]]
      BY <1>3 DEF Found
    <2>2. at \in {"create", "close", "commit"} /\ ok \in {"err", "ok"}
      OBVIOUS
    <2> HIDE DEF at, ok
    <2>3. at \in Places /\ ok \in {"ok", "error", "err"}
      BY <2>2, PlacesAre
    <2> DEFINE t == [s EXCEPT !.at = at, !.ok = ok, !.mem = m, !.osfn = m[s.v]]
    <2>4. t \in Work /\ t.at = at /\ t.linked = s.linked
      BY <1>1, <2>2, <2>3, ZenonT(60) DEF Work, State
    <2> QED BY <2>1, <2>2, <2>4
  <1> QED BY <1>2, <1>3

LEMMA NotFoundWork ==
  ASSUME TypeInv, NEW p \in Proc, st[p].at # "idle", NEW m \in Mem
  PROVE  /\ NotFound(p, m) \in Work
         /\ NotFound(p, m).at \in {"close", "enter"}
         /\ NotFound(p, m).linked = st[p].linked
  <1> DEFINE s == st[p]
  <1>1. s \in State /\ s \in Work
    BY DEF TypeInv, Work
  <1>2. CASE Deleting(p)
    <2>1. NotFound(p, m) = [s EXCEPT !.at = "close", !.mem = m, !.ok = "error"]
      BY <1>2 DEF NotFound
    <2> QED BY <1>1, <2>1, PlacesAre, ZenonT(60) DEF Work, State
  <1>3. CASE ~Deleting(p)
    <2>1. NotFound(p, m) = [s EXCEPT !.at = "enter", !.mem = m, !.osfn = 0]
      BY <1>3 DEF NotFound
    <2> QED BY <1>1, <2>1, OSFNs, PlacesAre, ZenonT(60) DEF Work, State
  <1> QED BY <1>2, <1>3

\* A step that sets the state of one process.
LEMMA OneStep ==
  ASSUME TypeInv, NEW p \in Proc, NEW s \in Work, st' = [st EXCEPT ![p] = s],
         Globals', s.linked => mapfile', mapfile => mapfile'
  PROVE  TypeInv'
  <1>1. st' \in [Proc -> Work]
    BY DEF TypeInv
  <1>2. \A q \in Proc : st'[q].linked => mapfile'
    BY DEF TypeInv
  <1> QED BY <1>1, <1>2 DEF TypeInv

LEMMA GotoStep ==
  ASSUME TypeInv, NEW p \in Proc, st[p].at # "idle",
         NEW place \in Places \ {"look", "access"},
         Goto(p, place), Globals', mapfile => mapfile'
  PROVE  TypeInv'
  <1> DEFINE s == [st[p] EXCEPT !.at = place]
  <1>1. st' = [st EXCEPT ![p] = s]
    BY DEF Goto
  <1>2. st[p] \in Work /\ st[p] \in State
    BY DEF TypeInv, Work
  <1>3. s \in Work /\ s.linked = st[p].linked
    BY <1>2, GotoWork DEF State
  <1> HIDE DEF s
  <1> QED BY <1>1, <1>3, OneStep DEF TypeInv

LEMMA IdleStep ==
  ASSUME TypeInv, NEW p \in Proc, st' = [st EXCEPT ![p] = Idle],
         Globals', mapfile => mapfile'
  PROVE  TypeInv'
  BY IdleWork, OneStep

LEMMA AbandonStep ==
  ASSUME TypeInv, NEW p \in Proc, st[p].at # "idle", NEW how \in {"error", "err"},
         Abandon(p, how), Globals', mapfile => mapfile'
  PROVE  TypeInv'
  <1> DEFINE s == [st[p] EXCEPT !.at = "close", !.ok = how]
  <1>1. st' = [st EXCEPT ![p] = s]
    BY DEF Abandon
  <1>2. st[p] \in Work /\ st[p] \in State
    BY DEF TypeInv, Work
  <1>3. s \in Work /\ s.linked = st[p].linked
    BY <1>2, PlacesAre DEF Work, State
  <1> HIDE DEF s
  <1> QED BY <1>1, <1>3, OneStep DEF TypeInv

LEMMA CloseStep ==
  ASSUME TypeInv, NEW p \in Proc, st[p].at # "idle", st' = [st EXCEPT ![p] = AfterClose(p)],
         Globals', mapfile => mapfile'
  PROVE  TypeInv'
  BY AfterCloseWork, OneStep

\* The steps in which vfnopen and vfnclose raise an error with the lock set.
Fails(p) == MakeFails(p) \/ WriteFails(p) \/ CloseFails(p) \/ LeakLock(p)

LEMMA FailStep ==
  ASSUME TypeInv, NEW p \in Proc, Fails(p)
  PROVE  /\ TypeInv'
         /\ st'[p].at \in {"find", "idle"} /\ \A q \in Proc \ {p} : st'[q] = st[q]
         /\ UNCHANGED <<mapfile, map, disk, free, owner, broken>>
  <1>1. /\ st[p].at \in {"make", "commit", "close", "leak"} /\ Fail(p)
        /\ UNCHANGED <<mapfile, map, disk, free, owner, broken>>
    BY DEF Fails, MakeFails, WriteFails, CloseFails, LeakLock, At
  <1>2. harm' \in {"none", "flawed", "replaced"}
    BY DEF Fails, MakeFails, WriteFails, CloseFails, LeakLock, Flawed, FlawedIf, TypeInv, Globals
  <1>3. Globals' /\ mapfile' = mapfile
    BY <1>1, <1>2 DEF TypeInv, Globals
  <1>4. PICK s \in Work : st' = [st EXCEPT ![p] = s] /\ ~s.linked /\ s.at \in {"find", "idle"}
    <2>1. CASE Within(p, {"delete"}) /\ st[p].after = "rename2"
      <3>1. st[p].w \in Name
        BY <2>1 DEF TypeInv, Work
      <3>2. Undelete(p) \in Work /\ ~Undelete(p).linked /\ Undelete(p).at = "find"
        BY <1>1, <3>1, UndeleteWork
      <3> QED BY <1>1, <2>1, <3>2 DEF Fail
    <2>2. CASE ~(Within(p, {"delete"}) /\ st[p].after = "rename2")
      BY <1>1, <2>2, IdleWork DEF Fail
    <2> QED BY <2>1, <2>2
  <1>5. TypeInv'
    BY <1>3, <1>4, OneStep
  <1>6. st'[p] = s /\ \A q \in Proc \ {p} : st'[q] = st[q]
    BY <1>4 DEF TypeInv
  <1> QED BY <1>1, <1>4, <1>5, <1>6

LEMMA InitType == Init => TypeInv
  <1> SUFFICES ASSUME Init
               PROVE  TypeInv
    OBVIOUS
  <1>1. Globals
    BY EmptyMem DEF Init, Globals
  <1>2. st \in [Proc -> Work] /\ \A p \in Proc : ~st[p].linked
    BY IdleWork DEF Init
  <1> QED BY <1>1, <1>2 DEF TypeInv

LEMMA OpenType ==
  ASSUME TypeInv, NEW p \in Proc, Start(p) \/ Look(p) \/ Access(p)
  PROVE  TypeInv'
  <1>1. Globals' /\ mapfile' = mapfile
    BY DEF Start, Look, Access, Globals, TypeInv
  <1>2. CASE Start(p)
    <2>1. PICK s \in Work : st' = [st EXCEPT ![p] = s] /\ ~s.linked
      <3>1. PICK v \in Name :
             \/ \E op \in Ops \cap {"open", "alloc"} :
                  st' = [st EXCEPT ![p] = [Idle EXCEPT !.at = "look", !.op = op, !.v = v]]
             \/ st' = [st EXCEPT ![p] = [Idle EXCEPT !.at = "find", !.op = "delete", !.v = v]]
             \/ \E w \in Name \ {v} :
                  st' = [st EXCEPT ![p] = [Idle EXCEPT !.at = "find", !.op = "rename1",
                                                       !.v = v, !.w = w]]
        BY <1>2 DEF Start
      <3>2. CASE \E op \in Ops \cap {"open", "alloc"} :
                  st' = [st EXCEPT ![p] = [Idle EXCEPT !.at = "look", !.op = op, !.v = v]]
        <4>1. PICK op \in Ops \cap {"open", "alloc"} :
                  st' = [st EXCEPT ![p] = [Idle EXCEPT !.at = "look", !.op = op, !.v = v]]
          BY <3>2
        <4>2. [Idle EXCEPT !.at = "look", !.op = op, !.v = v] \in Work
          BY IdleWork, PlacesAre DEF Idle, Work, State
        <4> QED BY <4>1, <4>2 DEF Idle
      <3>3. CASE st' = [st EXCEPT ![p] = [Idle EXCEPT !.at = "find", !.op = "delete", !.v = v]]
        <4>1. [Idle EXCEPT !.at = "find", !.op = "delete", !.v = v] \in Work
          BY IdleWork, PlacesAre DEF Idle, Work, State
        <4> QED BY <3>3, <4>1 DEF Idle
      <3>4. CASE \E w \in Name \ {v} :
                  st' = [st EXCEPT ![p] = [Idle EXCEPT !.at = "find", !.op = "rename1",
                                                       !.v = v, !.w = w]]
        <4>1. PICK w \in Name \ {v} :
                  st' = [st EXCEPT ![p] = [Idle EXCEPT !.at = "find", !.op = "rename1",
                                                       !.v = v, !.w = w]]
          BY <3>4
        <4>2. [Idle EXCEPT !.at = "find", !.op = "rename1", !.v = v, !.w = w] \in Work
          BY IdleWork, PlacesAre DEF Idle, Work, State
        <4> QED BY <4>1, <4>2 DEF Idle
      <3> QED BY <3>1, <3>2, <3>3, <3>4
    <2> QED BY <1>1, <2>1, OneStep
  <1>3. CASE Look(p)
    <2>1. CASE mapfile /\ st[p].v \in DOMAIN map
      <3> DEFINE s == [st[p] EXCEPT !.at = "access", !.osfn = map[st[p].v]]
      <3>1. st' = [st EXCEPT ![p] = s] /\ st[p].at = "look"
        BY <1>3, <2>1 DEF Look, At
      <3>2. st[p] \in Work /\ st[p] \in State /\ map[st[p].v] \in OSFN
        BY <2>1, MemValue DEF TypeInv, Globals, Work
      <3>3. s \in Work /\ s.linked = st[p].linked
        BY <3>1, <3>2, PlacesAre DEF Work, State
      <3> HIDE DEF s
      <3> QED BY <1>1, <3>1, <3>3, OneStep DEF TypeInv
    <2>2. CASE ~(mapfile /\ st[p].v \in DOMAIN map)
      BY <1>1, <1>3, <2>2, GotoStep, PlacesAre DEF Look, At
    <2> QED BY <2>1, <2>2
  <1>4. CASE Access(p)
    <2>1. st[p].at = "access" /\ st[p] \in Work /\ st[p] \in State
      BY <1>4 DEF Access, At, TypeInv, Work
    <2>2. CASE Goto(p, "find")
      BY <1>1, <2>1, <2>2, GotoStep, PlacesAre
    <2>3. CASE st' = [st EXCEPT ![p].at = "find", ![p].op = "delete", ![p].after = st[p].op]
      <3> DEFINE s == [st[p] EXCEPT !.at = "find", !.op = "delete", !.after = st[p].op]
      <3>1. st' = [st EXCEPT ![p] = s]
        BY <2>3
      <3>2. s \in Work /\ s.linked = st[p].linked
        BY <2>1, PlacesAre DEF Work, State
      <3> HIDE DEF s
      <3> QED BY <1>1, <3>1, <3>2, OneStep DEF TypeInv
    <2>4. CASE st' = [st EXCEPT ![p] = IF st[p].op = "rename2" THEN Undelete(p) ELSE Idle]
      <3>1. CASE st[p].op = "rename2"
        <4>1. Undelete(p) \in Work /\ ~Undelete(p).linked
          BY <2>1, <3>1, UndeleteWork DEF Work
        <4> QED BY <1>1, <2>4, <3>1, <4>1, OneStep
      <3>2. CASE st[p].op # "rename2"
        BY <1>1, <2>4, <3>2, IdleStep
      <3> QED BY <3>1, <3>2
    <2> QED BY <1>4, <2>2, <2>3, <2>4 DEF Access
  <1> QED BY <1>2, <1>3, <1>4

\* What vfnmap, vfnadd and vfndel make of the MFD that was read.
LEMMA ReadStep ==
  ASSUME TypeInv, NEW p \in Proc, ReadMap(p), ~(~st[p].fresh /\ ~mapfile)
  PROVE  LET mem == IF st[p].fresh THEN Empty ELSE map
             mfd == IF st[p].v \in DOMAIN mem THEN Found(p, mem) ELSE NotFound(p, mem)
         IN  /\ mem \in Mem
             /\ st'[p] = [mfd EXCEPT !.linked = st[p].linked \/ ~st[p].fresh]
             /\ st'[p] \in Work
             /\ st'[p].at \in {"exists", "create", "close", "commit", "enter"}
             /\ \A q \in Proc \ {p} : st'[q] = st[q]
  <1> DEFINE mem == IF st[p].fresh THEN Empty ELSE map
             mfd == IF st[p].v \in DOMAIN mem THEN Found(p, mem) ELSE NotFound(p, mem)
             link == st[p].linked \/ ~st[p].fresh
             s == [mfd EXCEPT !.linked = link]
  <1>1. mem \in Mem
    BY EmptyMem DEF TypeInv, Globals
  <1>2. st[p].at = "read"
    BY DEF ReadMap, At
  <1>3. /\ mfd \in Work /\ mfd.linked = st[p].linked
        /\ mfd.at \in {"exists", "create", "close", "commit", "enter"}
    <2> HIDE DEF mem
    <2>1. CASE st[p].v \in DOMAIN mem
      BY <1>1, <1>2, <2>1, FoundWork
    <2>2. CASE st[p].v \notin DOMAIN mem
      BY <1>1, <1>2, <2>2, NotFoundWork
    <2> QED BY <2>1, <2>2
  <1>4. st' = [st EXCEPT ![p] = s]
    <2>1. st' = [st EXCEPT ![p] = [mfd EXCEPT !.linked = @ \/ ~st[p].fresh]]
      BY DEF ReadMap
    <2> QED BY <1>3, <2>1
  <1>5. st'[p] = s /\ \A q \in Proc \ {p} : st'[q] = st[q]
    BY <1>4 DEF TypeInv
  <1>6. s \in Work /\ s.at = mfd.at
    <2>1. link \in BOOLEAN
      OBVIOUS
    <2> HIDE DEF link, mfd
    <2> QED BY <1>3, <2>1 DEF Work, State
  <1> HIDE DEF mfd, mem
  <1>7. s.at \in {"exists", "create", "close", "commit", "enter"}
    BY <1>3, <1>6
  <1> QED BY <1>1, <1>5, <1>6, <1>7 DEF mem, mfd

LEMMA OpenMapType ==
  ASSUME TypeInv, NEW p \in Proc, OpenMap(p)
  PROVE  TypeInv'
  <1>1. st[p] \in Work /\ st[p] \in State
    BY DEF TypeInv, Work
  <1>2. CASE FindMap(p)
    <2> DEFINE place == IF mapfile THEN "lock" ELSE "make"
               new == ~mapfile
               s == [st[p] EXCEPT !.at = place, !.fresh = new]
    <2>1. st' = [st EXCEPT ![p] = s] /\ st[p].at = "find"
      BY <1>2 DEF FindMap, At
    <2>2. s \in Work /\ s.linked = st[p].linked
      <3>1. place \in {"lock", "make"} /\ new \in BOOLEAN
        OBVIOUS
      <3> HIDE DEF place, new
      <3> QED BY <1>1, <2>1, <3>1, PlacesAre, ZenonT(60) DEF Work, State
    <2>3. Globals' /\ mapfile' = mapfile
      BY <1>2 DEF FindMap, TypeInv, Globals
    <2> HIDE DEF s
    <2> QED BY <2>1, <2>2, <2>3, OneStep DEF TypeInv
  <1>3. CASE MakeMap(p)
    <2> DEFINE s == [st[p] EXCEPT !.at = "init", !.linked = TRUE]
    <2>1. st' = [st EXCEPT ![p] = s] /\ st[p].at = "make"
      BY <1>3 DEF MakeMap, At
    <2>2. s \in Work
      BY <1>1, <2>1, PlacesAre DEF Work, State
    <2>3. Globals' /\ mapfile'
      BY <1>3, EmptyMem DEF MakeMap, TypeInv, Globals
    <2> HIDE DEF s
    <2> QED BY <2>1, <2>2, <2>3, OneStep
  <1>4. CASE InitLock(p)
    <2>1. Globals' /\ mapfile' = mapfile
      BY <1>4 DEF InitLock, TypeInv, Globals
    <2> QED BY <1>4, <2>1, GotoStep, PlacesAre DEF InitLock, At
  <1>5. CASE TakeLock(p)
    <2>1. Globals' /\ mapfile' = mapfile
      BY <1>5 DEF TakeLock, TypeInv, Globals
    <2> QED BY <1>5, <2>1, GotoStep, PlacesAre DEF TakeLock, At
  <1>6. CASE MakeFails(p) \/ LeakLock(p)
    BY <1>6, FailStep DEF Fails
  <1>7. CASE ReadMap(p)
    <2>1. Globals' /\ mapfile' = mapfile /\ st[p].at = "read"
      BY <1>7 DEF ReadMap, FlawedIf, TypeInv, Globals, At
    <2>2. CASE ~st[p].fresh /\ ~mapfile
      BY <1>7, <2>1, <2>2, GotoStep, PlacesAre DEF ReadMap
    <2>3. CASE ~(~st[p].fresh /\ ~mapfile)
      <3> DEFINE mem == IF st[p].fresh THEN Empty ELSE map
                 mfd == IF st[p].v \in DOMAIN mem THEN Found(p, mem) ELSE NotFound(p, mem)
                 link == mfd.linked \/ ~st[p].fresh
                 s == [mfd EXCEPT !.linked = link]
      <3>1. mem \in Mem
        BY EmptyMem DEF TypeInv, Globals
      <3>2. /\ mfd \in Work /\ mfd.linked = st[p].linked
            /\ mfd.at \in {"exists", "create", "close", "commit", "enter"}
        <4> HIDE DEF mem
        <4>1. CASE st[p].v \in DOMAIN mem
          BY <2>1, <3>1, <4>1, FoundWork
        <4>2. CASE st[p].v \notin DOMAIN mem
          BY <2>1, <3>1, <4>2, NotFoundWork
        <4> QED BY <4>1, <4>2
      <3>3. st' = [st EXCEPT ![p] = s]
        BY <1>7, <2>3 DEF ReadMap
      <3> HIDE DEF mfd, mem
      <3>4. s \in Work /\ s.linked = link
        <4>1. link \in BOOLEAN
          OBVIOUS
        <4> HIDE DEF link
        <4> QED BY <3>2, <4>1 DEF Work, State
      <3>5. s.linked => mapfile'
        BY <1>1, <2>1, <2>3, <3>2, <3>4 DEF TypeInv
      <3> HIDE DEF s
      <3> QED BY <2>1, <3>3, <3>4, <3>5, OneStep
    <2> QED BY <2>2, <2>3
  <1> QED BY <1>2, <1>3, <1>4, <1>5, <1>6, <1>7 DEF OpenMap

LEMMA EnterType ==
  ASSUME TypeInv, NEW p \in Proc, Probe(p) \/ Enter(p)
  PROVE  TypeInv'
  <1>1. /\ st[p] \in Work /\ st[p] \in State /\ st[p].at = "enter"
        /\ st[p].osfn \in OSFN /\ st[p].mem \in Mem /\ st[p].v \in Name
    BY DEF TypeInv, Work, State, Probe, Enter, At
  <1>2. Globals' /\ mapfile' = mapfile
    BY DEF Probe, Enter, EnterFails, FlawedIf, TypeInv, Globals
  <1>3. CASE EnterFails(p)
    BY <1>1, <1>2, <1>3, AbandonStep DEF EnterFails
  <1>4. CASE Goto(p, "leak")
    BY <1>1, <1>2, <1>4, GotoStep, PlacesAre
  <1>5. CASE st[p].osfn < MAX_DEGENERACY /\ st' = [st EXCEPT ![p].osfn = @ + 1]
    <2> DEFINE s == [st[p] EXCEPT !.osfn = @ + 1]
    <2>1. st' = [st EXCEPT ![p] = s]
      BY <1>5
    <2>2. st[p].osfn + 1 \in OSFN
      BY <1>1, <1>5, OSFNs DEF OSFN
    <2>3. s \in Work /\ s.linked = st[p].linked
      BY <1>1, <2>2 DEF Work, State
    <2> HIDE DEF s
    <2> QED BY <1>2, <2>1, <2>3, OneStep DEF TypeInv
  <1>6. CASE /\ Cardinality(DOMAIN st[p].mem) + 1 <= MAX_LONGFNAMES
             /\ st' = [st EXCEPT ![p].at = Added(p), ![p].added = TRUE,
                                 ![p].mem = Paired(@, st[p].v, st[p].osfn)]
    <2> DEFINE m == Paired(st[p].mem, st[p].v, st[p].osfn)
               s == [st[p] EXCEPT !.at = Added(p), !.added = TRUE, !.mem = m]
    <2>1. st' = [st EXCEPT ![p] = s]
      BY <1>6
    <2>2. m \in Mem
      BY <1>1, <1>6, PairedMem
    <2>3. Added(p) \in {"create", "move", "commit"}
      BY DEF Added
    <2> HIDE DEF m
    <2>4. s \in Work /\ s.linked = st[p].linked
      BY <1>1, <2>2, <2>3, PlacesAre, ZenonT(60) DEF Work, State
    <2> HIDE DEF s
    <2> QED BY <1>2, <2>1, <2>4, OneStep DEF TypeInv
  <1>7. Cardinality(DOMAIN st[p].mem) \in Nat
    BY <1>1, FS_CardinalityType DEF Mem
  <1>8. CASE Probe(p)
    BY <1>3, <1>4, <1>5, <1>8 DEF Probe
  <1>9. CASE Enter(p)
    <2>1. CASE Cardinality(DOMAIN st[p].mem) + 1 > MAX_LONGFNAMES
      BY <1>3, <1>9, <2>1 DEF Enter
    <2>2. CASE ~(Cardinality(DOMAIN st[p].mem) + 1 > MAX_LONGFNAMES)
      <3>1. Cardinality(DOMAIN st[p].mem) + 1 <= MAX_LONGFNAMES
        BY <1>7, <2>2, MapAssumption
      <3> QED BY <1>3, <1>6, <1>9, <2>2, <3>1 DEF Enter
    <2> QED BY <2>1, <2>2
  <1> QED BY <1>8, <1>9

LEMMA FileOpType ==
  ASSUME TypeInv, NEW p \in Proc, FileOp(p)
  PROVE  TypeInv'
  <1>1. /\ st[p] \in Work /\ st[p] \in State
        /\ st[p].osfn \in OSFN /\ st[p].old \in OSFN
    BY DEF TypeInv, Work, State
  <1>2. st[p].at \in {"exists", "unlink", "again", "create", "move", "zopen"} /\ st[p].v \in Name
    BY <1>1 DEF FileOp, Exists, Unlink, Again, Create, Move, ZOpen, At, Work
  <1>3. Globals' /\ mapfile' = mapfile
    BY <1>1, <1>2 DEF FileOp, Exists, Unlink, Again, Create, Move, ZOpen, Flawed, FlawedIf,
                      TypeInv, Globals
  <1>4. CASE Exists(p)
    BY <1>2, <1>3, <1>4, GotoStep, AbandonStep, PlacesAre DEF Exists
  <1>5. CASE Unlink(p)
    BY <1>2, <1>3, <1>5, GotoStep, AbandonStep, PlacesAre DEF Unlink
  <1>6. CASE Again(p)
    BY <1>2, <1>3, <1>6, GotoStep, PlacesAre DEF Again
  <1>7. CASE Create(p)
    BY <1>2, <1>3, <1>7, GotoStep, AbandonStep, PlacesAre DEF Create
  <1>8. CASE Move(p)
    BY <1>2, <1>3, <1>8, GotoStep, AbandonStep, PlacesAre DEF Move
  <1>9. CASE ZOpen(p)
    <2>1. st' = [st EXCEPT ![p] = Idle]
      BY <1>9 DEF ZOpen
    <2> QED BY <1>3, <2>1, IdleStep
  <1> QED BY <1>4, <1>5, <1>6, <1>7, <1>8, <1>9 DEF FileOp

LEMMA VfnCloseType ==
  ASSUME TypeInv, NEW p \in Proc, VfnClose(p)
  PROVE  TypeInv'
  <1>1. st[p] \in Work /\ st[p] \in State /\ st[p].mem \in Mem
    BY DEF TypeInv, Work, State
  <1>2. CASE Commit(p)
    <2>1. Globals' /\ mapfile' = mapfile
      BY <1>1, <1>2 DEF Commit, TypeInv, Globals
    <2> QED BY <1>2, <2>1, GotoStep, PlacesAre DEF Commit, At
  <1>3. CASE Rollback(p)
    <2>1. Globals' /\ mapfile' = mapfile
      BY <1>3 DEF Rollback, Flawed, FlawedIf, TypeInv, Globals
    <2> QED BY <1>3, <2>1, GotoStep, PlacesAre DEF Rollback, At
  <1>4. CASE Close(p)
    <2>1. Globals' /\ mapfile' = mapfile
      BY <1>4 DEF Close, TypeInv, Globals
    <2> QED BY <1>4, <2>1, GotoStep, CloseStep, PlacesAre DEF Close, At
  <1>5. CASE RemoveMap(p)
    <2>1. Globals'
      BY <1>5, EmptyMem DEF RemoveMap, FlawedIf, TypeInv, Globals
    <2>2. ASSUME NEW q \in Proc
          PROVE  st'[q] \in Work /\ ~st'[q].linked
      <3>1. st[q] \in Work /\ st[q] \in State /\ st[p].at = "rmmap"
        BY <1>5 DEF TypeInv, Work, RemoveMap, At
      <3>2. CASE q = p
        <4>1. st'[q] = [st[q] EXCEPT !.linked = FALSE, !.at = "rmlock"]
          BY <1>5, <3>2 DEF RemoveMap
        <4> QED BY <3>1, <3>2, <4>1, PlacesAre, ZenonT(60) DEF Work, State
      <3>3. CASE q # p
        <4>1. st'[q] = [st[q] EXCEPT !.linked = FALSE, !.at = @]
          BY <1>5, <3>3 DEF RemoveMap
        <4> QED BY <3>1, <4>1, ZenonT(60) DEF Work, State
      <3> QED BY <3>2, <3>3
    <2>3. st' = [q \in Proc |-> st'[q]]
      BY <1>5 DEF RemoveMap
    <2> QED BY <2>1, <2>2, <2>3 DEF TypeInv
  <1>6. CASE RemoveLock(p)
    <2>1. Globals' /\ mapfile' = mapfile
      BY <1>6 DEF RemoveLock, TypeInv, Globals
    <2> QED BY <1>6, <2>1, GotoStep, PlacesAre DEF RemoveLock, At
  <1>7. CASE Leave(p)
    <2>1. Globals' /\ mapfile' = mapfile
      BY <1>7 DEF Leave, TypeInv, Globals
    <2>2. st' = [st EXCEPT ![p] = AfterClose(p)] /\ st[p].at = "leave"
      BY <1>7 DEF Leave, At
    <2> QED BY <2>1, <2>2, CloseStep
  <1>8. CASE WriteFails(p) \/ CloseFails(p)
    BY <1>8, FailStep DEF Fails
  <1> QED BY <1>2, <1>3, <1>4, <1>5, <1>6, <1>7, <1>8 DEF VfnClose

LEMMA NextType == TypeInv /\ [Next]_vars => TypeInv'
  <1> SUFFICES ASSUME TypeInv, [Next]_vars
               PROVE  TypeInv'
    OBVIOUS
  <1>1. ASSUME NEW p \in Proc, BreakLock(p)
        PROVE  TypeInv'
    BY <1>1 DEF BreakLock, TypeInv, Globals
  <1>2. ASSUME NEW p \in Proc, Die(p)
        PROVE  TypeInv'
    <2>1. Globals' /\ mapfile' = mapfile
      BY <1>2 DEF Die, Flawed, FlawedIf, TypeInv, Globals
    <2> QED BY <1>2, <2>1, GotoStep, PlacesAre DEF Die
  <1>3. CASE UNCHANGED vars
    BY <1>3 DEF vars, TypeInv, Globals
  <1> QED BY <1>1, <1>2, <1>3, OpenType, OpenMapType, EnterType, FileOpType, VfnCloseType
      DEF Next

\* However the procedures interleave, fail and die: the mapping file and every
\* MFD hold each VFN once, no more than MAX_LONGFNAMES of them, and OSFNs of the
\* series only (vfn_enter, vfnadd, vfndel).
THEOREM TypeCorrect == Spec => []TypeOK
  <1>1. TypeInv => TypeOK
    BY DEF TypeInv, Globals, TypeOK, Work, State, Mem
  <1> QED BY <1>1, InitType, NextType, PTL DEF Spec

-----------------------------------------------------------------------------
(* The lock.                                                               *)

LEMMA LockedPlaces ==
  /\ {"read", "enter", "exists", "unlink", "again", "create", "move", "commit",
      "close", "rmmap", "rmlock", "leave", "leak"} = Locked
  /\ Locked \cap {"idle", "look", "access", "find", "make", "init", "lock",
                  "raised", "zopen", "dead"} = {}
  BY DEF Locked

\* The holders after a step of one process.
LEMMA HoldersStep ==
  ASSUME TypeInv, NEW p \in Proc, \A q \in Proc \ {p} : st'[q].at = st[q].at
  PROVE  /\ st'[p].at \in Locked => Holders' = Holders \cup {p}
         /\ st'[p].at \notin Locked => Holders' = Holders \ {p}
         /\ p \in Holders <=> st[p].at \in Locked
         /\ Holders \subseteq Proc
  BY DEF Holders, At

\* A step that keeps the lock where it is.
LEMMA KeepsLock ==
  ASSUME TypeInv, NEW p \in Proc, \A q \in Proc \ {p} : st'[q].at = st[q].at,
         st[p].at \in Locked <=> st'[p].at \in Locked,
         UNCHANGED <<free, broken>>
  PROVE  UNCHANGED Lock!avars
  <1>1. Holders' = Holders
    BY HoldersStep, ZenonT(60)
  <1> QED BY <1>1 DEF Lock!avars

\* A step in which a holder gives the lock back or gives it up.
LEMMA LeavesLock ==
  ASSUME TypeInv, NEW p \in Proc, \A q \in Proc \ {p} : st'[q].at = st[q].at,
         st[p].at \in Locked, st'[p].at \notin Locked,
         free' = (free \/ owner = p), broken' = broken
  PROVE  Lock!ANext
  <1>1. Holders' = Holders \ {p} /\ p \in Holders
    BY HoldersStep
  <1>2. CASE owner = p
    BY <1>1, <1>2 DEF Lock!ANext, Lock!Release
  <1>3. CASE owner # p
    BY <1>1, <1>3 DEF Lock!ANext, Lock!Abandon, TypeInv, Globals
  <1> QED BY <1>2, <1>3

LEMMA AbandonsLock ==
  ASSUME TypeInv, NEW p \in Proc, \A q \in Proc \ {p} : st'[q].at = st[q].at,
         st'[p].at \notin Locked, UNCHANGED <<free, broken>>
  PROVE  [Lock!ANext]_(Lock!avars)
  <1>1. CASE st[p].at \in Locked
    BY <1>1, HoldersStep DEF Lock!ANext, Lock!Abandon
  <1>2. CASE st[p].at \notin Locked
    BY <1>2, KeepsLock
  <1> QED BY <1>1, <1>2

\* Where a process goes on.
LEMMA GoesTo ==
  ASSUME TypeInv, NEW p \in Proc
  PROVE  /\ \A place : Goto(p, place) => /\ st'[p].at = place
                                         /\ \A q \in Proc \ {p} : st'[q] = st[q]
         /\ \A how : Abandon(p, how) => /\ st'[p].at = "close"
                                        /\ \A q \in Proc \ {p} : st'[q] = st[q]
         /\ \A s : st' = [st EXCEPT ![p] = s] => /\ st'[p] = s
                                                 /\ \A q \in Proc \ {p} : st'[q] = st[q]
  <1>1. st \in [Proc -> Work] /\ st[p] \in State
    BY DEF TypeInv, Work
  <1> QED BY <1>1 DEF Goto, Abandon, State

\* The first steps of the procedures are made without the lock.
LEMMA OpenGoes ==
  ASSUME TypeInv, NEW p \in Proc, Start(p) \/ Look(p) \/ Access(p)
  PROVE  /\ st[p].at \in {"idle", "look", "access"}
         /\ st'[p].at \in {"look", "find", "access", "idle"}
         /\ \A q \in Proc \ {p} : st'[q] = st[q]
         /\ UNCHANGED <<free, broken, map>>
  <1>1. st \in [Proc -> Work] /\ st[p] \in State
    BY DEF TypeInv, Work
  <1>2. st[p].at \in {"idle", "look", "access"} /\ UNCHANGED <<free, broken, map>>
    BY DEF Start, Look, Access, At
  <1>3. st'[p].at \in {"look", "find", "access", "idle"} /\ \A q \in Proc \ {p} : st'[q] = st[q]
    <2>1. CASE Start(p)
      BY <1>1, <2>1, ZenonT(60) DEF Start, Idle
    <2>2. CASE Look(p)
      BY <1>1, <2>2 DEF Look, Goto, State
    <2>3. CASE Access(p)
      <3>1. Undelete(p).at = "find" /\ Idle.at = "idle"
        BY DEF Undelete, Idle
      <3>2. CASE Goto(p, "find")
        BY <3>2, GoesTo
      <3>3. CASE st' = [st EXCEPT ![p].at = "find", ![p].op = "delete", ![p].after = st[p].op]
        BY <1>1, <3>3 DEF State
      <3>4. CASE st' = [st EXCEPT ![p] = IF st[p].op = "rename2" THEN Undelete(p) ELSE Idle]
        BY <1>1, <3>1, <3>4
      <3> QED BY <2>3, <3>2, <3>3, <3>4 DEF Access
    <2> QED BY <2>1, <2>2, <2>3
  <1> QED BY <1>2, <1>3

LEMMA OpenLock ==
  ASSUME TypeInv, NEW p \in Proc, Start(p) \/ Look(p) \/ Access(p)
  PROVE  UNCHANGED Lock!avars
  BY OpenGoes, LockedPlaces, KeepsLock

LEMMA FailLock ==
  ASSUME TypeInv, NEW p \in Proc, Fails(p)
  PROVE  [Lock!ANext]_(Lock!avars)
  BY FailStep, LockedPlaces, AbandonsLock

LEMMA OpenMapLock ==
  ASSUME TypeInv, NEW p \in Proc, OpenMap(p)
  PROVE  [Lock!ANext]_(Lock!avars)
  <1>0. st \in [Proc -> Work] /\ st[p] \in State
    BY DEF TypeInv, Work
  <1>1. CASE FindMap(p) \/ MakeMap(p)
    <2>1. /\ st[p].at \in {"find", "make"} /\ st'[p].at \in {"lock", "make", "init"}
          /\ \A q \in Proc \ {p} : st'[q] = st[q]
          /\ UNCHANGED <<free, broken>>
      BY <1>0, <1>1 DEF FindMap, MakeMap, At, State
    <2> QED BY <2>1, LockedPlaces, KeepsLock
  <1>2. CASE InitLock(p)
    <2>1. /\ st[p].at = "init" /\ st'[p].at \in {"lock", "raised"}
          /\ \A q \in Proc \ {p} : st'[q] = st[q]
      BY <1>2, GoesTo DEF InitLock, At
    <2>2. Holders' = Holders
      <3>1. st[p].at \notin Locked /\ st'[p].at \notin Locked
        BY <2>1, LockedPlaces
      <3> QED BY <2>1, <3>1, HoldersStep
    <2>3. CASE mapfile /\ Holders = {}
      BY <1>2, <2>2, <2>3 DEF InitLock, Lock!ANext, Lock!Install, TypeInv, Globals
    <2>4. CASE mapfile /\ Holders # {}
      BY <1>2, <2>2, <2>4 DEF InitLock, Lock!ANext, Lock!Break
    <2>5. CASE ~mapfile
      BY <1>2, <2>2, <2>5 DEF InitLock, Lock!avars
    <2> QED BY <2>3, <2>4, <2>5
  <1>3. CASE TakeLock(p)
    <2>1. /\ st'[p].at \in {"read", "leak"} /\ \A q \in Proc \ {p} : st'[q] = st[q]
      BY <1>3, GoesTo DEF TakeLock
    <2>2. Holders' = Holders \cup {p}
      BY <2>1, LockedPlaces, HoldersStep
    <2> QED BY <1>3, <2>2 DEF TakeLock, Lock!ANext, Lock!Acquire
  <1>4. CASE MakeFails(p) \/ LeakLock(p)
    BY <1>4, FailLock DEF Fails
  <1>5. CASE ReadMap(p)
    <2>1. /\ st[p].at = "read" /\ UNCHANGED <<free, broken>>
      BY <1>5 DEF ReadMap, At
    <2>2. CASE ~st[p].fresh /\ ~mapfile
      <3>1. st'[p].at = "leak" /\ \A q \in Proc \ {p} : st'[q] = st[q]
        BY <1>5, <2>2, GoesTo DEF ReadMap
      <3> QED BY <2>1, <3>1, LockedPlaces, KeepsLock
    <2>3. CASE ~(~st[p].fresh /\ ~mapfile)
      <3>1. /\ st'[p].at \in {"exists", "create", "close", "commit", "enter"}
            /\ \A q \in Proc \ {p} : st'[q] = st[q]
        BY <1>5, <2>1, <2>3, ReadStep
      <3> QED BY <2>1, <3>1, LockedPlaces, KeepsLock
    <2> QED BY <2>2, <2>3
  <1> QED BY <1>1, <1>2, <1>3, <1>4, <1>5 DEF OpenMap

LEMMA InsideLock ==
  ASSUME TypeInv, NEW p \in Proc, Probe(p) \/ Enter(p) \/ (FileOp(p) /\ ~ZOpen(p))
  PROVE  UNCHANGED Lock!avars
  <1>1. st[p].at \in Locked /\ UNCHANGED <<free, broken>>
    BY LockedPlaces DEF Probe, Enter, FileOp, Exists, Unlink, Again, Create, Move, At
  <1>2. st'[p].at \in Locked /\ \A q \in Proc \ {p} : st'[q] = st[q]
    <2>1. CASE Probe(p)
      <3>1. st \in [Proc -> Work] /\ st[p] \in State /\ st[p].at = "enter"
        BY <2>1 DEF TypeInv, Work, Probe, At
      <3>2. CASE st' = [st EXCEPT ![p].osfn = @ + 1]
        BY <3>1, <3>2, LockedPlaces DEF State
      <3> QED BY <2>1, <3>2, GoesTo, LockedPlaces DEF Probe, EnterFails
    <2>2. CASE Enter(p)
      <3>1. st \in [Proc -> Work] /\ st[p] \in State
        BY DEF TypeInv, Work
      <3>2. ASSUME NEW m, st' = [st EXCEPT ![p].at = Added(p), ![p].added = TRUE, ![p].mem = m]
            PROVE  st'[p].at \in Locked /\ \A q \in Proc \ {p} : st'[q] = st[q]
        <4>1. Added(p) \in Locked
          BY LockedPlaces DEF Added
        <4>2. st'[p].at = Added(p) /\ \A q \in Proc \ {p} : st'[q] = st[q]
          BY <3>1, <3>2 DEF State
        <4> QED BY <4>1, <4>2
      <3> QED BY <2>2, <3>2, GoesTo, LockedPlaces DEF Enter, EnterFails
    <2>3. CASE Exists(p) \/ Again(p)
      BY <2>3, GoesTo, LockedPlaces DEF Exists, Again
    <2>4. CASE Unlink(p) \/ Create(p) \/ Move(p)
      BY <2>4, GoesTo, LockedPlaces DEF Unlink, Create, Move
    <2> QED BY <2>1, <2>2, <2>3, <2>4 DEF FileOp
  <1> QED BY <1>1, <1>2, KeepsLock

LEMMA VfnCloseLock ==
  ASSUME TypeInv, NEW p \in Proc, VfnClose(p)
  PROVE  [Lock!ANext]_(Lock!avars)
  <1>1. CASE Commit(p)
    <2>1. /\ st[p].at = "commit" /\ st'[p].at = "close" /\ UNCHANGED <<free, broken>>
          /\ \A q \in Proc \ {p} : st'[q] = st[q]
      BY <1>1, GoesTo DEF Commit, At
    <2> QED BY <2>1, LockedPlaces, KeepsLock
  <1>2. CASE Rollback(p)
    <2>1. /\ st[p].at = "commit" /\ st'[p].at = "dead" /\ broken' = broken
          /\ free' = (free \/ owner = p) /\ \A q \in Proc \ {p} : st'[q] = st[q]
      BY <1>2, GoesTo DEF Rollback, At
    <2> QED BY <2>1, LockedPlaces, LeavesLock
  <1>3. CASE Close(p)
    <2>1. st[p].at = "close" /\ broken' = broken
      BY <1>3 DEF Close, At
    <2>2. CASE st[p].mem = Empty
      <3>1. st'[p].at = "rmmap" /\ free' = free /\ \A q \in Proc \ {p} : st'[q] = st[q]
        BY <1>3, <2>2, GoesTo DEF Close
      <3> QED BY <2>1, <3>1, LockedPlaces, KeepsLock
    <2>3. CASE st[p].mem # Empty
      <3>1. st'[p] = AfterClose(p) /\ \A q \in Proc \ {p} : st'[q] = st[q]
        BY <1>3, <2>3, GoesTo DEF Close
      <3>2. st'[p].at \notin Locked
        BY <2>1, <3>1, AfterCloseWork, LockedPlaces
      <3> QED BY <1>3, <2>1, <2>3, <3>1, <3>2, LockedPlaces, LeavesLock DEF Close
    <2> QED BY <2>2, <2>3
  <1>4. CASE RemoveMap(p)
    <2>1. st[p].at = "rmmap" /\ UNCHANGED <<free, broken>>
      BY <1>4 DEF RemoveMap, At
    <2>2. st'[p].at = "rmlock" /\ \A q \in Proc \ {p} : st'[q].at = st[q].at
      <3>1. \A q \in Proc : st[q] \in State
        BY DEF TypeInv, Work
      <3> QED BY <1>4, <3>1 DEF RemoveMap, State
    <2> QED BY <2>1, <2>2, LockedPlaces, KeepsLock
  <1>5. CASE RemoveLock(p)
    <2>1. /\ st[p].at = "rmlock" /\ st'[p].at = "leave"
          /\ \A q \in Proc \ {p} : st'[q] = st[q]
      BY <1>5, GoesTo DEF RemoveLock, At
    <2>2. Holders' = Holders /\ p \in Holders
      <3>1. st[p].at \in Locked /\ st'[p].at \in Locked
        BY <2>1, LockedPlaces
      <3> QED BY <2>1, <3>1, HoldersStep
    <2> QED BY <1>5, <2>2 DEF RemoveLock, Lock!ANext, Lock!Withdraw
  <1>6. CASE Leave(p)
    <2>1. st[p].at = "leave" /\ st'[p] = AfterClose(p) /\ UNCHANGED <<free, broken>>
          /\ \A q \in Proc \ {p} : st'[q] = st[q]
      BY <1>6, GoesTo DEF Leave, At
    <2>2. st'[p].at \notin Locked
      BY <2>1, AfterCloseWork, LockedPlaces
    <2> QED BY <2>1, <2>2, AbandonsLock
  <1>7. CASE WriteFails(p) \/ CloseFails(p)
    BY <1>7, FailLock DEF Fails
  <1> QED BY <1>1, <1>2, <1>3, <1>4, <1>5, <1>6, <1>7 DEF VfnClose

LEMMA LockStep == TypeInv /\ [Next]_vars => [Lock!ANext]_(Lock!avars)
  <1> SUFFICES ASSUME TypeInv, [Next]_vars
               PROVE  [Lock!ANext]_(Lock!avars)
    OBVIOUS
  <1>1. ASSUME NEW p \in Proc, BreakLock(p)
        PROVE  [Lock!ANext]_(Lock!avars)
    BY <1>1 DEF BreakLock, Holders, At, Lock!ANext, Lock!Break
  <1>2. ASSUME NEW p \in Proc, Die(p) \/ ZOpen(p)
        PROVE  [Lock!ANext]_(Lock!avars)
    <2>1. /\ st'[p].at \in {"dead", "idle"} /\ UNCHANGED <<free, broken>>
          /\ \A q \in Proc \ {p} : st'[q] = st[q]
      <3>1. CASE Die(p)
        BY <3>1, GoesTo DEF Die
      <3>2. CASE ZOpen(p)
        <4>1. st' = [st EXCEPT ![p] = Idle] /\ UNCHANGED <<free, broken>>
          BY <3>2 DEF ZOpen
        <4> QED BY <4>1, GoesTo, IdleWork
      <3> QED BY <1>2, <3>1, <3>2
    <2> QED BY <2>1, LockedPlaces, AbandonsLock
  <1>3. CASE UNCHANGED vars
    BY <1>3 DEF vars, Holders, At, Lock!avars
  <1> QED BY <1>1, <1>2, <1>3, OpenLock, OpenMapLock, InsideLock, VfnCloseLock DEF Next

\* vfnopen, vfnclose and their error exits use the lock as osfn_lock promises
\* it, so that what is proved of the advisory lock holds of the database.
THEOREM Protocol == Spec => LockProtocol
  <1>1. Init => Lock!AInit
    <2> SUFFICES ASSUME Init
                 PROVE  Lock!AInit
      OBVIOUS
    <2>1. \A p \in Proc : ~(st[p].at \in Locked)
      BY LockedPlaces, IdleWork DEF Init
    <2> QED BY <2>1 DEF Init, Lock!AInit, Holders, At
  <1> QED BY <1>1, InitType, NextType, LockStep, PTL DEF Spec, LockProtocol, Lock!ASpec

-----------------------------------------------------------------------------
(* Updates.                                                                *)

\* The advisory lock is exclusive until it is broken: its invariant is inductive.
LEMMA AdvisoryExclusive == Lock!ASpec => []Lock!Exclusion
  <1>1. Lock!AInit => Lock!Exclusion
    BY DEF Lock!AInit, Lock!Exclusion
  <1>2. ASSUME Lock!Exclusion, [Lock!ANext]_(Lock!avars)
        PROVE  Lock!Exclusion'
    <2>1. CASE broken'
      BY <2>1 DEF Lock!Exclusion
    <2>2. ASSUME NEW p \in Proc, Lock!Acquire(p)
          PROVE  Lock!Exclusion'
      BY <1>2, <2>2 DEF Lock!Exclusion, Lock!Acquire
    <2>3. ASSUME NEW p \in Proc, Lock!Release(p) \/ Lock!Abandon(p)
          PROVE  Lock!Exclusion'
      BY <1>2, <2>3 DEF Lock!Exclusion, Lock!Release, Lock!Abandon
    <2>4. ASSUME NEW p \in Proc, Lock!Withdraw(p)
          PROVE  Lock!Exclusion'
      BY <1>2, <2>4 DEF Lock!Exclusion, Lock!Withdraw
    <2>5. CASE Lock!Install
      BY <1>2, <2>5 DEF Lock!Exclusion, Lock!Install
    <2>6. CASE Lock!Break
      BY <2>1, <2>6 DEF Lock!Break
    <2>7. CASE UNCHANGED Lock!avars
      BY <1>2, <2>7 DEF Lock!Exclusion, Lock!avars
    <2> QED BY <1>2, <2>2, <2>3, <2>4, <2>5, <2>6, <2>7 DEF Lock!ANext
  <1> QED BY <1>1, <1>2, PTL DEF Lock!ASpec

LEMMA Exclusive == Spec => []Lock!Exclusion
  BY Protocol, AdvisoryExclusive, PTL DEF LockProtocol

\* Until it closes the VFN, a process that has read the mapping file has in its
\* MFD what is in the file, but for the pair of its own VFN.
HasRead == {"enter", "exists", "unlink", "again", "create", "move", "commit", "close", "rmmap"}

Same(m, n, u) == /\ u \in DOMAIN m <=> u \in DOMAIN n
                 /\ u \in DOMAIN m => m[u] = n[u]

Agrees(p) == \A u \in Name \ {st[p].v} : Same(st[p].mem, map, u)

PairInv ==
    /\ ~broken /\ harm # "replaced" => \A p \in Proc : st[p].at \in HasRead => Agrees(p)
    /\ \A p \in Proc : st[p].at = "rmmap" => st[p].mem = Empty

LEMMA HasReadLocked == HasRead \subseteq Locked
  BY DEF HasRead, Locked

\* What has happened to the database is not forgotten.
LEMMA HarmStays ==
  ASSUME TypeInv, [Next]_vars
  PROVE  /\ broken => broken'
         /\ harm = "replaced" => harm' = "replaced"
  <1>1. ASSUME NEW p \in Proc, Start(p) \/ Look(p) \/ Access(p)
        PROVE  UNCHANGED <<broken, harm>>
    BY <1>1 DEF Start, Look, Access
  <1>2. ASSUME NEW p \in Proc, OpenMap(p)
        PROVE  (broken => broken') /\ (harm = "replaced" => harm' = "replaced")
    <2>1. CASE InitLock(p)
      BY <2>1 DEF InitLock
    <2>2. CASE FindMap(p) \/ MakeMap(p) \/ MakeFails(p) \/ TakeLock(p) \/ LeakLock(p)
      BY <2>2 DEF FindMap, MakeMap, MakeFails, TakeLock, LeakLock, Flawed, FlawedIf
    <2>3. CASE ReadMap(p)
      BY <2>3 DEF ReadMap, FlawedIf
    <2> QED BY <1>2, <2>1, <2>2, <2>3 DEF OpenMap
  <1>3. ASSUME NEW p \in Proc, Probe(p) \/ Enter(p)
        PROVE  broken' = broken /\ (harm = "replaced" => harm' = "replaced")
    BY <1>3 DEF Probe, Enter, EnterFails, FlawedIf
  <1>4. ASSUME NEW p \in Proc, FileOp(p)
        PROVE  broken' = broken /\ (harm = "replaced" => harm' = "replaced")
    BY <1>4 DEF FileOp, Exists, Unlink, Again, Create, Move, ZOpen, Flawed, FlawedIf
  <1>5. ASSUME NEW p \in Proc, VfnClose(p)
        PROVE  broken' = broken /\ (harm = "replaced" => harm' = "replaced")
    BY <1>5 DEF VfnClose, Commit, WriteFails, Rollback, Close, CloseFails, RemoveMap, RemoveLock,
                Leave, Flawed, FlawedIf
  <1>6. ASSUME NEW p \in Proc, BreakLock(p) \/ Die(p)
        PROVE  (broken => broken') /\ (harm = "replaced" => harm' = "replaced")
    BY <1>6 DEF BreakLock, Die, Flawed, FlawedIf
  <1> QED BY <1>1, <1>2, <1>3, <1>4, <1>5, <1>6 DEF Next, vars

\* A step that leaves the mapping file alone, and what the process has read of it.
LEMMA KeepsPairs ==
  ASSUME TypeInv, PairInv, [Next]_vars, NEW p \in Proc,
         \A q \in Proc \ {p} : st'[q] = st[q], map' = map,
         \/ st'[p].at \notin HasRead
         \/ /\ st[p].at \in HasRead \ {"rmmap"} /\ st'[p].at # "rmmap"
            /\ st'[p].mem = st[p].mem /\ st'[p].v = st[p].v
  PROVE  PairInv'
  <1>1. \A q \in Proc : st'[q].at = "rmmap" => st'[q].mem = Empty
    BY DEF PairInv, HasRead
  <1>2. ASSUME ~broken', harm' # "replaced", NEW q \in Proc, st'[q].at \in HasRead
        PROVE  Agrees(q)'
    <2>1. ~broken /\ harm # "replaced"
      BY <1>2, HarmStays
    <2>2. st[q].at \in HasRead /\ st'[q].mem = st[q].mem /\ st'[q].v = st[q].v
      BY <1>2
    <2> QED BY <2>1, <2>2 DEF PairInv, Agrees
  <1> QED BY <1>1, <1>2 DEF PairInv

LEMMA ReadPairs ==
  ASSUME TypeInv, PairInv, [Next]_vars, NEW p \in Proc, ReadMap(p),
         ~(~st[p].fresh /\ ~mapfile)
  PROVE  PairInv'
  <1> DEFINE mem == IF st[p].fresh THEN Empty ELSE map
             mfd == IF st[p].v \in DOMAIN mem THEN Found(p, mem) ELSE NotFound(p, mem)
             link == st[p].linked \/ ~st[p].fresh
  <1>1. /\ mem \in Mem /\ map' = map
        /\ st'[p] = [mfd EXCEPT !.linked = link]
        /\ st'[p].at \in {"exists", "create", "close", "commit", "enter"}
        /\ \A q \in Proc \ {p} : st'[q] = st[q]
    BY ReadStep DEF ReadMap
  <1>2. st[p] \in State
    BY DEF TypeInv, Work
  <1>3. ASSUME harm' # "replaced"
        PROVE  mem = map
    BY <1>3 DEF ReadMap
  <1> HIDE DEF mem, link
  <1>4. /\ mfd.v = st[p].v
        /\ mfd.mem = IF Deleting(p) /\ st[p].v \in DOMAIN mem THEN Removed(mem, st[p].v) ELSE mem
    BY <1>2 DEF Found, NotFound, State
  <1>5. mfd \in State
    <2>1. st[p].at # "idle"
      BY DEF ReadMap, At
    <2> QED BY <1>1, <2>1, FoundWork, NotFoundWork DEF Work
  <1> HIDE DEF mfd
  <1>6. st'[p].v = st[p].v /\ st'[p].mem = mfd.mem
    BY <1>1, <1>4, <1>5 DEF State
  <1>7. \A u \in Name \ {st[p].v} : Same(mfd.mem, mem, u)
    <2>1. CASE mfd.mem = mem
      BY <2>1 DEF Same
    <2>2. CASE mfd.mem = Removed(mem, st[p].v)
      <3> DEFINE kept == Removed(mem, st[p].v)
      <3>1. /\ DOMAIN kept = DOMAIN mem \ {st[p].v}
            /\ \A u \in DOMAIN mem \ {st[p].v} : kept[u] = mem[u]
        <4>1. mem \in Mem
          BY <1>1
        <4> QED BY <4>1, RemovedMem
      <3>2. mfd.mem = kept
        BY <2>2
      <3> HIDE DEF kept
      <3> QED BY <3>1, <3>2 DEF Same
    <2> QED BY <1>4, <2>1, <2>2
  <1>8. ASSUME ~broken', harm' # "replaced", NEW q \in Proc, st'[q].at \in HasRead
        PROVE  Agrees(q)'
    <2>1. CASE q = p
      BY <1>1, <1>3, <1>6, <1>7, <1>8, <2>1 DEF Agrees
    <2>2. CASE q # p
      BY <1>1, <1>8, <2>2, HarmStays DEF PairInv, Agrees
    <2> QED BY <2>1, <2>2
  <1>9. \A q \in Proc : st'[q].at = "rmmap" => st'[q].mem = Empty
    BY <1>1 DEF PairInv
  <1> QED BY <1>8, <1>9 DEF PairInv

\* A process that has the lock writes or deletes the mapping file.
LEMMA UpdatePairs ==
  ASSUME TypeInv, PairInv, Lock!Exclusion, [Next]_vars, NEW p \in Proc,
         Commit(p) \/ RemoveMap(p)
  PROVE  /\ PairInv'
         /\ ~broken' /\ harm' # "replaced" =>
               \A u \in Name \ {st[p].v} : Same(map', map, u)
  <1>1. /\ st[p].at \in {"commit", "rmmap"} /\ st'[p].at \in {"close", "rmlock"}
        /\ st'[p].at = "close" => Commit(p) /\ st'[p].mem = st[p].mem /\ st'[p].v = st[p].v
        /\ \A q \in Proc \ {p} : /\ st'[q].at = st[q].at /\ st'[q].mem = st[q].mem
                                 /\ st'[q].v = st[q].v
    <2>1. st \in [Proc -> Work] /\ \A q \in Proc : st[q] \in State
      BY DEF TypeInv, Work
    <2>2. CASE Commit(p)
      BY <2>1, <2>2 DEF Commit, At, Goto, State
    <2>3. CASE RemoveMap(p)
      <3>1. ASSUME NEW q \in Proc
            PROVE  st'[q] = [st[q] EXCEPT !.linked = FALSE, !.at = IF q = p THEN "rmlock" ELSE @]
        BY <2>3 DEF RemoveMap
      <3>2. st'[p].at = "rmlock" /\ st[p].at = "rmmap"
        BY <2>1, <2>3, <3>1 DEF State, RemoveMap, At
      <3>3. ASSUME NEW q \in Proc \ {p}
            PROVE  st'[q].at = st[q].at /\ st'[q].mem = st[q].mem /\ st'[q].v = st[q].v
        <4>1. st'[q] = [st[q] EXCEPT !.linked = FALSE, !.at = @]
          BY <3>1
        <4> QED BY <2>1, <4>1 DEF State
      <3> QED BY <3>2, <3>3
    <2> QED BY <2>2, <2>3
  <1>2. \A q \in Proc : st'[q].at = "rmmap" => st'[q].mem = Empty
    BY <1>1 DEF PairInv
  <1>3. ASSUME ~broken', harm' # "replaced"
        PROVE  /\ \A u \in Name \ {st[p].v} : Same(map', map, u)
               /\ \A q \in Proc : st'[q].at \in HasRead => Agrees(q)'
    <2>1. ~broken /\ harm # "replaced"
      BY <1>3, HarmStays
    <2>2. Agrees(p)
      BY <1>1, <2>1 DEF PairInv, HasRead
    <2>3. \A u \in Name \ {st[p].v} : Same(map', map, u)
      <3>1. CASE Commit(p)
        BY <1>3, <2>2, <3>1 DEF Commit, Agrees, Same
      <3>2. CASE RemoveMap(p)
        BY <1>1, <2>2, <3>2, ZenonT(60) DEF RemoveMap, At, PairInv, Agrees, Same
      <3> QED BY <3>1, <3>2
    <2>4. ASSUME NEW q \in Proc, q # p, st'[q].at \in HasRead
          PROVE  FALSE
      <3>1. p \in Holders /\ q \in Holders
        BY <1>1, <2>4, HasReadLocked, LockedPlaces DEF Holders, At
      <3> QED BY <2>1, <2>4, <3>1 DEF Lock!Exclusion
    <2>5. st'[p].at \in HasRead => Agrees(p)'
      <3> SUFFICES ASSUME st'[p].at \in HasRead
                   PROVE  Agrees(p)'
        OBVIOUS
      <3>1. Commit(p) /\ st'[p].mem = st[p].mem /\ st'[p].v = st[p].v
        BY <1>1 DEF HasRead
      <3>2. CASE map' = st[p].mem
        BY <3>1, <3>2 DEF Agrees, Same
      <3>3. CASE map' = map
        BY <2>2, <3>1, <3>3 DEF Agrees
      <3> QED BY <3>1, <3>2, <3>3 DEF Commit
    <2> QED BY <2>3, <2>4, <2>5
  <1> QED BY <1>2, <1>3 DEF PairInv

LEMMA NextPairs ==
  ASSUME TypeInv, PairInv, Lock!Exclusion, [Next]_vars
  PROVE  PairInv'
  <1>0. ASSUME NEW p \in Proc, Fails(p)
        PROVE  PairInv'
    <2>1. /\ st'[p].at \in {"find", "idle"} /\ map' = map
          /\ \A q \in Proc \ {p} : st'[q] = st[q]
      BY <1>0, FailStep
    <2> QED BY <2>1, KeepsPairs DEF HasRead
  <1>1. ASSUME NEW p \in Proc, Start(p) \/ Look(p) \/ Access(p)
        PROVE  PairInv'
    <2>1. /\ st'[p].at \in {"look", "find", "access", "idle"} /\ map' = map
          /\ \A q \in Proc \ {p} : st'[q] = st[q]
      BY <1>1, OpenGoes
    <2> QED BY <2>1, KeepsPairs DEF HasRead
  <1>2. ASSUME NEW p \in Proc, OpenMap(p)
        PROVE  PairInv'
    <2>1. CASE MakeMap(p)
      <3>1. /\ st'[p].at = "init" /\ \A q \in Proc \ {p} : st'[q] = st[q]
        BY <2>1 DEF MakeMap, TypeInv, Work, State
      <3>2. CASE mapfile
        <4>1. harm' = "replaced"
          BY <2>1, <3>2 DEF MakeMap
        <4> QED BY <3>1, <4>1 DEF PairInv
      <3>3. CASE ~mapfile
        <4>1. map' = map
          BY <2>1, <3>3 DEF MakeMap, TypeInv, Globals
        <4> QED BY <3>1, <4>1, KeepsPairs DEF HasRead
      <3> QED BY <3>2, <3>3
    <2>2. CASE FindMap(p)
      <3>1. /\ st'[p].at \in {"lock", "make"} /\ map' = map
            /\ \A q \in Proc \ {p} : st'[q] = st[q]
        BY <2>2 DEF FindMap, TypeInv, Work, State
      <3> QED BY <3>1, KeepsPairs DEF HasRead
    <2>3. CASE InitLock(p) \/ TakeLock(p)
      <3>1. /\ st'[p].at \in {"lock", "raised", "read", "leak"} /\ map' = map
            /\ \A q \in Proc \ {p} : st'[q] = st[q]
        BY <2>3, GoesTo DEF InitLock, TakeLock
      <3> QED BY <3>1, KeepsPairs DEF HasRead
    <2>4. CASE MakeFails(p) \/ LeakLock(p)
      BY <1>0, <2>4 DEF Fails
    <2>5. CASE ReadMap(p) /\ ~st[p].fresh /\ ~mapfile
      <3>1. /\ st'[p].at = "leak" /\ map' = map /\ \A q \in Proc \ {p} : st'[q] = st[q]
        BY <2>5, GoesTo DEF ReadMap
      <3> QED BY <3>1, KeepsPairs DEF HasRead
    <2>6. CASE ReadMap(p) /\ ~(~st[p].fresh /\ ~mapfile)
      BY <2>6, ReadPairs
    <2> QED BY <1>2, <2>1, <2>2, <2>3, <2>4, <2>5, <2>6 DEF OpenMap
  <1>3. ASSUME NEW p \in Proc, Probe(p)
        PROVE  PairInv'
    <2>1. /\ st[p].at = "enter" /\ st'[p].at \in {"leak", "enter", "close"}
          /\ st'[p].mem = st[p].mem /\ st'[p].v = st[p].v
          /\ map' = map /\ \A q \in Proc \ {p} : st'[q] = st[q]
      BY <1>3 DEF Probe, At, EnterFails, Abandon, Goto, TypeInv, Work, State
    <2> QED BY <2>1, KeepsPairs DEF HasRead
  <1>4. ASSUME NEW p \in Proc, Enter(p)
        PROVE  PairInv'
    <2>1. st[p].at = "enter" /\ map' = map /\ st[p] \in State /\ st \in [Proc -> Work]
      BY <1>4 DEF Enter, At, TypeInv, Work
    <2>2. CASE EnterFails(p)
      <3>1. /\ st'[p].at = "close" /\ st'[p].mem = st[p].mem /\ st'[p].v = st[p].v
            /\ \A q \in Proc \ {p} : st'[q] = st[q]
        BY <2>1, <2>2 DEF EnterFails, Abandon, State
      <3> QED BY <2>1, <3>1, KeepsPairs DEF HasRead
    <2>3. CASE st' = [st EXCEPT ![p].at = Added(p), ![p].added = TRUE,
                               ![p].mem = Paired(@, st[p].v, st[p].osfn)]
      <3> DEFINE m == Paired(st[p].mem, st[p].v, st[p].osfn)
      <3>1. \A u \in Name \ {st[p].v} : Same(m, st[p].mem, u)
        BY DEF Paired, Same
      <3>2. Added(p) \in {"create", "move", "commit"}
        BY DEF Added
      <3> HIDE DEF m
      <3>3. /\ st'[p].at = Added(p) /\ st'[p].mem = m /\ st'[p].v = st[p].v
            /\ \A q \in Proc \ {p} : st'[q] = st[q]
        BY <2>1, <2>3 DEF State, m
      <3>4. \A q \in Proc : st'[q].at = "rmmap" => st'[q].mem = Empty
        BY <3>2, <3>3 DEF PairInv
      <3>5. ASSUME ~broken', harm' # "replaced", NEW q \in Proc, st'[q].at \in HasRead
            PROVE  Agrees(q)'
        <4>1. ~broken /\ harm # "replaced"
          BY <3>5, HarmStays
        <4>2. CASE q = p
          <5>1. Agrees(p)
            BY <2>1, <4>1 DEF PairInv, HasRead
          <5> QED BY <2>1, <3>1, <3>3, <4>2, <5>1 DEF Agrees, Same
        <4>3. CASE q # p
          BY <2>1, <3>3, <3>5, <4>1, <4>3 DEF PairInv, Agrees
        <4> QED BY <4>2, <4>3
      <3> QED BY <3>4, <3>5 DEF PairInv
    <2> QED BY <1>4, <2>2, <2>3 DEF Enter
  <1>5. ASSUME NEW p \in Proc, FileOp(p)
        PROVE  PairInv'
    <2>1. st \in [Proc -> Work] /\ st[p] \in State /\ map' = map
      BY <1>5 DEF TypeInv, Work, FileOp, Exists, Unlink, Again, Create, Move, ZOpen
    <2>2. CASE ZOpen(p)
      <3>1. st' = [st EXCEPT ![p] = Idle]
        BY <2>2 DEF ZOpen
      <3>2. st'[p].at = "idle" /\ \A q \in Proc \ {p} : st'[q] = st[q]
        BY <3>1, GoesTo, IdleWork
      <3> QED BY <2>1, <3>2, KeepsPairs DEF HasRead
    <2>3. CASE ~ZOpen(p)
      <3>1. /\ st[p].at \in {"exists", "unlink", "again", "create", "move"}
            /\ st'[p].at \in {"close", "unlink", "commit", "again"}
            /\ st'[p].mem = st[p].mem /\ st'[p].v = st[p].v
            /\ \A q \in Proc \ {p} : st'[q] = st[q]
        BY <1>5, <2>1, <2>3
           DEF FileOp, Exists, Unlink, Again, Create, Move, At, Goto, Abandon, State
      <3> QED BY <2>1, <3>1, KeepsPairs DEF HasRead
    <2> QED BY <2>2, <2>3
  <1>6. ASSUME NEW p \in Proc, Commit(p) \/ RemoveMap(p)
        PROVE  PairInv'
    BY <1>6, UpdatePairs
  <1>7. ASSUME NEW p \in Proc, Close(p)
        PROVE  PairInv'
    <2>1. st[p].at = "close" /\ map' = map /\ st[p] \in State
      BY <1>7 DEF Close, At, TypeInv, Work
    <2>2. CASE st[p].mem = Empty
      <3>1. /\ st'[p].at = "rmmap" /\ st'[p].mem = Empty /\ st'[p].v = st[p].v
            /\ \A q \in Proc \ {p} : st'[q] = st[q]
        BY <1>7, <2>1, <2>2 DEF Close, Goto, TypeInv, State
      <3>2. \A q \in Proc : st'[q].at = "rmmap" => st'[q].mem = Empty
        BY <3>1 DEF PairInv
      <3>3. ASSUME ~broken', harm' # "replaced", NEW q \in Proc, st'[q].at \in HasRead
            PROVE  Agrees(q)'
        <4>1. ~broken /\ harm # "replaced"
          BY <3>3, HarmStays
        <4>2. st[q].at \in HasRead /\ st'[q].mem = st[q].mem /\ st'[q].v = st[q].v
          BY <2>1, <2>2, <3>1, <3>3 DEF HasRead
        <4> QED BY <2>1, <4>1, <4>2 DEF PairInv, Agrees
      <3> QED BY <3>2, <3>3 DEF PairInv
    <2>3. CASE st[p].mem # Empty
      <3>1. st'[p] = AfterClose(p) /\ \A q \in Proc \ {p} : st'[q] = st[q]
        BY <1>7, <2>3, GoesTo DEF Close
      <3>2. st'[p].at \in {"zopen", "find", "look", "idle"}
        BY <2>1, <3>1, AfterCloseWork
      <3> QED BY <2>1, <3>1, <3>2, KeepsPairs DEF HasRead
    <2> QED BY <2>2, <2>3
  <1>8. ASSUME NEW p \in Proc, Rollback(p) \/ RemoveLock(p) \/ Die(p)
        PROVE  PairInv'
    <2>1. /\ st'[p].at \in {"dead", "leave"} /\ map' = map
          /\ \A q \in Proc \ {p} : st'[q] = st[q]
      BY <1>8, GoesTo DEF Rollback, RemoveLock, Die
    <2> QED BY <2>1, KeepsPairs DEF HasRead
  <1>9. ASSUME NEW p \in Proc, Leave(p)
        PROVE  PairInv'
    <2>1. /\ st[p].at = "leave" /\ st'[p] = AfterClose(p) /\ map' = map
          /\ \A q \in Proc \ {p} : st'[q] = st[q]
      BY <1>9, GoesTo DEF Leave, At
    <2>2. st'[p].at \in {"zopen", "find", "look", "idle"}
      BY <2>1, AfterCloseWork
    <2> QED BY <2>1, <2>2, KeepsPairs DEF HasRead
  <1>10. ASSUME NEW p \in Proc, BreakLock(p)
         PROVE  PairInv'
    BY <1>10 DEF BreakLock, PairInv, Agrees
  <1>11. CASE UNCHANGED vars
    BY <1>11 DEF vars, PairInv, Agrees
  <1> QED BY <1>0, <1>1, <1>2, <1>3, <1>4, <1>5, <1>6, <1>7, <1>8, <1>9, <1>10, <1>11
      DEF Next, VfnClose, Fails

\* The only steps that change the mapping file are those of UpdatePairs, and
\* the one that replaces it.
LEMMA OwnPairStep ==
  ASSUME TypeInv, PairInv, Lock!Exclusion, [Next]_vars, ~broken, harm' # "replaced"
  PROVE  OwnPairOnly
  <1>1. ASSUME NEW p \in Proc, Start(p) \/ Look(p) \/ Access(p) \/ Probe(p) \/ Enter(p)
        PROVE  map' = map
    BY <1>1 DEF Start, Look, Access, Probe, Enter
  <1>2. ASSUME NEW p \in Proc, OpenMap(p)
        PROVE  map' = map
    BY <1>2 DEF OpenMap, FindMap, MakeMap, MakeFails, InitLock, TakeLock, LeakLock, ReadMap,
                TypeInv, Globals
  <1>3. ASSUME NEW p \in Proc, FileOp(p) \/ BreakLock(p) \/ Die(p)
        PROVE  map' = map
    BY <1>3 DEF FileOp, Exists, Unlink, Again, Create, Move, ZOpen, BreakLock, Die
  <1>4. ASSUME NEW p \in Proc, VfnClose(p), ~(Commit(p) \/ RemoveMap(p))
        PROVE  map' = map
    BY <1>4 DEF VfnClose, WriteFails, Rollback, Close, CloseFails, RemoveLock, Leave
  <1>5. ASSUME map' = map
        PROVE  OwnPairOnly
    BY <1>5 DEF OwnPairOnly, Entry
  <1>6. ASSUME NEW p \in Proc, Commit(p) \/ RemoveMap(p)
        PROVE  OwnPairOnly
    <2>1. broken' = broken
      BY <1>6 DEF Commit, RemoveMap
    <2>2. \A u \in Name \ {st[p].v} : Entry(u)' = Entry(u)
      <3>1. \A u \in Name \ {st[p].v} : Same(map', map, u)
        BY <1>6, <2>1, UpdatePairs
      <3> QED BY <3>1 DEF Same, Entry
    <2>3. st'[p] # st[p] /\ st[p].at \in {"commit", "rmmap"}
      <3>1. st \in [Proc -> Work] /\ st[p] \in State
        BY DEF TypeInv, Work
      <3>2. CASE Commit(p)
        BY <3>1, <3>2, GoesTo DEF Commit, At
      <3>3. CASE RemoveMap(p)
        <4>1. st'[p] = [st[p] EXCEPT !.linked = FALSE, !.at = "rmlock"] /\ st[p].at = "rmmap"
          BY <3>3 DEF RemoveMap, At
        <4>2. st'[p].at = "rmlock"
          BY <3>1, <4>1 DEF State
        <4> QED BY <4>1, <4>2
      <3> QED BY <1>6, <3>2, <3>3
    <2> QED BY <2>2, <2>3 DEF OwnPairOnly
  <1>7. CASE UNCHANGED vars
    BY <1>5, <1>7 DEF vars
  <1> QED BY <1>1, <1>2, <1>3, <1>4, <1>5, <1>6, <1>7 DEF Next, VfnClose

\* As long as the lock is not broken and no mapping file is replaced, a
\* transaction changes the pair of its own VFN and no other, whatever the others
\* add, delete or rename meanwhile (vfnopen, vfnclose).
THEOREM PairsAreOwn == Spec => OnePairChanges
  <1>1. Init => PairInv
    <2> SUFFICES ASSUME Init
                 PROVE  PairInv
      OBVIOUS
    <2>1. \A p \in Proc : st[p].at = "idle"
      BY IdleWork DEF Init
    <2> QED BY <2>1 DEF PairInv, HasRead
  <1>2. TypeInv /\ PairInv /\ Lock!Exclusion /\ [Next]_vars => PairInv'
    BY NextPairs
  <1>3. TypeInv /\ PairInv /\ Lock!Exclusion /\ [Next]_vars
        => [~broken /\ harm' # "replaced" => OwnPairOnly]_vars
    BY OwnPairStep
  <1> QED BY <1>1, <1>2, <1>3, InitType, NextType, Exclusive, PTL DEF Spec, OnePairChanges

-----------------------------------------------------------------------------
(* Files.  Between a physical file operation and the update of the mapping *)
(* file a file has no pair, or a pair no file; what the process that is to *)
(* set it right knows is written down here, place by place.                *)

Closing == {"close", "rmmap", "rmlock", "leave"}

\* frename has given the file its new name.
Moved(x) ==
    /\ x.op = "rename2"
    /\ x.at = "commit" \/ (x.at \in Closing /\ x.ok = "ok")

\* The process x is to give the file k, which is called v, a pair of its own, or that of
\* its new name.
Carries(x, k, v) ==
    \/ /\ x.op = "rename1" /\ x.ok = "ok" /\ x.at \in Closing
       /\ k = x.osfn /\ v = x.v
    \/ /\ x.op = "rename2" \/ (x.op = "delete" /\ x.after = "rename2")
       /\ ~Moved(x)
       /\ k = x.old /\ v = x.w
    \/ x.op = "rename3" /\ k = x.old /\ v = x.v
    \/ /\ x.at = "commit" /\ x.op \in {"alloc", "rename2"} /\ x.added
       /\ k = x.osfn /\ v = x.v

\* The process x is about to make the file of the pair of v, or to remove the pair.
Awaits(x, v) ==
    /\ x.v = v
    /\ \/ x.op = "open" /\ x.ok = "ok" /\ x.at \in Closing \cup {"zopen"}
       \/ x.op = "delete" /\ x.at \in {"again", "commit"}

\* A pair is added in two steps after vfn_enter has found a name for the file.
Adds(x) == x.at \in {"create", "move", "commit"} /\ x.op \notin {"delete", "rename1"}

\* A pair is removed from the MFD first, then from the mapping file.
Removes(x) ==
    x.at \in {"exists", "unlink", "again", "commit"} /\ x.op \in {"delete", "rename1"}

\* What a process in a transaction knows of the pair of its VFN, and of its file.
Knows(x) ==
    /\ x.at = "enter" => x.v \notin DOMAIN map /\ x.op \notin {"delete", "rename1"}
    /\ Removes(x) =>
          /\ x.v \in DOMAIN map /\ map[x.v] = x.osfn
          /\ x.v \notin DOMAIN x.mem
          /\ x.at \in {"again", "commit"} /\ x.op = "delete" => disk[x.osfn] = NoName
          /\ x.at = "commit" /\ x.op = "rename1" => disk[x.osfn] = x.v
    /\ Adds(x) => x.v \in DOMAIN x.mem /\ x.mem[x.v] = x.osfn
    /\ Adds(x) /\ ~x.added => x.v \in DOMAIN map /\ map[x.v] = x.osfn
    /\ Adds(x) /\ x.added =>
          /\ x.v \notin DOMAIN map /\ x.osfn \notin Range(map)
          /\ x.at # "commit" \/ x.op = "open" => disk[x.osfn] = NoName

Opening == {"look", "access", "find", "make", "init", "lock", "raised", "read"}

\* Where a process can be in each procedure.
Placed(x) ==
    /\ x.at = "idle" <=> x.op = "none"
    /\ x.at \in Opening \cup {"enter"} => ~x.added
    /\ x.ok # "ok" => x.at \in Closing
    /\ x.at \in {"look", "access"} => x.op \notin {"delete", "rename1", "rename3"}
    /\ x.at = "exists" => x.op \in {"delete", "rename1"}
    /\ x.at \in {"unlink", "again"} => x.op = "delete"
    /\ x.at = "create" => x.op = "alloc"
    /\ x.at = "move" => x.op = "rename2" /\ x.added
    /\ x.at = "commit" /\ x.op = "rename2" => x.added
    /\ x.at = "zopen" => x.op = "open"
    /\ x.op = "rename2" => x.ok # "error"
    /\ x.op = "rename3" => x.at \in Opening \cup {"enter", "leak"}
    /\ x.at # "dead"

PairsDiffer == \A u, v \in DOMAIN map : map[u] = map[v] => u = v

FilesNamed ==
    \A k \in OSFN : \/ disk[k] = NoName
                    \/ disk[k] \in DOMAIN map /\ map[disk[k]] = k
                    \/ \E p \in Proc : Carries(st[p], k, disk[k])

NamesFiled ==
    \A v \in DOMAIN map : \/ disk[map[v]] = v
                          \/ disk[map[v]] = NoName /\ \E p \in Proc : Awaits(st[p], v)

CarriedLoose ==
    \A p \in Proc, k \in OSFN, v \in Name : Carries(st[p], k, v) =>
        /\ disk[k] = v /\ k \notin Range(map)
        /\ \A q \in Proc \ {p} : ~Carries(st[q], k, v)

Files ==
    /\ PairsDiffer /\ FilesNamed /\ NamesFiled /\ CarriedLoose
    /\ \A p \in Proc : Knows(st[p]) /\ Placed(st[p])

Unharmed == ~broken /\ harm = "none"

FileInv == Unharmed => Files

\* A step of x to y that changes neither what x is to do for any file nor what
\* is known of it.
Keeps(x, y) ==
    /\ \A k \in OSFN, v \in Name : Carries(y, k, v) <=> Carries(x, k, v)
    /\ \A v \in Name : Awaits(x, v) => Awaits(y, v)
    /\ Knows(y) /\ Placed(y)

\* A step that changes neither the mapping file nor the files.
LEMMA AllKeep ==
  ASSUME TypeInv, Files, UNCHANGED <<map, disk>>,
         \A q \in Proc : Keeps(st[q], st'[q])
  PROVE  Files'
  <1>1. PairsDiffer'
    BY DEF Files, PairsDiffer
  <1>2. FilesNamed'
    <2> SUFFICES ASSUME NEW k \in OSFN, disk[k] # NoName,
                        ~(disk[k] \in DOMAIN map /\ map[disk[k]] = k)
                 PROVE  \E p \in Proc : Carries(st'[p], k, disk[k])
      BY DEF FilesNamed
    <2>1. disk[k] \in Name
      BY DEF TypeInv, Globals
    <2>2. PICK p \in Proc : Carries(st[p], k, disk[k])
      BY DEF Files, FilesNamed
    <2> QED BY <2>1, <2>2 DEF Keeps
  <1>3. NamesFiled'
    <2> SUFFICES ASSUME NEW v \in DOMAIN map, disk[map[v]] # v
                 PROVE  disk[map[v]] = NoName /\ \E p \in Proc : Awaits(st'[p], v)
      BY DEF NamesFiled
    <2>1. v \in Name
      BY MemValue DEF TypeInv, Globals
    <2>2. disk[map[v]] = NoName /\ \E p \in Proc : Awaits(st[p], v)
      BY DEF Files, NamesFiled
    <2> QED BY <2>1, <2>2 DEF Keeps
  <1>4. CarriedLoose'
    BY DEF Files, CarriedLoose, Keeps
  <1>5. \A p \in Proc : Knows(st[p])' /\ Placed(st[p])'
    BY DEF Keeps, Knows, Placed
  <1> QED BY <1>1, <1>2, <1>3, <1>4, <1>5 DEF Files

LEMMA OneKeeps ==
  ASSUME TypeInv, Files, UNCHANGED <<map, disk>>,
         NEW p \in Proc, \A q \in Proc \ {p} : st'[q] = st[q], Keeps(st[p], st'[p])
  PROVE  Files'
  <1>1. \A q \in Proc \ {p} : Keeps(st[q], st'[q])
    BY DEF Keeps, Files
  <1> QED BY <1>1, AllKeep

\* What a process owes to a file before it has moved it.
Owes(x, k, v) ==
    \/ /\ x.op = "rename2" \/ (x.op = "delete" /\ x.after = "rename2")
       /\ k = x.old /\ v = x.w
    \/ x.op = "rename3" /\ k = x.old /\ v = x.v

LEMMA OwesUntilMoved ==
  ASSUME NEW x, x.at \notin Closing \cup {"commit"}
  PROVE  \A k, v : Carries(x, k, v) <=> Owes(x, k, v)
  BY DEF Carries, Owes, Moved

LEMMA AwaitsNone ==
  ASSUME NEW x, x.at \notin Closing \cup {"zopen", "again", "commit"}
  PROVE  \A v : ~Awaits(x, v)
  BY DEF Awaits

\* Before a transaction nothing is known.
LEMMA OpeningKeeps ==
  ASSUME NEW x, NEW y, x.at \notin Closing \cup {"zopen", "again", "commit"},
         \/ y.at \in Opening
         \/ y.at = "leak" /\ x.at # "idle"
         \/ y.at = "idle" /\ y.op = "none",
         Placed(y), \A k \in OSFN, v \in Name : Owes(y, k, v) <=> Owes(x, k, v)
  PROVE  Keeps(x, y)
  <1>1. y.at \notin Closing \cup {"commit", "enter", "exists", "unlink", "again", "create", "move"}
    BY DEF Closing, Opening
  <1>2. Knows(y)
    BY <1>1 DEF Knows, Adds, Removes
  <1>3. \A k \in OSFN, v \in Name : Carries(y, k, v) <=> Carries(x, k, v)
    BY <1>1, OwesUntilMoved
  <1> QED BY <1>2, <1>3, AwaitsNone DEF Keeps

LEMMA UndeleteKeeps ==
  ASSUME TypeInv, NEW p \in Proc, st[p].op = "rename2" \/ st[p].after = "rename2"
  PROVE  /\ Placed(Undelete(p)) /\ Undelete(p).at = "find"
         /\ \A k, v : Owes(Undelete(p), k, v) <=> k = st[p].old /\ v = st[p].w
  <1> DEFINE y == Undelete(p)
  <1>1. /\ y.at = "find" /\ y.op = "rename3" /\ y.v = st[p].w /\ y.old = st[p].old
        /\ ~y.added /\ y.ok = "ok"
    BY DEF Undelete, Idle
  <1> HIDE DEF y
  <1>2. Placed(y) /\ \A k, v : Owes(y, k, v) <=> k = st[p].old /\ v = st[p].w
    BY <1>1 DEF Placed, Opening, Owes, Closing
  <1> QED BY <1>1, <1>2 DEF y

LEMMA IdlePlaced == Placed(Idle) /\ \A k, v : ~Owes(Idle, k, v)
  BY DEF Placed, Idle, Opening, Closing, Owes

LEMMA StartFiles ==
  ASSUME TypeInv, Files, NEW p \in Proc, Start(p)
  PROVE  Files'
  <1>1. /\ st[p].at = "idle" /\ st[p].op = "none" /\ UNCHANGED <<map, disk>>
        /\ \A q \in Proc \ {p} : st'[q] = st[q]
    BY OpenGoes DEF Start, At, Files, Placed
  <1>2. PICK y : st'[p] = y /\ y.at \in {"look", "find"} /\ Placed(y) /\ \A k, v : ~Owes(y, k, v)
    <2>1. \A s : st' = [st EXCEPT ![p] = s] => st'[p] = s
      BY GoesTo
    <2>2. ASSUME NEW v, NEW op \in {"open", "alloc"}
          PROVE  LET y == [Idle EXCEPT !.at = "look", !.op = op, !.v = v]
                 IN  y.at = "look" /\ Placed(y) /\ \A k, u : ~Owes(y, k, u)
      <3> DEFINE y == [Idle EXCEPT !.at = "look", !.op = op, !.v = v]
      <3>1. y.at = "look" /\ y.op \in {"open", "alloc"} /\ ~y.added /\ y.ok = "ok"
        BY DEF Idle
      <3> HIDE DEF y
      <3>2. Placed(y) /\ \A k, u : ~Owes(y, k, u)
        BY <3>1 DEF Placed, Opening, Closing, Owes
      <3> QED BY <3>1, <3>2 DEF y
    <2>3. ASSUME NEW v
          PROVE  LET y == [Idle EXCEPT !.at = "find", !.op = "delete", !.v = v]
                 IN  y.at = "find" /\ Placed(y) /\ \A k, u : ~Owes(y, k, u)
      <3> DEFINE y == [Idle EXCEPT !.at = "find", !.op = "delete", !.v = v]
      <3>1. y.at = "find" /\ y.op = "delete" /\ y.after = "none" /\ ~y.added /\ y.ok = "ok"
        BY DEF Idle
      <3> HIDE DEF y
      <3>2. Placed(y) /\ \A k, u : ~Owes(y, k, u)
        BY <3>1 DEF Placed, Opening, Closing, Owes
      <3> QED BY <3>1, <3>2 DEF y
    <2>4. ASSUME NEW v, NEW w
          PROVE  LET y == [Idle EXCEPT !.at = "find", !.op = "rename1", !.v = v, !.w = w]
                 IN  y.at = "find" /\ Placed(y) /\ \A k, u : ~Owes(y, k, u)
      <3> DEFINE y == [Idle EXCEPT !.at = "find", !.op = "rename1", !.v = v, !.w = w]
      <3>1. y.at = "find" /\ y.op = "rename1" /\ ~y.added /\ y.ok = "ok"
        BY DEF Idle
      <3> HIDE DEF y
      <3>2. Placed(y) /\ \A k, u : ~Owes(y, k, u)
        BY <3>1, SMTT(30) DEF Placed, Opening, Closing, Owes
      <3> QED BY <3>1, <3>2 DEF y
    <2>5. PICK v \in Name :
             \/ \E op \in Ops \cap {"open", "alloc"} :
                  st' = [st EXCEPT ![p] = [Idle EXCEPT !.at = "look", !.op = op, !.v = v]]
             \/ st' = [st EXCEPT ![p] = [Idle EXCEPT !.at = "find", !.op = "delete", !.v = v]]
             \/ \E w \in Name \ {v} :
                  st' = [st EXCEPT ![p] = [Idle EXCEPT !.at = "find", !.op = "rename1",
                                                       !.v = v, !.w = w]]
      BY DEF Start
    <2>6. CASE \E op \in Ops \cap {"open", "alloc"} :
                 st' = [st EXCEPT ![p] = [Idle EXCEPT !.at = "look", !.op = op, !.v = v]]
      <3>1. PICK op \in {"open", "alloc"} :
              st' = [st EXCEPT ![p] = [Idle EXCEPT !.at = "look", !.op = op, !.v = v]]
        BY <2>6
      <3> DEFINE y == [Idle EXCEPT !.at = "look", !.op = op, !.v = v]
      <3>2. st'[p] = y
        BY <2>1, <3>1
      <3>3. y.at = "look" /\ Placed(y) /\ \A k, u : ~Owes(y, k, u)
        BY <2>2
      <3> HIDE DEF y
      <3> QED BY <3>2, <3>3
    <2>7. CASE st' = [st EXCEPT ![p] = [Idle EXCEPT !.at = "find", !.op = "delete", !.v = v]]
      BY <2>1, <2>3, <2>7, Zenon
    <2>8. CASE \E w \in Name \ {v} :
                 st' = [st EXCEPT ![p] = [Idle EXCEPT !.at = "find", !.op = "rename1",
                                                      !.v = v, !.w = w]]
      <3>1. PICK w : st' = [st EXCEPT ![p] = [Idle EXCEPT !.at = "find", !.op = "rename1",
                                                          !.v = v, !.w = w]]
        BY <2>8
      <3> DEFINE y == [Idle EXCEPT !.at = "find", !.op = "rename1", !.v = v, !.w = w]
      <3>2. st'[p] = y
        BY <2>1, <3>1
      <3>3. y.at = "find" /\ Placed(y) /\ \A k, u : ~Owes(y, k, u)
        BY <2>4
      <3> HIDE DEF y
      <3> QED BY <3>2, <3>3
    <2> QED BY <2>5, <2>6, <2>7, <2>8
  <1>3. Keeps(st[p], y)
    <2>1. \A k, v : ~Owes(st[p], k, v)
      BY <1>1 DEF Owes
    <2> QED BY <1>1, <1>2, <2>1, OpeningKeeps DEF Opening, Closing
  <1> QED BY <1>1, <1>2, <1>3, OneKeeps, SMTT(30)

LEMMA LookFiles ==
  ASSUME TypeInv, Files, NEW p \in Proc, Look(p)
  PROVE  Files'
  <1>1. /\ st[p].at = "look" /\ UNCHANGED <<map, disk>>
        /\ \A q \in Proc \ {p} : st'[q] = st[q]
        /\ st[p] \in State /\ st \in [Proc -> Work] /\ Placed(st[p])
    BY OpenGoes DEF Look, At, Files, TypeInv, Work
  <1>2. PICK y : /\ y = st'[p] /\ y.at \in {"access", "find"} /\ y.op = st[p].op
                 /\ y.after = st[p].after /\ y.v = st[p].v /\ y.w = st[p].w /\ y.old = st[p].old
                 /\ y.added = st[p].added /\ y.ok = st[p].ok
    BY <1>1 DEF Look, Goto, State
  <1>3. Placed(y) /\ \A k, v : Owes(y, k, v) <=> Owes(st[p], k, v)
    BY <1>1, <1>2 DEF Placed, Opening, Closing, Owes
  <1>4. Keeps(st[p], y)
    BY <1>1, <1>2, <1>3, OpeningKeeps DEF Opening, Closing
  <1> QED BY <1>1, <1>2, <1>4, OneKeeps

LEMMA AccessFiles ==
  ASSUME TypeInv, Files, NEW p \in Proc, Access(p)
  PROVE  Files'
  <1>1. /\ st[p].at = "access" /\ UNCHANGED <<map, disk>>
        /\ \A q \in Proc \ {p} : st'[q] = st[q]
        /\ st[p] \in State /\ st \in [Proc -> Work] /\ Placed(st[p])
        /\ st[p].op \in {"open", "alloc", "rename2"}
    BY OpenGoes DEF Access, At, Files, TypeInv, Work
  <1>2. PICK y : /\ y = st'[p] /\ y.at \in {"find", "idle"} /\ (y.at = "idle" => y.op = "none")
                 /\ Placed(y) /\ \A k, v : Owes(y, k, v) <=> Owes(st[p], k, v)
    <2>1. CASE Goto(p, "find")
      <3> DEFINE y == [st[p] EXCEPT !.at = "find"]
      <3>1. /\ st'[p] = y /\ y.at = "find" /\ y.op = st[p].op /\ y.after = st[p].after
            /\ y.v = st[p].v /\ y.w = st[p].w /\ y.old = st[p].old
            /\ y.added = st[p].added /\ y.ok = st[p].ok
        BY <1>1, <2>1 DEF Goto, State
      <3> HIDE DEF y
      <3>2. Placed(y) /\ \A k, v : Owes(y, k, v) <=> Owes(st[p], k, v)
        BY <1>1, <3>1 DEF Placed, Opening, Closing, Owes
      <3> QED BY <3>1, <3>2
    <2>2. CASE st' = [st EXCEPT ![p].at = "find", ![p].op = "delete", ![p].after = st[p].op]
      <3> DEFINE y == [st[p] EXCEPT !.at = "find", !.op = "delete", !.after = st[p].op]
      <3>1. /\ st'[p] = y /\ y.at = "find" /\ y.op = "delete" /\ y.after = st[p].op
            /\ y.v = st[p].v /\ y.w = st[p].w /\ y.old = st[p].old
            /\ y.added = st[p].added /\ y.ok = st[p].ok
        BY <1>1, <2>2 DEF State
      <3> HIDE DEF y
      <3>2. Placed(y) /\ \A k, v : Owes(y, k, v) <=> Owes(st[p], k, v)
        BY <1>1, <3>1 DEF Placed, Opening, Closing, Owes
      <3> QED BY <3>1, <3>2
    <2>3. CASE st' = [st EXCEPT ![p] = Undelete(p)] /\ st[p].op = "rename2"
      <3>1. st'[p] = Undelete(p)
        BY <2>3, GoesTo
      <3>2. \A k, v : Owes(st[p], k, v) <=> k = st[p].old /\ v = st[p].w
        BY <2>3 DEF Owes
      <3> QED BY <2>3, <3>1, <3>2, UndeleteKeeps
    <2>4. CASE st' = [st EXCEPT ![p] = Idle] /\ st[p].op # "rename2"
      <3>1. st'[p] = Idle
        BY <2>4, GoesTo
      <3>3. Idle.at = "idle" /\ Idle.op = "none"
        BY DEF Idle
      <3>2. \A k, v : ~Owes(st[p], k, v)
        BY <1>1, <2>4 DEF Owes
      <3> QED BY <3>1, <3>2, <3>3, IdlePlaced
    <2> QED BY <2>1, <2>2, <2>3, <2>4 DEF Access
  <1>3. Keeps(st[p], y)
    BY <1>1, <1>2, OpeningKeeps DEF Opening, Closing
  <1> QED BY <1>1, <1>2, <1>3, OneKeeps, SMTT(30)

LEMMA LockFiles ==
  ASSUME TypeInv, Files, Unharmed', NEW p \in Proc,
         FindMap(p) \/ MakeMap(p) \/ InitLock(p) \/ TakeLock(p)
  PROVE  Files'
  <1>1. /\ st[p] \in State /\ st \in [Proc -> Work] /\ Placed(st[p])
        /\ st[p].at \in {"find", "make", "init", "lock", "raised"}
    BY DEF Files, TypeInv, Work, FindMap, MakeMap, InitLock, TakeLock, At
  <1>2. disk' = disk /\ map' = map
    <2>1. CASE MakeMap(p)
      <3>1. ~mapfile
        BY <2>1 DEF MakeMap, Unharmed
      <3> QED BY <2>1, <3>1 DEF MakeMap, TypeInv, Globals
    <2>2. CASE FindMap(p) \/ InitLock(p) \/ TakeLock(p)
      BY <2>2 DEF FindMap, InitLock, TakeLock
    <2> QED BY <2>1, <2>2
  <1>3. /\ st'[p].at \in {"lock", "make", "init", "raised", "read", "leak"}
        /\ st'[p].op = st[p].op /\ st'[p].after = st[p].after /\ st'[p].v = st[p].v
        /\ st'[p].w = st[p].w /\ st'[p].old = st[p].old
        /\ st'[p].added = st[p].added /\ st'[p].ok = st[p].ok
        /\ \A q \in Proc \ {p} : st'[q] = st[q]
    <2>1. CASE FindMap(p)
      BY <1>1, <2>1 DEF FindMap, State
    <2>2. CASE MakeMap(p)
      BY <1>1, <2>2 DEF MakeMap, State
    <2>3. CASE InitLock(p) \/ TakeLock(p)
      BY <1>1, <2>3 DEF InitLock, TakeLock, Goto, State
    <2> QED BY <2>1, <2>2, <2>3
  <1>4. PICK x, y : x = st[p] /\ y = st'[p]
    OBVIOUS
  <1>5. Placed(y) /\ \A k, v : Owes(y, k, v) <=> Owes(x, k, v)
    BY <1>1, <1>3, <1>4 DEF Placed, Opening, Closing, Owes
  <1>6. Keeps(x, y)
    BY <1>1, <1>3, <1>4, <1>5, OpeningKeeps DEF Opening, Closing
  <1> QED BY <1>2, <1>3, <1>4, <1>6, OneKeeps

\* A procedure that fails in a transaction keeps what it owes.
LEMMA FailKeeps ==
  ASSUME TypeInv, Files, UNCHANGED <<map, disk>>, NEW p \in Proc,
         st[p].at \in {"read", "enter", "exists", "unlink", "create", "move"},
         \A q \in Proc \ {p} : st'[q] = st[q],
         st'[p].at = "close", st'[p].ok \in {"error", "err"},
         st'[p].op = st[p].op, st'[p].after = st[p].after, st'[p].v = st[p].v,
         st'[p].w = st[p].w, st'[p].old = st[p].old,
         st[p].op = "rename2" => st'[p].ok = "err", st[p].op # "rename3"
  PROVE  Files'
  <1>1. PICK x, y : x = st[p] /\ y = st'[p]
    OBVIOUS
  <1>2. Placed(x)
    BY <1>1 DEF Files
  <1>3. Placed(y) /\ \A k, v : Carries(y, k, v) <=> Owes(x, k, v)
    BY <1>1, <1>2 DEF Placed, Opening, Closing, Owes, Carries, Moved
  <1>4. (\A k, v : Carries(x, k, v) <=> Owes(x, k, v)) /\ \A v : ~Awaits(x, v)
    BY <1>1, OwesUntilMoved, AwaitsNone DEF Closing
  <1>5. Knows(y)
    BY <1>1 DEF Knows, Adds, Removes
  <1>6. Keeps(x, y)
    BY <1>3, <1>4, <1>5 DEF Keeps
  <1> QED BY <1>1, <1>6, OneKeeps

LEMMA AbandonKeeps ==
  ASSUME TypeInv, Files, UNCHANGED <<map, disk>>, NEW p \in Proc,
         st[p].at \in {"enter", "exists", "unlink", "create", "move"},
         NEW how \in {"error", "err"}, Abandon(p, how),
         st[p].op = "rename2" => how = "err", st[p].op # "rename3"
  PROVE  Files'
  <1>1. /\ st'[p].at = "close" /\ st'[p].ok = how
        /\ st'[p].op = st[p].op /\ st'[p].after = st[p].after /\ st'[p].v = st[p].v
        /\ st'[p].w = st[p].w /\ st'[p].old = st[p].old
        /\ \A q \in Proc \ {p} : st'[q] = st[q]
    BY DEF Abandon, TypeInv, Work, State
  <1> QED BY <1>1, FailKeeps

\* A step from one place of a transaction to the next.
LEMMA GoOnKeeps ==
  ASSUME TypeInv, Files, UNCHANGED <<map, disk>>, NEW p \in Proc,
         st[p].at \in {"read", "enter", "exists"},
         \A q \in Proc \ {p} : st'[q] = st[q],
         st'[p].at \in {"leak", "enter", "exists", "unlink", "create", "move", "commit"},
         st'[p].op = st[p].op, st'[p].after = st[p].after, st'[p].v = st[p].v,
         st'[p].w = st[p].w, st'[p].old = st[p].old, st'[p].ok = "ok",
         st'[p].at = "commit" => st[p].op \in {"open", "rename1"},
         Knows(st'[p]), Placed(st'[p])
  PROVE  Files'
  <1>1. PICK x, y : x = st[p] /\ y = st'[p]
    OBVIOUS
  <1>2. (\A k, v : Carries(x, k, v) <=> Owes(x, k, v)) /\ \A v : ~Awaits(x, v)
    BY <1>1, OwesUntilMoved, AwaitsNone DEF Closing
  <1>3. \A k, v : Carries(y, k, v) <=> Owes(y, k, v)
    BY <1>1 DEF Carries, Owes, Moved, Closing
  <1>4. \A k, v : Owes(y, k, v) <=> Owes(x, k, v)
    BY <1>1 DEF Owes
  <1>5. Keeps(x, y)
    BY <1>1, <1>2, <1>3, <1>4 DEF Keeps
  <1> QED BY <1>1, <1>5, OneKeeps

\* The OSFN of a file that is carried has no pair.
LEMMA CarriedIs ==
  ASSUME TypeInv, Files, NEW p \in Proc, NEW k, NEW v, Carries(st[p], k, v), v \in Name
  PROVE  /\ k \in OSFN /\ disk[k] = v /\ disk[k] # NoName
         /\ \A u \in DOMAIN map : map[u] # k
         /\ \A q \in Proc \ {p} : ~Carries(st[q], k, v)
  <1>1. k \in OSFN
    <2>1. st[p].osfn \in OSFN /\ st[p].old \in OSFN
      BY DEF TypeInv, Work, State
    <2> QED BY <2>1 DEF Carries
  <1>2. v # NoName
    BY MapAssumption
  <1>3. disk[k] = v /\ k \notin Range(map) /\ \A q \in Proc \ {p} : ~Carries(st[q], k, v)
    BY <1>1 DEF Files, CarriedLoose
  <1> QED BY <1>1, <1>2, <1>3 DEF Range

\* The fields that the procedures go by.
Alike(x, y) ==
    /\ y.at = x.at /\ y.op = x.op /\ y.after = x.after /\ y.v = x.v /\ y.w = x.w
    /\ y.mem = x.mem /\ y.added = x.added /\ y.osfn = x.osfn /\ y.old = x.old
    /\ y.ok = x.ok

LEMMA LinkAlike ==
  ASSUME NEW s \in State, NEW l
  PROVE  Alike(s, [s EXCEPT !.linked = l])
  BY DEF Alike, State

LEMMA ReadFiles ==
  ASSUME TypeInv, Files, Unharmed', NEW p \in Proc, ReadMap(p)
  PROVE  Files'
  <1>1. /\ st[p] \in State /\ st[p] \in Work /\ st \in [Proc -> Work] /\ Placed(st[p])
        /\ st[p].at = "read" /\ ~st[p].added /\ st[p].ok = "ok"
        /\ UNCHANGED <<map, disk>> /\ st[p].v \in Name /\ map \in Mem
        /\ st[p].op # "none" /\ st[p].mem \in Mem
    BY DEF Files, TypeInv, Globals, Work, State, ReadMap, At, Placed, Opening, Closing
  <1>2. CASE ~st[p].fresh /\ ~mapfile
    <2>1. /\ st'[p].at = "leak"
          /\ st'[p].op = st[p].op /\ st'[p].after = st[p].after /\ st'[p].v = st[p].v
          /\ st'[p].w = st[p].w /\ st'[p].old = st[p].old
          /\ st'[p].added = st[p].added /\ st'[p].ok = "ok"
          /\ \A q \in Proc \ {p} : st'[q] = st[q]
      BY <1>1, <1>2 DEF ReadMap, Goto, State
    <2>2. PICK y : y = st'[p]
      OBVIOUS
    <2>3. Knows(y) /\ Placed(y)
      BY <1>1, <2>1, <2>2 DEF Knows, Adds, Removes, Placed, Opening, Closing
    <2> QED BY <1>1, <2>1, <2>2, <2>3, GoOnKeeps
  <1>3. CASE ~(~st[p].fresh /\ ~mapfile)
    <2>1. (st[p].fresh => map = Empty) /\ (st[p].op = "rename3" => Entry(st[p].v) \in {NoName, st[p].old})
      BY DEF ReadMap, FlawedIf, Unharmed
    <2>2. PICK x, l : x = st[p] /\ l = (st[p].linked \/ ~st[p].fresh)
      OBVIOUS
    <2>3. PICK m : /\ m = IF x.v \in DOMAIN map THEN Found(p, map) ELSE NotFound(p, map)
                   /\ st'[p] = [m EXCEPT !.linked = l]
                   /\ Alike(m, st'[p])
                   /\ \A q \in Proc \ {p} : st'[q] = st[q]
      <3>1. (IF st[p].fresh THEN Empty ELSE map) = map
        BY <2>1
      <3>2. PICK m : /\ m = IF x.v \in DOMAIN map THEN Found(p, map) ELSE NotFound(p, map)
                     /\ st'[p] = [m EXCEPT !.linked = l]
                     /\ \A q \in Proc \ {p} : st'[q] = st[q]
        BY <1>3, <2>2, <3>1, ReadStep
      <3>3. m \in State
        <4>1. map \in Mem /\ st[p].at # "idle"
          BY <1>1
        <4>2. CASE x.v \in DOMAIN map
          BY <2>2, <3>2, <4>1, <4>2, FoundWork DEF Work
        <4>3. CASE x.v \notin DOMAIN map
          BY <2>2, <3>2, <4>1, <4>3, NotFoundWork DEF Work
        <4> QED BY <4>2, <4>3
      <3>4. Alike(m, [m EXCEPT !.linked = l])
        BY <3>3, LinkAlike
      <3>5. Alike(m, st'[p])
        BY <3>2, <3>4, Zenon
      <3> QED BY <3>2, <3>5, Zenon
    <2>8. x \in State /\ x.ok = "ok" /\ map \in Mem /\ Alike(m, st'[p])
      BY <1>1, <2>2, <2>3
    <2>4. CASE x.v \in DOMAIN map /\ Deleting(p)
      <3>1. m = [x EXCEPT !.at = "exists", !.mem = Removed(map, x.v), !.osfn = map[x.v]]
        BY <2>2, <2>3, <2>4 DEF Found
      <3>2. PICK y, r : y = st'[p] /\ r = Removed(map, x.v)
        OBVIOUS
      <3>3. /\ y.at = "exists" /\ y.mem = r /\ y.osfn = map[x.v]
            /\ y.op = x.op /\ y.after = x.after /\ y.v = x.v /\ y.w = x.w /\ y.old = x.old
            /\ y.ok = "ok"
        <4>1. m = [x EXCEPT !.at = "exists", !.mem = r, !.osfn = map[x.v]]
          BY <3>1, <3>2
        <4>2. /\ m.at = "exists" /\ m.mem = r /\ m.osfn = map[x.v]
              /\ m.op = x.op /\ m.after = x.after /\ m.v = x.v /\ m.w = x.w /\ m.old = x.old
              /\ m.ok = x.ok
          BY <2>8, <4>1 DEF State
        <4> QED BY <2>8, <3>2, <4>2 DEF Alike
      <3>4. x.v \notin DOMAIN r
        BY <2>8, <3>2, RemovedMem
      <3>5. x.op \in {"delete", "rename1"}
        BY <2>2, <2>4 DEF Deleting
      <3>6. Knows(y) /\ Placed(y)
        <4>1. Knows(y)
          BY <2>4, <3>3, <3>4, <3>5 DEF Knows, Adds, Removes
        <4>2. Placed(y)
          BY <3>3, <3>5 DEF Placed, Opening, Closing
        <4> QED BY <4>1, <4>2
      <3> QED BY <1>1, <2>2, <2>3, <3>2, <3>3, <3>6, GoOnKeeps
    <2>5. CASE x.v \in DOMAIN map /\ ~Deleting(p)
      <3>1. x.op \in {"open", "alloc", "rename2"}
        <4>1. x.op # "rename3"
          <5> SUFFICES ASSUME x.op = "rename3"
                       PROVE  FALSE
            OBVIOUS
          <5>1. map[x.v] \in OSFN /\ x.v \in Name
            BY <1>1, <2>2, <2>5, MemValue
          <5>2. map[x.v] = x.old
            BY <2>1, <2>2, <2>5, <5>1, MapAssumption DEF Entry
          <5>3. Carries(x, x.old, x.v)
            BY DEF Carries
          <5> QED BY <2>2, <2>5, <5>1, <5>2, <5>3, CarriedIs
        <4> QED BY <1>1, <2>2, <2>5, <4>1 DEF Deleting, State
      <3> DEFINE at == CASE x.op = "alloc"   -> "create"
                         [] x.op = "rename2" -> "close"
                         [] OTHER            -> "commit"
                 ok == IF x.op = "rename2" THEN "err" ELSE "ok"
      <3>2. m = [x EXCEPT !.at = at, !.ok = ok, !.mem = map, !.osfn = map[x.v]]
        BY <2>2, <2>3, <2>5 DEF Found
      <3>3. PICK y : y = st'[p]
        OBVIOUS
      <3>4. /\ y.at = at /\ y.ok = ok /\ y.osfn = map[x.v] /\ y.added = x.added /\ y.mem = map
            /\ y.op = x.op /\ y.after = x.after /\ y.v = x.v /\ y.w = x.w /\ y.old = x.old
        <4> HIDE DEF at, ok
        <4>1. /\ m.at = at /\ m.ok = ok /\ m.osfn = map[x.v] /\ m.added = x.added /\ m.mem = map
              /\ m.op = x.op /\ m.after = x.after /\ m.v = x.v /\ m.w = x.w /\ m.old = x.old
          BY <2>8, <3>2 DEF State
        <4> QED BY <2>8, <3>3, <4>1 DEF Alike
      <3>5. CASE x.op = "rename2"
        <4>1. at = "close" /\ ok = "err"
          BY <3>5
        <4> QED BY <1>1, <2>2, <2>3, <3>3, <3>4, <3>5, <4>1, FailKeeps
      <3>6. CASE x.op # "rename2"
        <4>1. ok = "ok" /\ (x.op = "alloc" => at = "create") /\ (x.op = "open" => at = "commit")
          BY <3>6
        <4> HIDE DEF at, ok
        <4>2. Knows(y)
          BY <1>1, <2>2, <2>5, <3>1, <3>4, <3>6, <4>1 DEF Knows, Adds, Removes
        <4>3. Placed(y)
          BY <3>1, <3>4, <3>6, <4>1 DEF Placed, Opening, Closing
        <4> QED BY <1>1, <2>2, <2>3, <3>1, <3>3, <3>4, <3>6, <4>1, <4>2, <4>3, GoOnKeeps, ZenonT(60)
      <3> QED BY <3>5, <3>6
    <2>6. CASE x.v \notin DOMAIN map /\ Deleting(p)
      <3>1. m = [x EXCEPT !.at = "close", !.mem = map, !.ok = "error"]
        BY <2>2, <2>3, <2>6 DEF NotFound
      <3>2. /\ st'[p].at = "close" /\ st'[p].ok = "error"
            /\ st'[p].op = x.op /\ st'[p].after = x.after /\ st'[p].v = x.v
            /\ st'[p].w = x.w /\ st'[p].old = x.old
        <4>1. /\ m.at = "close" /\ m.ok = "error" /\ m.op = x.op /\ m.after = x.after
              /\ m.v = x.v /\ m.w = x.w /\ m.old = x.old
          BY <2>8, <3>1 DEF State
        <4> QED BY <2>8, <4>1 DEF Alike
      <3> QED BY <1>1, <2>2, <2>3, <2>6, <3>2, FailKeeps DEF Deleting
    <2>7. CASE x.v \notin DOMAIN map /\ ~Deleting(p)
      <3>1. m = [x EXCEPT !.at = "enter", !.mem = map, !.osfn = 0]
        BY <2>2, <2>3, <2>7 DEF NotFound
      <3>2. PICK y : y = st'[p]
        OBVIOUS
      <3>3. /\ y.at = "enter" /\ y.added = x.added /\ y.ok = "ok"
            /\ y.op = x.op /\ y.after = x.after /\ y.v = x.v /\ y.w = x.w /\ y.old = x.old
        <4>1. /\ m.at = "enter" /\ m.added = x.added /\ m.ok = x.ok /\ m.op = x.op
              /\ m.after = x.after /\ m.v = x.v /\ m.w = x.w /\ m.old = x.old
          BY <2>8, <3>1 DEF State
        <4> QED BY <2>8, <3>2, <4>1 DEF Alike
      <3>4. x.op \notin {"delete", "rename1", "none"}
        BY <1>1, <2>2, <2>7 DEF Deleting
      <3>5. Knows(y) /\ Placed(y)
        BY <1>1, <2>2, <2>7, <3>3, <3>4 DEF Knows, Adds, Removes, Placed, Opening, Closing
      <3> QED BY <1>1, <2>2, <2>3, <3>2, <3>3, <3>5, GoOnKeeps
    <2> QED BY <2>4, <2>5, <2>6, <2>7
  <1> QED BY <1>2, <1>3

LEMMA ProbeFiles ==
  ASSUME TypeInv, Files, Unharmed', NEW p \in Proc, Probe(p)
  PROVE  Files'
  <1>1. /\ st[p] \in State /\ st \in [Proc -> Work] /\ Placed(st[p]) /\ Knows(st[p])
        /\ st[p].at = "enter" /\ ~st[p].added /\ st[p].ok = "ok"
        /\ UNCHANGED <<map, disk>> /\ st[p].op # "none"
    BY DEF Files, TypeInv, Work, Probe, At, Placed, Opening, Closing
  <1>2. ASSUME st'[p].at \in {"leak", "enter"}, st'[p].op = st[p].op, st'[p].after = st[p].after,
               st'[p].v = st[p].v, st'[p].w = st[p].w, st'[p].old = st[p].old,
               st'[p].added = st[p].added, st'[p].ok = st[p].ok,
               \A q \in Proc \ {p} : st'[q] = st[q]
        PROVE  Files'
    <2>1. PICK x, y : x = st[p] /\ y = st'[p]
      OBVIOUS
    <2>2. Knows(y)
      BY <1>1, <1>2, <2>1 DEF Knows, Adds, Removes
    <2>3. Placed(y)
      BY <1>1, <1>2, <2>1 DEF Placed, Opening, Closing
    <2> QED BY <1>1, <1>2, <2>1, <2>2, <2>3, GoOnKeeps
  <1>3. CASE Goto(p, "leak")
    BY <1>1, <1>2, <1>3 DEF Goto, State
  <1>4. CASE st' = [st EXCEPT ![p].osfn = @ + 1]
    BY <1>1, <1>2, <1>4 DEF State
  <1>5. CASE EnterFails(p)
    <2>1. Abandon(p, "error") /\ st[p].op \notin {"rename2", "rename3"}
      BY <1>5 DEF EnterFails, FlawedIf, Unharmed
    <2> QED BY <1>1, <2>1, AbandonKeeps
  <1> QED BY <1>3, <1>4, <1>5 DEF Probe

LEMMA EnterFiles ==
  ASSUME TypeInv, PairInv, Files, Unharmed, Unharmed', NEW p \in Proc, Enter(p)
  PROVE  Files'
  <1>1. /\ st[p] \in State /\ st \in [Proc -> Work] /\ Placed(st[p]) /\ Knows(st[p])
        /\ st[p].at = "enter" /\ ~st[p].added /\ st[p].ok = "ok"
        /\ UNCHANGED <<map, disk>> /\ st[p].op # "none"
    BY DEF Files, TypeInv, Work, Enter, At, Placed, Opening, Closing
  <1>2. CASE EnterFails(p)
    <2>1. Abandon(p, "error") /\ st[p].op \notin {"rename2", "rename3"}
      BY <1>2 DEF EnterFails, FlawedIf, Unharmed
    <2> QED BY <1>1, <2>1, AbandonKeeps
  <1>3. CASE ~EnterFails(p)
    <2>1. PICK x, y, m : x = st[p] /\ y = st'[p] /\ m = Paired(x.mem, x.v, x.osfn)
      OBVIOUS
    <2>2. /\ st' = [st EXCEPT ![p].at = Added(p), ![p].added = TRUE, ![p].mem = m]
          /\ x.osfn \notin Range(x.mem) /\ (x.op = "rename3" => x.osfn = x.old)
          /\ disk[x.osfn] = NoName
      BY <1>3, <2>1 DEF Enter, FlawedIf, Unharmed
    <2>3. /\ y.at = Added(p) /\ y.added /\ y.mem = m /\ y.osfn = x.osfn
          /\ y.op = x.op /\ y.after = x.after /\ y.v = x.v /\ y.w = x.w /\ y.old = x.old
          /\ y.ok = x.ok /\ \A q \in Proc \ {p} : st'[q] = st[q]
      BY <1>1, <2>1, <2>2 DEF State
    <2>4. x.op \in {"open", "alloc", "rename2"}
      <3>1. x.op \in {"open", "alloc", "rename2", "rename3"}
        BY <1>1, <2>1 DEF State, Knows
      <3>2. x.op # "rename3"
        <4> SUFFICES ASSUME x.op = "rename3"
                     PROVE  FALSE
          OBVIOUS
        <4>1. Carries(st[p], x.osfn, x.v) /\ x.v \in Name
          BY <1>1, <2>1, <2>2 DEF Carries, TypeInv, Work
        <4> QED BY <2>2, <4>1, CarriedIs
      <3> QED BY <3>1, <3>2
    <2>5. x.v \notin DOMAIN map /\ x.v \in DOMAIN m /\ m[x.v] = x.osfn /\ x.osfn \notin Range(map)
      <3>1. x.v \notin DOMAIN map
        BY <1>1, <2>1 DEF Knows
      <3>2. x.v \in DOMAIN m /\ m[x.v] = x.osfn
        BY <2>1 DEF Paired
      <3>3. ASSUME NEW u \in DOMAIN map, map[u] = x.osfn
            PROVE  FALSE
        <4>1. Agrees(p)
          BY <1>1 DEF PairInv, HasRead, Unharmed
        <4>2. u \in Name \ {x.v}
          BY <3>1, MemValue DEF TypeInv, Globals
        <4>3. u \in DOMAIN x.mem /\ x.mem[u] = x.osfn
          BY <2>1, <3>3, <4>1, <4>2 DEF Agrees, Same
        <4> QED BY <2>2, <4>3 DEF Range
      <3> QED BY <3>1, <3>2, <3>3 DEF Range
    <2>6. /\ x.op = "alloc" => y.at = "create"
          /\ x.op = "rename2" => y.at = "move"
          /\ x.op = "open" => y.at = "commit"
      BY <2>1, <2>3 DEF Added
    <2>7. Knows(y)
      BY <2>2, <2>3, <2>4, <2>5, <2>6 DEF Knows, Adds, Removes
    <2>8. Placed(y)
      BY <1>1, <2>1, <2>3, <2>4, <2>6 DEF Placed, Opening, Closing
    <2> QED BY <1>1, <2>1, <2>3, <2>4, <2>6, <2>7, <2>8, GoOnKeeps
  <1> QED BY <1>2, <1>3

\* The file of a pair that nobody else is about to make or to remove.
LEMMA FiledIs ==
  ASSUME TypeInv, Files, NEW v \in DOMAIN map, disk[map[v]] # NoName
  PROVE  disk[map[v]] = v
  BY DEF Files, NamesFiled

LEMMA ExistsFiles ==
  ASSUME TypeInv, Files, NEW p \in Proc, Exists(p)
  PROVE  Files'
  <1>1. /\ st[p] \in State /\ st \in [Proc -> Work] /\ Placed(st[p]) /\ Knows(st[p])
        /\ st[p].at = "exists" /\ st[p].op \in {"delete", "rename1"} /\ st[p].ok = "ok"
        /\ UNCHANGED <<map, disk>>
    BY DEF Files, TypeInv, Work, Exists, At, Placed, Closing
  <1>2. CASE disk[st[p].osfn] = NoName
    BY <1>1, <1>2, AbandonKeeps DEF Exists
  <1>3. CASE disk[st[p].osfn] # NoName
    <2>1. PICK x, y : x = st[p] /\ y = st'[p]
      OBVIOUS
    <2>2. /\ y.at = (IF x.op = "delete" THEN "unlink" ELSE "commit") /\ y.op = x.op
          /\ y.after = x.after /\ y.v = x.v /\ y.w = x.w /\ y.old = x.old /\ y.ok = x.ok
          /\ y.osfn = x.osfn /\ y.mem = x.mem /\ y.added = x.added
          /\ \A q \in Proc \ {p} : st'[q] = st[q]
      BY <1>1, <1>3, <2>1 DEF Exists, Goto, State
    <2>3. /\ x.v \in DOMAIN map /\ map[x.v] = x.osfn /\ x.v \notin DOMAIN x.mem
          /\ disk[x.osfn] = x.v
      <3>1. x.v \in DOMAIN map /\ map[x.v] = x.osfn /\ x.v \notin DOMAIN x.mem
        BY <1>1, <2>1 DEF Knows, Removes
      <3> QED BY <1>3, <2>1, <3>1, FiledIs
    <2>4. Knows(y)
      BY <1>1, <2>1, <2>2, <2>3 DEF Knows, Adds, Removes
    <2>5. Placed(y)
      BY <1>1, <2>1, <2>2 DEF Placed, Opening, Closing
    <2> QED BY <1>1, <2>1, <2>2, <2>4, <2>5, GoOnKeeps
  <1> QED BY <1>2, <1>3

LEMMA AgainFiles ==
  ASSUME TypeInv, Files, NEW p \in Proc, Again(p)
  PROVE  Files'
  <1>1. /\ st[p] \in State /\ st \in [Proc -> Work] /\ Placed(st[p]) /\ Knows(st[p])
        /\ st[p].at = "again" /\ st[p].op = "delete" /\ st[p].ok = "ok"
        /\ UNCHANGED <<map, disk>>
    BY DEF Files, TypeInv, Work, Again, At, Placed, Closing
  <1>2. PICK x, y : x = st[p] /\ y = st'[p]
    OBVIOUS
  <1>3. /\ x.v \in DOMAIN map /\ map[x.v] = x.osfn /\ x.v \notin DOMAIN x.mem
        /\ disk[x.osfn] = NoName
    BY <1>1, <1>2 DEF Knows, Removes
  <1>4. /\ y.at = "commit" /\ y.op = x.op /\ y.after = x.after /\ y.v = x.v /\ y.w = x.w
        /\ y.old = x.old /\ y.ok = x.ok
        /\ y.osfn = x.osfn /\ y.mem = x.mem /\ y.added = x.added
        /\ \A q \in Proc \ {p} : st'[q] = st[q]
    BY <1>1, <1>2, <1>3 DEF Again, Goto, State
  <1>5. Knows(y)
    BY <1>1, <1>2, <1>3, <1>4 DEF Knows, Adds, Removes
  <1>6. Placed(y)
    BY <1>1, <1>2, <1>4 DEF Placed, Opening, Closing
  <1>7. \A k, v : Carries(y, k, v) <=> Carries(x, k, v)
    BY <1>1, <1>2, <1>4 DEF Carries, Moved, Closing
  <1>8. \A v : Awaits(x, v) => Awaits(y, v)
    BY <1>1, <1>2, <1>4 DEF Awaits
  <1>9. Keeps(x, y)
    BY <1>5, <1>6, <1>7, <1>8 DEF Keeps
  <1> QED BY <1>1, <1>2, <1>4, <1>9, OneKeeps

\* vfnclose up to the step in which the procedure goes on.
LEMMA ClosingKeeps ==
  ASSUME NEW x, NEW y, Placed(x), x.at \in Closing, y.at \in Closing,
         y.op = x.op, y.after = x.after, y.v = x.v, y.w = x.w, y.old = x.old,
         y.osfn = x.osfn, y.ok = x.ok
  PROVE  Keeps(x, y)
  <1>1. Placed(y)
    BY DEF Placed, Opening, Closing
  <1>2. Knows(y)
    BY DEF Knows, Adds, Removes, Closing
  <1>3. \A k, v : Carries(y, k, v) <=> Carries(x, k, v)
    BY DEF Carries, Moved, Closing
  <1>4. \A v : Awaits(x, v) => Awaits(y, v)
    BY DEF Awaits, Closing
  <1> QED BY <1>1, <1>2, <1>3, <1>4 DEF Keeps

\* A procedure goes on after vfnclose with what it still owes.
LEMMA AfterCloseKeeps ==
  ASSUME TypeInv, Files, NEW p \in Proc, st[p].at \in Closing
  PROVE  Keeps(st[p], AfterClose(p))
  <1>1. PICK x, y : x = st[p] /\ y = AfterClose(p)
    OBVIOUS
  <1>2. x \in State /\ Placed(x)
    BY <1>1 DEF TypeInv, Work, Files
  <1>3. /\ x.op \in {"open", "alloc", "delete", "rename1", "rename2"}
        /\ x.op = "rename2" => x.ok \in {"ok", "err"}
    BY <1>1, <1>2 DEF Placed, State, Opening, Closing
  <1>4. ASSUME y.at \in Opening \/ (y.at = "idle" /\ y.op = "none"), Placed(y), x.op # "open" \/ x.ok # "ok",
               \A k, v : Owes(y, k, v) <=> Carries(x, k, v)
        PROVE  Keeps(x, y)
    <2>1. y.at \notin Closing \cup {"commit", "enter", "exists", "unlink", "again", "create", "move"}
      BY <1>4 DEF Closing, Opening
    <2>2. Knows(y)
      BY <2>1 DEF Knows, Adds, Removes
    <2>3. \A k, v : Carries(y, k, v) <=> Carries(x, k, v)
      BY <1>4, <2>1, OwesUntilMoved
    <2>4. \A v : ~Awaits(x, v)
      BY <1>1, <1>4 DEF Awaits, Closing
    <2> QED BY <1>4, <2>2, <2>3, <2>4 DEF Keeps
  <1>5. CASE x.op = "open" /\ x.ok = "ok"
    <2>1. y.at = "zopen" /\ y.op = "open" /\ y.v = x.v /\ y.ok = "ok"
      BY <1>1, <1>5 DEF AfterClose, Idle
    <2>2. Knows(y) /\ Placed(y)
      BY <2>1 DEF Knows, Adds, Removes, Placed, Opening, Closing
    <2>3. \A k, v : ~Carries(x, k, v) /\ ~Carries(y, k, v)
      BY <1>5, <2>1 DEF Carries
    <2>4. \A v : Awaits(x, v) => Awaits(y, v)
      BY <1>5, <2>1 DEF Awaits
    <2> QED BY <1>1, <2>2, <2>3, <2>4 DEF Keeps
  <1>6. CASE x.op = "delete" /\ x.ok = "ok" /\ x.after # "none"
    <2>1. /\ y.at = "find" /\ y.op = x.after /\ y.w = x.w /\ y.old = x.old
          /\ ~y.added /\ y.ok = "ok"
      BY <1>1, <1>6 DEF AfterClose, Idle
    <2>2. x.after \in {"open", "alloc", "rename2"}
      BY <1>2, <1>6 DEF State
    <2>3. Placed(y)
      BY <2>1, <2>2 DEF Placed, Opening, Closing
    <2>4. \A k, v : Owes(y, k, v) <=> Carries(x, k, v)
      BY <1>1, <1>6, <2>1, <2>2 DEF Owes, Carries, Moved, Closing
    <2> QED BY <1>1, <1>4, <1>6, <2>1, <2>3, <2>4 DEF Opening
  <1>7. CASE x.op = "delete" /\ x.ok # "ok" /\ x.after = "rename2"
    <2>1. y = Undelete(p)
      BY <1>1, <1>7 DEF AfterClose
    <2>2. \A k, v : Carries(x, k, v) <=> k = x.old /\ v = x.w
      BY <1>1, <1>7 DEF Carries, Moved, Closing
    <2>3. Placed(y) /\ y.at = "find" /\ \A k, v : Owes(y, k, v) <=> k = x.old /\ v = x.w
      BY <1>1, <1>7, <2>1, UndeleteKeeps
    <2> QED BY <1>1, <1>4, <1>7, <2>2, <2>3 DEF Opening
  <1>8. CASE x.op = "rename1" /\ x.ok = "ok"
    <2>1. /\ y.at = "look" /\ y.op = "rename2" /\ y.w = x.v /\ y.old = x.osfn
          /\ ~y.added /\ y.ok = "ok"
      BY <1>1, <1>8 DEF AfterClose, Idle
    <2>2. Placed(y)
      BY <2>1 DEF Placed, Opening, Closing
    <2>3. \A k, v : Owes(y, k, v) <=> Carries(x, k, v)
      BY <1>1, <1>8, <2>1 DEF Owes, Carries, Closing
    <2> QED BY <1>1, <1>4, <1>8, <2>1, <2>2, <2>3 DEF Opening
  <1>9. CASE x.op = "rename2" /\ x.ok = "err"
    <2>1. y = Undelete(p)
      BY <1>1, <1>9 DEF AfterClose
    <2>2. \A k, v : Carries(x, k, v) <=> k = x.old /\ v = x.w
      BY <1>1, <1>9 DEF Carries, Moved, Closing
    <2>3. Placed(y) /\ y.at = "find" /\ \A k, v : Owes(y, k, v) <=> k = x.old /\ v = x.w
      BY <1>1, <1>9, <2>1, UndeleteKeeps
    <2> QED BY <1>1, <1>4, <1>9, <2>2, <2>3 DEF Opening
  <1>10. CASE ~(\/ x.op = "open" /\ x.ok = "ok"
                \/ x.op = "delete" /\ x.ok = "ok" /\ x.after # "none"
                \/ x.op = "delete" /\ x.ok # "ok" /\ x.after = "rename2"
                \/ x.op = "rename1" /\ x.ok = "ok"
                \/ x.op = "rename2" /\ x.ok = "err")
    <2>1. y = Idle
      BY <1>1, <1>10 DEF AfterClose
    <2>2. \A k, v : ~Carries(x, k, v)
      BY <1>1, <1>3, <1>10 DEF Carries, Moved, Closing
    <2>3. y.at = "idle" /\ y.op = "none"
      BY <2>1 DEF Idle
    <2> QED BY <1>1, <1>4, <1>10, <2>1, <2>2, <2>3, IdlePlaced
  <1> QED BY <1>5, <1>6, <1>7, <1>8, <1>9, <1>10

LEMMA CloseFiles ==
  ASSUME TypeInv, Files, Unharmed', NEW p \in Proc,
         Close(p) \/ RemoveMap(p) \/ RemoveLock(p) \/ Leave(p)
  PROVE  Files'
  <1>1. /\ st \in [Proc -> Work] /\ \A q \in Proc : st[q] \in State
        /\ Placed(st[p]) /\ st[p].at \in Closing
    BY DEF Files, TypeInv, Work, Close, RemoveMap, RemoveLock, Leave, At, Closing
  <1>2. disk' = disk /\ map' = map
    <2>1. CASE RemoveMap(p)
      <3>1. map = Empty
        BY <2>1 DEF RemoveMap, FlawedIf, Unharmed
      <3> QED BY <2>1, <3>1 DEF RemoveMap
    <2>2. CASE Close(p) \/ RemoveLock(p) \/ Leave(p)
      BY <2>2 DEF Close, RemoveLock, Leave
    <2> QED BY <2>1, <2>2
  <1>3. CASE st' = [st EXCEPT ![p] = AfterClose(p)]
    <2>1. st'[p] = AfterClose(p) /\ \A q \in Proc \ {p} : st'[q] = st[q]
      BY <1>3, GoesTo
    <2> QED BY <1>1, <1>2, <2>1, AfterCloseKeeps, OneKeeps
  <1>4. ASSUME NEW place \in Closing, Goto(p, place)
        PROVE  Files'
    <2>1. PICK x, y : x = st[p] /\ y = st'[p]
      OBVIOUS
    <2>2. /\ y.at = place /\ y.op = x.op /\ y.after = x.after /\ y.v = x.v /\ y.w = x.w
          /\ y.old = x.old /\ y.osfn = x.osfn /\ y.ok = x.ok
          /\ \A q \in Proc \ {p} : st'[q] = st[q]
      BY <1>1, <1>4, <2>1 DEF Goto, State
    <2>3. Keeps(x, y)
      BY <1>1, <1>4, <2>1, <2>2, ClosingKeeps
    <2> QED BY <1>2, <2>1, <2>2, <2>3, OneKeeps
  <1>5. CASE RemoveMap(p)
    <2>1. ASSUME NEW q \in Proc
          PROVE  Keeps(st[q], st'[q])
      <3>1. PICK x, y : x = st[q] /\ y = st'[q]
        OBVIOUS
      <3>2. CASE q = p
        <4>1. y = [x EXCEPT !.linked = FALSE, !.at = "rmlock"]
          BY <1>5, <3>1, <3>2 DEF RemoveMap
        <4>2. /\ y.at = "rmlock" /\ y.op = x.op /\ y.after = x.after /\ y.v = x.v /\ y.w = x.w
              /\ y.old = x.old /\ y.osfn = x.osfn /\ y.ok = x.ok
          BY <1>1, <3>1, <4>1 DEF State
        <4> QED BY <1>1, <3>1, <3>2, <4>2, ClosingKeeps DEF Closing
      <3>3. CASE q # p
        <4>1. y = [x EXCEPT !.linked = FALSE, !.at = @]
          BY <1>5, <3>1, <3>3 DEF RemoveMap
        <4>2. Alike(x, y)
          BY <1>1, <3>1, <4>1 DEF State, Alike
        <4>3. Knows(x) /\ Placed(x)
          BY <3>1 DEF Files
        <4>4. Knows(y) /\ Placed(y)
          BY <4>2, <4>3 DEF Alike, Knows, Adds, Removes, Placed
        <4>5. \A k, v : Carries(y, k, v) <=> Carries(x, k, v)
          BY <4>2 DEF Alike, Carries, Moved
        <4>6. \A v : Awaits(y, v) <=> Awaits(x, v)
          BY <4>2 DEF Alike, Awaits
        <4> QED BY <3>1, <4>4, <4>5, <4>6 DEF Keeps
      <3> QED BY <3>2, <3>3
    <2> QED BY <1>2, <2>1, AllKeep
  <1>6. CASE Close(p) \/ RemoveLock(p) \/ Leave(p)
    BY <1>3, <1>4, <1>6 DEF Close, RemoveLock, Leave, Closing
  <1> QED BY <1>5, <1>6

\* In the transaction of p no other process knows anything.
LEMMA OthersOut ==
  ASSUME TypeInv, Lock!Exclusion, Files, Unharmed, NEW p \in Proc, st[p].at \in Locked,
         \A q \in Proc \ {p} : st'[q] = st[q]
  PROVE  \A q \in Proc \ {p} : Knows(st[q])' /\ Placed(st[q])'
  <1> SUFFICES ASSUME NEW q \in Proc \ {p}
               PROVE  Knows(st[q])' /\ Placed(st[q])'
    OBVIOUS
  <1>1. st[q].at \notin Locked
    BY DEF Lock!Exclusion, Holders, At, Unharmed
  <1>2. Knows(st[q])'
    BY <1>1 DEF Knows, Adds, Removes, Locked
  <1>3. Placed(st[q])'
    BY DEF Files, Placed
  <1> QED BY <1>2, <1>3

\* What is to be shown of a step that changes the mapping file or a file.
LEMMA FilesAfter ==
  ASSUME TypeInv, TypeInv', NEW p \in Proc,
         \A q \in Proc \ {p} : st'[q] = st[q] /\ Knows(st[q])' /\ Placed(st[q])',
         NEW y, y = st'[p], Knows(st[p])', Placed(y),
         \A u, v \in DOMAIN map' : map'[u] = map'[v] => u = v,
         \A k \in OSFN : disk'[k] # NoName =>
            \/ disk'[k] \in DOMAIN map' /\ map'[disk'[k]] = k
            \/ Carries(y, k, disk'[k])
            \/ \E q \in Proc \ {p} : Carries(st[q], k, disk'[k]),
         \A v \in DOMAIN map' : disk'[map'[v]] # v =>
            /\ disk'[map'[v]] = NoName
            /\ Awaits(y, v) \/ \E q \in Proc \ {p} : Awaits(st[q], v),
         \A k \in OSFN, v \in Name : Carries(y, k, v) =>
            /\ disk'[k] = v /\ \A u \in DOMAIN map' : map'[u] # k
            /\ \A q \in Proc \ {p} : ~Carries(st[q], k, v),
         \A q \in Proc \ {p}, k \in OSFN, v \in Name : Carries(st[q], k, v) =>
            /\ disk'[k] = v /\ \A u \in DOMAIN map' : map'[u] # k
            /\ ~Carries(y, k, v)
            /\ \A r \in Proc \ {p, q} : ~Carries(st[r], k, v)
  PROVE  Files'
  <1>1. PairsDiffer'
    BY DEF PairsDiffer
  <1>2. FilesNamed'
    <2> SUFFICES ASSUME NEW k \in OSFN, disk'[k] # NoName,
                        ~(disk'[k] \in DOMAIN map' /\ map'[disk'[k]] = k)
                 PROVE  \E q \in Proc : Carries(st'[q], k, disk'[k])
      BY DEF FilesNamed
    <2>1. CASE Carries(y, k, disk'[k])
      BY <2>1
    <2>2. CASE \E q \in Proc \ {p} : Carries(st[q], k, disk'[k])
      BY <2>2
    <2> QED BY <2>1, <2>2
  <1>3. NamesFiled'
    <2> SUFFICES ASSUME NEW v \in DOMAIN map', disk'[map'[v]] # v
                 PROVE  disk'[map'[v]] = NoName /\ \E q \in Proc : Awaits(st'[q], v)
      BY DEF NamesFiled
    <2>1. /\ disk'[map'[v]] = NoName
          /\ Awaits(y, v) \/ \E q \in Proc \ {p} : Awaits(st[q], v)
      OBVIOUS
    <2>2. CASE Awaits(y, v)
      BY <2>1, <2>2
    <2>3. CASE \E q \in Proc \ {p} : Awaits(st[q], v)
      BY <2>1, <2>3
    <2> QED BY <2>1, <2>2, <2>3
  <1>4. CarriedLoose'
    <2> SUFFICES ASSUME NEW q \in Proc, NEW k \in OSFN, NEW v \in Name, Carries(st'[q], k, v)
                 PROVE  /\ disk'[k] = v /\ k \notin Range(map')
                        /\ \A r \in Proc \ {q} : ~Carries(st'[r], k, v)
      BY DEF CarriedLoose
    <2>1. CASE q = p
      BY <2>1 DEF Range
    <2>2. CASE q # p
      BY <2>2 DEF Range
    <2> QED BY <2>1, <2>2
  <1>5. \A q \in Proc : Knows(st[q])' /\ Placed(st[q])'
    <2>1. Placed(st[p])'
      BY DEF Placed
    <2> QED BY <2>1
  <1> QED BY <1>1, <1>2, <1>3, <1>4, <1>5 DEF Files

\* zfdele: the file of the pair goes, and then the pair itself.
LEMMA UnlinkFiles ==
  ASSUME TypeInv, TypeInv', Lock!Exclusion, Files, Unharmed, NEW p \in Proc, Unlink(p)
  PROVE  Files'
  <1>1. /\ st[p] \in State /\ st \in [Proc -> Work] /\ Placed(st[p]) /\ Knows(st[p])
        /\ st[p].at = "unlink" /\ st[p].op = "delete" /\ st[p].ok = "ok" /\ map' = map
    BY DEF Files, TypeInv, Work, Unlink, At, Placed, Closing
  <1>2. CASE Abandon(p, "error") /\ disk' = disk
    BY <1>1, <1>2, AbandonKeeps
  <1>3. CASE disk[st[p].osfn] # NoName /\ disk' = [disk EXCEPT ![st[p].osfn] = NoName]
             /\ Goto(p, "again")
    <2>1. PICK x, y, j : x = st[p] /\ y = st'[p] /\ j = x.osfn
      OBVIOUS
    <2>2. /\ y.at = "again" /\ y.op = x.op /\ y.after = x.after /\ y.v = x.v /\ y.w = x.w
          /\ y.old = x.old /\ y.ok = x.ok
          /\ y.osfn = x.osfn /\ y.mem = x.mem /\ y.added = x.added
          /\ \A q \in Proc \ {p} : st'[q] = st[q]
      BY <1>1, <1>3, <2>1 DEF Goto, State
    <2>3. x.v \in DOMAIN map /\ map[x.v] = j /\ x.v \notin DOMAIN x.mem /\ j \in OSFN
      BY <1>1, <2>1 DEF Knows, Removes, State
    <2>4. disk'[j] = NoName /\ \A k \in OSFN : k # j => disk'[k] = disk[k]
      BY <1>3, <2>1, <2>3 DEF TypeInv, Globals
    <2>5. Knows(y)'
      BY <1>1, <2>1, <2>2, <2>3, <2>4 DEF Knows, Adds, Removes
    <2>6. Placed(y)
      BY <1>1, <2>1, <2>2 DEF Placed, Opening, Closing
    <2>7. \A k, v : Carries(y, k, v) <=> Carries(x, k, v)
      BY <1>1, <2>1, <2>2 DEF Carries, Moved, Closing
    <2>8. Awaits(y, x.v) /\ \A v : ~Awaits(x, v)
      BY <1>1, <2>1, <2>2 DEF Awaits, Closing
    <2>9. \A q \in Proc \ {p} : st'[q] = st[q] /\ Knows(st[q])' /\ Placed(st[q])'
      BY <1>1, <2>2, OthersOut, LockedPlaces
    <2>10. ASSUME NEW k \in OSFN, disk'[k] # NoName
           PROVE  \/ disk'[k] \in DOMAIN map' /\ map'[disk'[k]] = k
                  \/ Carries(y, k, disk'[k])
                  \/ \E q \in Proc \ {p} : Carries(st[q], k, disk'[k])
      <3>1. disk'[k] = disk[k]
        BY <2>4, <2>10
      <3>2. CASE disk[k] \in DOMAIN map /\ map[disk[k]] = k
        BY <1>1, <3>1, <3>2
      <3>3. CASE \E q \in Proc : Carries(st[q], k, disk[k])
        BY <2>1, <2>7, <3>1, <3>3
      <3> QED BY <2>10, <3>1, <3>2, <3>3 DEF Files, FilesNamed
    <2>11. ASSUME NEW v \in DOMAIN map', disk'[map'[v]] # v
           PROVE  /\ disk'[map'[v]] = NoName
                  /\ Awaits(y, v) \/ \E q \in Proc \ {p} : Awaits(st[q], v)
      <3>1. CASE v = x.v
        BY <1>1, <2>3, <2>4, <2>8, <3>1
      <3>2. CASE v # x.v
        <4>1. map[v] # j /\ map[v] \in OSFN
          BY <1>1, <2>3, <3>2, MemValue DEF Files, PairsDiffer, TypeInv, Globals
        <4>2. disk'[map[v]] = disk[map[v]]
          BY <2>4, <4>1
        <4>3. disk[map[v]] = NoName /\ \E q \in Proc : Awaits(st[q], v)
          BY <1>1, <2>11, <4>2 DEF Files, NamesFiled
        <4> QED BY <1>1, <2>1, <2>8, <4>2, <4>3
      <3> QED BY <3>1, <3>2
    <2>12. ASSUME NEW q \in Proc, NEW k \in OSFN, NEW v \in Name, Carries(st[q], k, v)
           PROVE  /\ disk'[k] = v /\ \A u \in DOMAIN map' : map'[u] # k
                  /\ \A r \in Proc \ {q} : ~Carries(st[r], k, v)
      <3>1. /\ disk[k] = v /\ \A u \in DOMAIN map : map[u] # k
            /\ \A r \in Proc \ {q} : ~Carries(st[r], k, v)
        BY <2>12, CarriedIs
      <3> QED BY <1>1, <2>3, <2>4, <3>1
    <2>13. \A k \in OSFN, v \in Name : Carries(y, k, v) =>
             /\ disk'[k] = v /\ \A u \in DOMAIN map' : map'[u] # k
             /\ \A q \in Proc \ {p} : ~Carries(st[q], k, v)
      BY <2>1, <2>7, <2>12
    <2>14. \A q \in Proc \ {p}, k \in OSFN, v \in Name : Carries(st[q], k, v) =>
             /\ disk'[k] = v /\ \A u \in DOMAIN map' : map'[u] # k
             /\ ~Carries(y, k, v)
             /\ \A r \in Proc \ {p, q} : ~Carries(st[r], k, v)
      BY <2>1, <2>7, <2>12
    <2>15. \A u, v \in DOMAIN map' : map'[u] = map'[v] => u = v
      BY <1>1 DEF Files, PairsDiffer
    <2>16. Knows(st[p])' /\ y = st'[p]
      BY <2>1, <2>5 DEF Knows, Adds, Removes
    <2> QED BY <2>6, <2>9, <2>10, <2>11, <2>13, <2>14, <2>15, <2>16, FilesAfter
  <1> QED BY <1>2, <1>3 DEF Unlink

\* zfaloc: the file is there, and its pair if the VFN had one; otherwise the
\* process is to add it.
LEMMA CreateFiles ==
  ASSUME TypeInv, TypeInv', Lock!Exclusion, Files, Unharmed, NEW p \in Proc, Create(p)
  PROVE  Files'
  <1>1. /\ st[p] \in State /\ st[p] \in Work /\ st \in [Proc -> Work]
        /\ Placed(st[p]) /\ Knows(st[p])
        /\ st[p].at = "create" /\ st[p].op = "alloc" /\ st[p].ok = "ok" /\ map' = map
    BY DEF Files, TypeInv, Work, Create, At, Placed, Closing
  <1>2. CASE Abandon(p, "error") /\ disk' = disk
    BY <1>1, <1>2, AbandonKeeps
  <1>3. CASE disk' = [disk EXCEPT ![st[p].osfn] = st[p].v] /\ Goto(p, "commit")
    <2>1. PICK x, y, j : x = st[p] /\ y = st'[p] /\ j = x.osfn
      OBVIOUS
    <2>2. /\ y.at = "commit" /\ y.op = x.op /\ y.after = x.after /\ y.v = x.v /\ y.w = x.w
          /\ y.old = x.old /\ y.ok = x.ok
          /\ y.osfn = x.osfn /\ y.mem = x.mem /\ y.added = x.added
          /\ \A q \in Proc \ {p} : st'[q] = st[q]
      BY <1>1, <1>3, <2>1 DEF Goto, State
    <2>3. /\ j \in OSFN /\ x.v \in Name /\ x.added \in BOOLEAN
          /\ x.v \in DOMAIN x.mem /\ x.mem[x.v] = j
          /\ ~x.added => x.v \in DOMAIN map /\ map[x.v] = j
          /\ x.added => x.v \notin DOMAIN map /\ disk[j] = NoName /\ j \notin Range(map)
      BY <1>1, <2>1 DEF Knows, Adds, State, Work
    <2>4. disk'[j] = x.v /\ \A k \in OSFN : k # j => disk'[k] = disk[k]
      BY <1>3, <2>1, <2>3 DEF TypeInv, Globals
    <2>5. Knows(y)'
      BY <1>1, <2>1, <2>2, <2>3 DEF Knows, Adds, Removes
    <2>6. Placed(y)
      BY <1>1, <2>1, <2>2 DEF Placed, Opening, Closing
    <2>7. \A k, v : Carries(y, k, v) <=> x.added /\ k = j /\ v = x.v
      BY <1>1, <2>1, <2>2 DEF Carries
    <2>8. (\A k, v : ~Carries(x, k, v)) /\ \A v : ~Awaits(x, v)
      BY <1>1, <2>1 DEF Carries, Awaits
    <2>9. \A q \in Proc \ {p} : st'[q] = st[q] /\ Knows(st[q])' /\ Placed(st[q])'
      BY <1>1, <2>2, OthersOut, LockedPlaces
    <2>10. ASSUME NEW k \in OSFN, disk'[k] # NoName
           PROVE  \/ disk'[k] \in DOMAIN map' /\ map'[disk'[k]] = k
                  \/ Carries(y, k, disk'[k])
                  \/ \E q \in Proc \ {p} : Carries(st[q], k, disk'[k])
      <3>1. CASE k = j
        BY <1>1, <2>3, <2>4, <2>7, <3>1
      <3>2. CASE k # j
        <4>1. disk'[k] = disk[k]
          BY <2>4, <3>2
        <4>2. CASE disk[k] \in DOMAIN map /\ map[disk[k]] = k
          BY <1>1, <4>1, <4>2
        <4>3. CASE \E q \in Proc : Carries(st[q], k, disk[k])
          BY <2>1, <2>8, <4>1, <4>3
        <4> QED BY <2>10, <4>1, <4>2, <4>3 DEF Files, FilesNamed
      <3> QED BY <3>1, <3>2
    <2>11. ASSUME NEW v \in DOMAIN map', disk'[map'[v]] # v
           PROVE  /\ disk'[map'[v]] = NoName
                  /\ Awaits(y, v) \/ \E q \in Proc \ {p} : Awaits(st[q], v)
      <3>1. map[v] # j /\ map[v] \in OSFN
        <4>1. map[v] \in OSFN
          BY <1>1, MemValue DEF TypeInv, Globals
        <4>2. CASE x.added
          BY <1>1, <2>3, <4>1, <4>2 DEF Range
        <4>3. CASE ~x.added
          BY <1>1, <2>3, <2>4, <2>11, <4>1, <4>3 DEF Files, PairsDiffer
        <4> QED BY <4>1, <4>2, <4>3
      <3>2. disk'[map[v]] = disk[map[v]]
        BY <2>4, <3>1
      <3>3. disk[map[v]] = NoName /\ \E q \in Proc : Awaits(st[q], v)
        BY <1>1, <2>11, <3>2 DEF Files, NamesFiled
      <3> QED BY <1>1, <2>1, <2>8, <3>2, <3>3
    <2>12. ASSUME NEW q \in Proc, NEW k \in OSFN, NEW v \in Name, Carries(st[q], k, v)
           PROVE  /\ disk'[k] = v /\ (\A u \in DOMAIN map' : map'[u] # k) /\ k # j
                  /\ \A r \in Proc \ {q} : ~Carries(st[r], k, v)
      <3>1. /\ disk[k] = v /\ disk[k] # NoName /\ \A u \in DOMAIN map : map[u] # k
            /\ \A r \in Proc \ {q} : ~Carries(st[r], k, v)
        BY <2>12, CarriedIs
      <3> QED BY <1>1, <2>3, <2>4, <3>1
    <2>13. ASSUME NEW k \in OSFN, NEW v \in Name, Carries(y, k, v)
           PROVE  /\ disk'[k] = v /\ \A u \in DOMAIN map' : map'[u] # k
                  /\ \A q \in Proc \ {p} : ~Carries(st[q], k, v)
      BY <1>1, <2>3, <2>4, <2>7, <2>12, <2>13 DEF Range
    <2>14. \A q \in Proc \ {p}, k \in OSFN, v \in Name : Carries(st[q], k, v) =>
             /\ disk'[k] = v /\ \A u \in DOMAIN map' : map'[u] # k
             /\ ~Carries(y, k, v)
             /\ \A r \in Proc \ {p, q} : ~Carries(st[r], k, v)
      BY <2>7, <2>12
    <2>15. \A u, v \in DOMAIN map' : map'[u] = map'[v] => u = v
      BY <1>1 DEF Files, PairsDiffer
    <2>16. Knows(st[p])' /\ y = st'[p]
      BY <2>1, <2>5 DEF Knows, Adds, Removes
    <2> QED BY <2>6, <2>9, <2>10, <2>11, <2>13, <2>14, <2>15, <2>16, FilesAfter
  <1> QED BY <1>2, <1>3 DEF Create

\* zfrnam: the file has its new name, and the process is to add the pair of it.
LEMMA MoveFiles ==
  ASSUME TypeInv, TypeInv', Lock!Exclusion, Files, Unharmed, NEW p \in Proc, Move(p)
  PROVE  Files'
  <1>1. /\ st[p] \in State /\ st[p] \in Work /\ st \in [Proc -> Work]
        /\ Placed(st[p]) /\ Knows(st[p]) /\ st[p].at = "move" /\ st[p].op = "rename2"
        /\ st[p].added /\ st[p].ok = "ok" /\ map' = map
    BY DEF Files, TypeInv, Work, Move, At, Placed, Closing
  <1>2. CASE Abandon(p, "err") /\ disk' = disk
    BY <1>1, <1>2, AbandonKeeps
  <1>3. CASE disk' = [disk EXCEPT ![st[p].old] = NoName, ![st[p].osfn] = st[p].v]
             /\ Goto(p, "commit")
    <2>1. PICK x, y, i, j : x = st[p] /\ y = st'[p] /\ i = x.old /\ j = x.osfn
      OBVIOUS
    <2>2. /\ y.at = "commit" /\ y.op = x.op /\ y.after = x.after /\ y.v = x.v /\ y.w = x.w
          /\ y.old = x.old /\ y.ok = x.ok
          /\ y.osfn = x.osfn /\ y.mem = x.mem /\ y.added = x.added
          /\ \A q \in Proc \ {p} : st'[q] = st[q]
      BY <1>1, <1>3, <2>1 DEF Goto, State
    <2>3. /\ j \in OSFN /\ i \in OSFN /\ x.v \in Name /\ x.w \in Name
          /\ x.v \notin DOMAIN map /\ x.v \in DOMAIN x.mem /\ x.mem[x.v] = j
          /\ disk[j] = NoName /\ j \notin Range(map)
      BY <1>1, <2>1 DEF Knows, Adds, State, Work
    <2>4. \A k, v : Carries(x, k, v) <=> k = i /\ v = x.w
      BY <1>1, <2>1 DEF Carries, Moved, Closing
    <2>5. /\ disk[i] = x.w /\ i # j /\ \A u \in DOMAIN map : map[u] # i
          /\ \A q \in Proc \ {p} : ~Carries(st[q], i, x.w)
      BY <2>1, <2>3, <2>4, CarriedIs
    <2>6. /\ disk'[j] = x.v /\ disk'[i] = NoName
          /\ \A k \in OSFN \ {i, j} : disk'[k] = disk[k]
      BY <1>3, <2>1, <2>3, <2>5 DEF TypeInv, Globals
    <2>7. Knows(y)'
      BY <1>1, <2>1, <2>2, <2>3 DEF Knows, Adds, Removes
    <2>8. Placed(y)
      BY <1>1, <2>1, <2>2 DEF Placed, Opening, Closing
    <2>9. \A k, v : Carries(y, k, v) <=> k = j /\ v = x.v
      BY <1>1, <2>1, <2>2 DEF Carries, Moved, Closing
    <2>10. \A v : ~Awaits(x, v)
      BY <1>1, <2>1 DEF Awaits
    <2>11. \A q \in Proc \ {p} : st'[q] = st[q] /\ Knows(st[q])' /\ Placed(st[q])'
      BY <1>1, <2>2, OthersOut, LockedPlaces
    <2>12. ASSUME NEW k \in OSFN, disk'[k] # NoName
           PROVE  \/ disk'[k] \in DOMAIN map' /\ map'[disk'[k]] = k
                  \/ Carries(y, k, disk'[k])
                  \/ \E q \in Proc \ {p} : Carries(st[q], k, disk'[k])
      <3>1. CASE k = j
        BY <2>6, <2>9, <3>1
      <3>2. CASE k # j
        <4>1. disk'[k] = disk[k] /\ k # i
          BY <2>6, <2>12, <3>2
        <4>2. CASE disk[k] \in DOMAIN map /\ map[disk[k]] = k
          BY <1>1, <4>1, <4>2
        <4>3. CASE \E q \in Proc : Carries(st[q], k, disk[k])
          BY <2>1, <2>4, <4>1, <4>3
        <4> QED BY <2>12, <4>1, <4>2, <4>3 DEF Files, FilesNamed
      <3> QED BY <3>1, <3>2
    <2>13. ASSUME NEW v \in DOMAIN map', disk'[map'[v]] # v
           PROVE  /\ disk'[map'[v]] = NoName
                  /\ Awaits(y, v) \/ \E q \in Proc \ {p} : Awaits(st[q], v)
      <3>1. map[v] \in OSFN \ {i, j}
        <4>1. map[v] \in OSFN
          BY <1>1, MemValue DEF TypeInv, Globals
        <4> QED BY <1>1, <2>3, <2>5, <4>1 DEF Range
      <3>2. disk'[map[v]] = disk[map[v]]
        BY <2>6, <3>1
      <3>3. disk[map[v]] = NoName /\ \E q \in Proc : Awaits(st[q], v)
        BY <1>1, <2>13, <3>2 DEF Files, NamesFiled
      <3> QED BY <1>1, <2>1, <2>10, <3>2, <3>3
    <2>14. ASSUME NEW q \in Proc \ {p}, NEW k \in OSFN, NEW v \in Name, Carries(st[q], k, v)
           PROVE  /\ disk'[k] = v /\ (\A u \in DOMAIN map' : map'[u] # k) /\ k # j
                  /\ \A r \in Proc \ {q} : ~Carries(st[r], k, v)
      <3>1. /\ disk[k] = v /\ disk[k] # NoName /\ \A u \in DOMAIN map : map[u] # k
            /\ \A r \in Proc \ {q} : ~Carries(st[r], k, v)
        BY <2>14, CarriedIs
      <3>2. k # i
        BY <2>5, <2>14, <3>1
      <3> QED BY <1>1, <2>3, <2>6, <3>1, <3>2
    <2>15. ASSUME NEW k \in OSFN, NEW v \in Name, Carries(y, k, v)
           PROVE  /\ disk'[k] = v /\ \A u \in DOMAIN map' : map'[u] # k
                  /\ \A q \in Proc \ {p} : ~Carries(st[q], k, v)
      BY <1>1, <2>3, <2>6, <2>9, <2>14, <2>15 DEF Range
    <2>16. \A q \in Proc \ {p}, k \in OSFN, v \in Name : Carries(st[q], k, v) =>
             /\ disk'[k] = v /\ \A u \in DOMAIN map' : map'[u] # k
             /\ ~Carries(y, k, v)
             /\ \A r \in Proc \ {p, q} : ~Carries(st[r], k, v)
      BY <2>9, <2>14
    <2>17. \A u, v \in DOMAIN map' : map'[u] = map'[v] => u = v
      BY <1>1 DEF Files, PairsDiffer
    <2>18. Knows(st[p])' /\ y = st'[p]
      BY <2>1, <2>7 DEF Knows, Adds, Removes
    <2> QED BY <2>8, <2>11, <2>12, <2>13, <2>15, <2>16, <2>17, <2>18, FilesAfter
  <1> QED BY <1>2, <1>3 DEF Move

\* filopn makes the file of the pair that it has added, when nobody is at work
\* on that pair.
LEMMA ZOpenFiles ==
  ASSUME TypeInv, TypeInv', Files, Unharmed, Unharmed', NEW p \in Proc, ZOpen(p)
  PROVE  Files'
  <1>1. /\ st[p] \in State /\ st[p] \in Work /\ st \in [Proc -> Work]
        /\ Placed(st[p]) /\ st[p].at = "zopen" /\ st[p].op = "open" /\ map' = map
    BY DEF Files, TypeInv, Work, ZOpen, At, Placed
  <1>2. /\ disk' = [disk EXCEPT ![st[p].osfn] = st[p].v] /\ Entry(st[p].v) = st[p].osfn
        /\ ~\E q \in Holders : st[q].v = st[p].v
    BY DEF ZOpen, Flawed, FlawedIf, Unharmed
  <1>3. PICK x, y, j : x = st[p] /\ y = st'[p] /\ j = x.osfn
    OBVIOUS
  <1>4. y = Idle /\ \A q \in Proc \ {p} : st'[q] = st[q]
    BY <1>3, GoesTo DEF ZOpen
  <1>5. j \in OSFN /\ x.v \in Name /\ x.v \in DOMAIN map /\ map[x.v] = j
    <2>1. j \in OSFN /\ x.v \in Name
      BY <1>1, <1>3 DEF State, Work
    <2> QED BY <1>2, <1>3, <2>1, MapAssumption DEF Entry
  <1>6. disk'[j] = x.v /\ \A k \in OSFN : k # j => disk'[k] = disk[k]
    BY <1>2, <1>3, <1>5 DEF TypeInv, Globals
  <1>7. y.at = "idle" /\ y.op = "none" /\ Placed(y)
    BY <1>4, IdlePlaced DEF Idle
  <1>8. /\ \A k, v : ~Carries(y, k, v) /\ ~Carries(x, k, v)
        /\ \A v : Awaits(x, v) => v = x.v
    BY <1>1, <1>3, <1>7 DEF Carries, Awaits
  <1>9. ASSUME NEW q \in Proc \ {p}
        PROVE  Knows(st[q])' /\ Placed(st[q])'
    <2>1. PICK z, i : z = st[q] /\ i = z.osfn
      OBVIOUS
    <2>2. Knows(z) /\ Placed(z) /\ z \in State /\ i \in OSFN
      BY <2>1 DEF Files, TypeInv, Work, State
    <2>3. z.at \in Locked => z.v # x.v
      BY <1>2, <1>3, <2>1 DEF Holders, At
    <2>4. Removes(z) => i # j
      <3> SUFFICES ASSUME Removes(z), i = j
                   PROVE  FALSE
        OBVIOUS
      <3>1. z.v \in DOMAIN map /\ map[z.v] = j
        BY <2>1, <2>2 DEF Knows
      <3>2. z.v = x.v
        BY <1>5, <3>1 DEF Files, PairsDiffer
      <3> QED BY <2>3, <3>2, LockedPlaces DEF Removes
    <2>5. Adds(z) /\ z.added => i # j
      BY <1>5, <2>1, <2>2 DEF Knows, Range
    <2>6. Removes(z) \/ (Adds(z) /\ z.added) => disk'[z.osfn] = disk[z.osfn]
      BY <1>6, <2>1, <2>2, <2>4, <2>5
    <2>7. Knows(z)'
      BY <1>1, <2>2, <2>6 DEF Knows, Adds, Removes
    <2>8. Knows(st[q])'
      BY <1>4, <2>1, <2>7 DEF Knows, Adds, Removes
    <2>9. Placed(st[q])'
      BY <1>4, <2>1, <2>2 DEF Placed
    <2> QED BY <2>8, <2>9
  <1>10. Knows(st[p])'
    <2>1. Knows(y)'
      BY <1>7 DEF Knows, Adds, Removes
    <2> QED BY <1>3, <2>1 DEF Knows, Adds, Removes
  <1>11. ASSUME NEW k \in OSFN, disk'[k] # NoName
         PROVE  \/ disk'[k] \in DOMAIN map' /\ map'[disk'[k]] = k
                \/ Carries(y, k, disk'[k])
                \/ \E q \in Proc \ {p} : Carries(st[q], k, disk'[k])
    <2>1. CASE k = j
      BY <1>1, <1>5, <1>6, <2>1
    <2>2. CASE k # j
      <3>1. disk'[k] = disk[k]
        BY <1>6, <2>2
      <3>2. CASE disk[k] \in DOMAIN map /\ map[disk[k]] = k
        BY <1>1, <3>1, <3>2
      <3>3. CASE \E q \in Proc : Carries(st[q], k, disk[k])
        BY <1>3, <1>8, <3>1, <3>3
      <3> QED BY <1>11, <3>1, <3>2, <3>3 DEF Files, FilesNamed
    <2> QED BY <2>1, <2>2
  <1>12. ASSUME NEW v \in DOMAIN map', disk'[map'[v]] # v
         PROVE  /\ disk'[map'[v]] = NoName
                /\ Awaits(y, v) \/ \E q \in Proc \ {p} : Awaits(st[q], v)
    <2>1. v # x.v /\ v \in DOMAIN map
      BY <1>1, <1>5, <1>6, <1>12
    <2>2. map[v] \in OSFN /\ map[v] # j
      BY <1>5, <2>1, MemValue DEF Files, PairsDiffer, TypeInv, Globals
    <2>3. disk'[map[v]] = disk[map[v]]
      BY <1>6, <2>2
    <2>4. disk[map[v]] = NoName /\ \E q \in Proc : Awaits(st[q], v)
      BY <1>1, <1>12, <2>1, <2>3 DEF Files, NamesFiled
    <2> QED BY <1>1, <1>3, <1>8, <2>1, <2>3, <2>4
  <1>13. ASSUME NEW q \in Proc \ {p}, NEW k \in OSFN, NEW v \in Name, Carries(st[q], k, v)
         PROVE  /\ disk'[k] = v /\ \A u \in DOMAIN map' : map'[u] # k
                /\ \A r \in Proc \ {q} : ~Carries(st[r], k, v)
    <2>1. /\ disk[k] = v /\ \A u \in DOMAIN map : map[u] # k
          /\ \A r \in Proc \ {q} : ~Carries(st[r], k, v)
      BY <1>13, CarriedIs
    <2> QED BY <1>1, <1>5, <1>6, <2>1
  <1>14. \A q \in Proc \ {p}, k \in OSFN, v \in Name : Carries(st[q], k, v) =>
           /\ disk'[k] = v /\ \A u \in DOMAIN map' : map'[u] # k
           /\ ~Carries(y, k, v)
           /\ \A r \in Proc \ {p, q} : ~Carries(st[r], k, v)
    BY <1>8, <1>13
  <1>15. \A u, v \in DOMAIN map' : map'[u] = map'[v] => u = v
    BY <1>1 DEF Files, PairsDiffer
  <1>16. \A k \in OSFN, v \in Name : Carries(y, k, v) =>
           /\ disk'[k] = v /\ \A u \in DOMAIN map' : map'[u] # k
           /\ \A q \in Proc \ {p} : ~Carries(st[q], k, v)
    BY <1>8
  <1>17. \A q \in Proc \ {p} : st'[q] = st[q] /\ Knows(st[q])' /\ Placed(st[q])'
    BY <1>4, <1>9
  <1>18. y = st'[p]
    BY <1>3
  <1> QED BY <1>7, <1>10, <1>11, <1>12, <1>14, <1>15, <1>16, <1>17, <1>18, FilesAfter

\* vfnclose writes what it has read.
LEMMA NoUpdateFiles ==
  ASSUME TypeInv, PairInv, Files, Unharmed, Unharmed', NEW p \in Proc, Commit(p),
         ~st[p].added, st[p].op \notin {"delete", "rename1"}
  PROVE  Files'
  <1>1. /\ st[p] \in State /\ st \in [Proc -> Work] /\ Placed(st[p]) /\ Knows(st[p])
        /\ st[p].at = "commit" /\ disk' = disk
    BY DEF Files, TypeInv, Work, Commit, At
  <1>2. PICK x, y : x = st[p] /\ y = st'[p]
    OBVIOUS
  <1>3. x.op \in {"open", "alloc"} /\ x.ok = "ok"
    BY <1>1, <1>2 DEF Placed, State, Closing, Opening
  <1>9. map' = map
    <2>1. map' = x.mem /\ x.mem \in Mem /\ map \in Mem
      BY <1>1, <1>2 DEF Commit, Unharmed, State, TypeInv, Globals
    <2>2. \A u \in Name \ {x.v} : Same(x.mem, map, u)
      BY <1>1, <1>2 DEF PairInv, HasRead, Agrees, Unharmed
    <2>3. /\ x.v \in DOMAIN map /\ map[x.v] = x.osfn
          /\ x.v \in DOMAIN x.mem /\ x.mem[x.v] = x.osfn
      BY <1>1, <1>2 DEF Knows, Adds
    <2>4. DOMAIN map \subseteq Name /\ DOMAIN x.mem \subseteq Name
      BY <2>1, MemValue
    <2>5. DOMAIN x.mem = DOMAIN map /\ \A u \in DOMAIN map : x.mem[u] = map[u]
      BY <2>2, <2>3, <2>4 DEF Same
    <2>6. ASSUME NEW m \in Mem
          PROVE  m = [u \in DOMAIN m |-> m[u]]
      <3>1. PICK V \in SUBSET Name : m \in [V -> OSFN]
        BY <2>6 DEF Mem, Mappings
      <3> QED BY <3>1
    <2>7. /\ map = [u \in DOMAIN map |-> map[u]]
          /\ x.mem = [u \in DOMAIN x.mem |-> x.mem[u]]
      BY <2>1, <2>6
    <2> QED BY <2>1, <2>5, <2>7
  <1>4. /\ y.at = "close" /\ y.op = x.op /\ y.v = x.v /\ y.ok = x.ok
        /\ \A q \in Proc \ {p} : st'[q] = st[q]
    BY <1>1, <1>2 DEF Commit, Goto, State
  <1>5. Knows(y) /\ Placed(y)
    BY <1>3, <1>4 DEF Knows, Adds, Removes, Placed, Opening, Closing
  <1>6. \A k, v : ~Carries(x, k, v) /\ ~Carries(y, k, v)
    BY <1>2, <1>3, <1>4 DEF Carries
  <1>7. \A v : ~Awaits(x, v)
    BY <1>1, <1>2, <1>3 DEF Awaits, Closing
  <1>8. Keeps(x, y)
    BY <1>5, <1>6, <1>7 DEF Keeps
  <1> QED BY <1>1, <1>2, <1>4, <1>8, <1>9, OneKeeps

\* vfnopen or vfnclose fails where that does no harm.
LEMMA FailFiles ==
  ASSUME TypeInv, Files, Unharmed', NEW p \in Proc, Fails(p)
  PROVE  Files'
  <1>1. PICK x, y : x = st[p] /\ y = st'[p]
    OBVIOUS
  <1>2. /\ x \in State /\ Placed(x) /\ Fail(p) /\ x.at \in {"make", "commit", "close"}
        /\ x.at = "make" => x.op \notin {"rename2", "rename3"}
        /\ x.at = "commit" => /\ x.op \notin {"delete", "rename2", "rename3"}
                              /\ x.op = "alloc" => ~x.added
        /\ x.at = "close" => /\ x.op \in {"open", "rename1"} => x.ok # "ok"
                             /\ x.op = "rename2" => x.ok # "err"
    BY <1>1 DEF Files, TypeInv, Work, Fails, MakeFails, WriteFails, CloseFails, LeakLock,
                At, Flawed, FlawedIf, Unharmed, Within
  <1>3. UNCHANGED <<map, disk>> /\ \A q \in Proc \ {p} : st'[q] = st[q]
    BY FailStep
  <1>4. \A v : ~Awaits(x, v)
    BY <1>2 DEF Awaits, Closing
  <1>5. CASE x.op = "delete" /\ x.after = "rename2"
    <2>1. y = Undelete(p)
      BY <1>1, <1>2, <1>5, GoesTo DEF Fail, Within
    <2>2. Placed(y) /\ y.at = "find" /\ \A k, v : Owes(y, k, v) <=> k = x.old /\ v = x.w
      BY <1>1, <1>5, <2>1, UndeleteKeeps
    <2>3. \A k, v : Carries(x, k, v) <=> k = x.old /\ v = x.w
      BY <1>2, <1>5 DEF Carries, Moved
    <2>4. (\A k, v : Carries(y, k, v) <=> Owes(y, k, v)) /\ Knows(y)
      <3>1. \A k, v : Carries(y, k, v) <=> Owes(y, k, v)
        BY <2>2, OwesUntilMoved DEF Closing
      <3> QED BY <2>2, <3>1 DEF Knows, Adds, Removes
    <2>5. Keeps(x, y)
      BY <1>4, <2>2, <2>3, <2>4 DEF Keeps
    <2> QED BY <1>1, <1>3, <2>5, OneKeeps
  <1>6. CASE ~(x.op = "delete" /\ x.after = "rename2")
    <2>1. y = Idle
      BY <1>1, <1>2, <1>6, GoesTo DEF Fail, Within
    <2>2. y.at = "idle" /\ y.op = "none" /\ Placed(y)
      BY <2>1, IdlePlaced DEF Idle
    <2>3. \A k, v : ~Carries(y, k, v)
      BY <2>2 DEF Carries
    <2>4. \A k, v : ~Carries(x, k, v)
      BY <1>2, <1>6 DEF Carries, Moved, Placed, Closing, Opening, State
    <2>5. Knows(y)
      BY <2>2 DEF Knows, Adds, Removes
    <2>6. Keeps(x, y)
      BY <1>4, <2>2, <2>3, <2>4, <2>5 DEF Keeps
    <2> QED BY <1>1, <1>3, <2>6, OneKeeps
  <1> QED BY <1>5, <1>6

\* The mapping file after vfnclose has removed or added a pair.
LEMMA UpdateIs ==
  ASSUME TypeInv, PairInv, Files, Unharmed, Unharmed', NEW p \in Proc, Commit(p),
         st[p].added \/ st[p].op \in {"delete", "rename1"}
  PROVE  /\ st[p].at = "commit" /\ disk' = disk /\ Knows(st[p]) /\ Placed(st[p])
         /\ st[p] \in State /\ st[p] \in Work /\ st[p].osfn \in OSFN /\ st[p].v \in Name
         /\ st'[p].at = "close" /\ st'[p].op = st[p].op /\ st'[p].after = st[p].after
         /\ st'[p].v = st[p].v /\ st'[p].w = st[p].w /\ st'[p].old = st[p].old
         /\ st'[p].osfn = st[p].osfn /\ st'[p].ok = "ok"
         /\ \A q \in Proc \ {p} : st'[q] = st[q]
         /\ st[p].op \in {"delete", "rename1"} =>
              /\ DOMAIN map' = DOMAIN map \ {st[p].v}
              /\ \A u \in DOMAIN map' : map'[u] = map[u]
         /\ st[p].op \notin {"delete", "rename1"} =>
              /\ DOMAIN map' = DOMAIN map \cup {st[p].v}
              /\ map'[st[p].v] = st[p].osfn
              /\ \A u \in DOMAIN map : map'[u] = map[u]
  <1>1. /\ st[p] \in State /\ st[p] \in Work /\ st \in [Proc -> Work]
        /\ Placed(st[p]) /\ Knows(st[p]) /\ st[p].at = "commit" /\ disk' = disk
    BY DEF Files, TypeInv, Work, Commit, At
  <1>2. PICK x, y : x = st[p] /\ y = st'[p]
    OBVIOUS
  <1>3. map' = x.mem
    BY <1>2 DEF Commit, Unharmed
  <1>4. /\ y.at = "close" /\ y.op = x.op /\ y.after = x.after /\ y.v = x.v /\ y.w = x.w
        /\ y.old = x.old /\ y.osfn = x.osfn /\ y.ok = x.ok
        /\ \A q \in Proc \ {p} : st'[q] = st[q]
    BY <1>1, <1>2 DEF Commit, Goto, State
  <1>5. x.ok = "ok"
    BY <1>1, <1>2 DEF Placed, Closing
  <1>6. \A u \in Name \ {x.v} : Same(x.mem, map, u)
    BY <1>1, <1>2 DEF PairInv, HasRead, Agrees, Unharmed
  <1>7. DOMAIN map \subseteq Name /\ DOMAIN x.mem \subseteq Name /\ x.v \in Name /\ x.osfn \in OSFN
    BY <1>1, <1>2, MemValue DEF TypeInv, Globals, Work, State
  <1>8. /\ DOMAIN x.mem \ {x.v} = DOMAIN map \ {x.v}
        /\ \A u \in DOMAIN map \ {x.v} : x.mem[u] = map[u]
    BY <1>6, <1>7 DEF Same
  <1>9. CASE x.op \in {"delete", "rename1"}
    <2>1. x.v \notin DOMAIN x.mem
      BY <1>1, <1>2, <1>9 DEF Knows, Removes
    <2>2. DOMAIN map' = DOMAIN map \ {x.v} /\ \A u \in DOMAIN map' : map'[u] = map[u]
      BY <1>3, <1>8, <2>1
    <2> QED BY <1>1, <1>2, <1>4, <1>5, <1>7, <1>9, <2>2
  <1>10. CASE x.op \notin {"delete", "rename1"}
    <2>1. x.v \notin DOMAIN map /\ x.v \in DOMAIN x.mem /\ x.mem[x.v] = x.osfn
      BY <1>1, <1>2, <1>10 DEF Knows, Adds
    <2>2. /\ DOMAIN map' = DOMAIN map \cup {x.v} /\ map'[x.v] = x.osfn
          /\ \A u \in DOMAIN map : map'[u] = map[u]
      BY <1>3, <1>8, <2>1
    <2> QED BY <1>1, <1>2, <1>4, <1>5, <1>7, <1>10, <2>2
  <1> QED BY <1>9, <1>10

LEMMA RemovalFiles ==
  ASSUME TypeInv, TypeInv', PairInv, Lock!Exclusion, Files, Unharmed, Unharmed',
         NEW p \in Proc, Commit(p), st[p].op \in {"delete", "rename1"}
  PROVE  Files'
  <1>1. PICK x, y, j : x = st[p] /\ y = st'[p] /\ j = x.osfn
    OBVIOUS
  <1>2. /\ x.at = "commit" /\ disk' = disk /\ Knows(x) /\ Placed(x) /\ j \in OSFN /\ x.v \in Name
        /\ y.at = "close" /\ y.op = x.op /\ y.after = x.after /\ y.v = x.v /\ y.w = x.w
        /\ y.old = x.old /\ y.osfn = j /\ y.ok = "ok"
        /\ \A q \in Proc \ {p} : st'[q] = st[q]
    BY <1>1, UpdateIs
  <1>3. /\ DOMAIN map' = DOMAIN map \ {x.v}
        /\ \A u \in DOMAIN map' : map'[u] = map[u]
    BY <1>1, UpdateIs
  <1>4. /\ x.v \in DOMAIN map /\ map[x.v] = j
        /\ x.op = "delete" => disk[j] = NoName
        /\ x.op = "rename1" => disk[j] = x.v
    BY <1>1, <1>2 DEF Knows, Removes
  <1>5. Placed(y) /\ Knows(st[p])'
    <2>1. Placed(y)
      BY <1>1, <1>2 DEF Placed, Opening, Closing
    <2>2. Knows(st[p])'
      BY <1>1, <1>2 DEF Knows, Adds, Removes
    <2> QED BY <2>1, <2>2
  <1>6. \A k, v : Carries(y, k, v) <=> \/ Carries(x, k, v)
                                       \/ x.op = "rename1" /\ k = j /\ v = x.v
    BY <1>1, <1>2 DEF Carries, Moved, Closing
  <1>7. \A v : Awaits(x, v) => v = x.v
    BY DEF Awaits
  <1>8. \A q \in Proc \ {p} : st'[q] = st[q] /\ Knows(st[q])' /\ Placed(st[q])'
    BY <1>1, <1>2, OthersOut, LockedPlaces
  <1>9. ASSUME NEW k \in OSFN, disk'[k] # NoName
        PROVE  \/ disk'[k] \in DOMAIN map' /\ map'[disk'[k]] = k
               \/ Carries(y, k, disk'[k])
               \/ \E q \in Proc \ {p} : Carries(st[q], k, disk'[k])
    <2>1. CASE disk[k] \in DOMAIN map /\ map[disk[k]] = k
      <3>1. CASE disk[k] = x.v
        <4>1. k = j
          BY <1>4, <2>1, <3>1
        <4>2. x.op = "rename1"
          BY <1>1, <1>2, <1>4, <1>9, <4>1
        <4> QED BY <1>2, <1>6, <3>1, <4>1, <4>2
      <3>2. CASE disk[k] # x.v
        BY <1>2, <1>3, <2>1, <3>2
      <3> QED BY <3>1, <3>2
    <2>2. CASE \E q \in Proc : Carries(st[q], k, disk[k])
      BY <1>1, <1>2, <1>6, <2>2
    <2> QED BY <1>2, <1>9, <2>1, <2>2 DEF Files, FilesNamed
  <1>10. ASSUME NEW v \in DOMAIN map', disk'[map'[v]] # v
         PROVE  /\ disk'[map'[v]] = NoName
                /\ Awaits(y, v) \/ \E q \in Proc \ {p} : Awaits(st[q], v)
    <2>1. v \in DOMAIN map /\ v # x.v /\ map'[v] = map[v]
      BY <1>3
    <2>2. disk[map[v]] = NoName /\ \E q \in Proc : Awaits(st[q], v)
      BY <1>2, <1>10, <2>1 DEF Files, NamesFiled
    <2> QED BY <1>1, <1>2, <1>7, <2>1, <2>2
  <1>11. ASSUME NEW q \in Proc, NEW k \in OSFN, NEW v \in Name, Carries(st[q], k, v)
         PROVE  /\ disk'[k] = v /\ (\A u \in DOMAIN map' : map'[u] # k) /\ k # j
                /\ \A r \in Proc \ {q} : ~Carries(st[r], k, v)
    <2>1. /\ disk[k] = v /\ \A u \in DOMAIN map : map[u] # k
          /\ \A r \in Proc \ {q} : ~Carries(st[r], k, v)
      BY <1>11, CarriedIs
    <2> QED BY <1>2, <1>3, <1>4, <2>1
  <1>12. ASSUME NEW k \in OSFN, NEW v \in Name, Carries(y, k, v)
         PROVE  /\ disk'[k] = v /\ \A u \in DOMAIN map' : map'[u] # k
                /\ \A q \in Proc \ {p} : ~Carries(st[q], k, v)
    <2>1. CASE Carries(x, k, v)
      BY <1>1, <1>11, <2>1
    <2>2. CASE x.op = "rename1" /\ k = j /\ v = x.v
      <3>1. \A u \in DOMAIN map' : map'[u] # j
        BY <1>3, <1>4 DEF Files, PairsDiffer
      <3>2. \A q \in Proc \ {p} : ~Carries(st[q], k, v)
        BY <1>11, <2>2
      <3> QED BY <1>2, <1>4, <2>2, <3>1, <3>2
    <2> QED BY <1>6, <1>12, <2>1, <2>2
  <1>13. \A q \in Proc \ {p}, k \in OSFN, v \in Name : Carries(st[q], k, v) =>
           /\ disk'[k] = v /\ \A u \in DOMAIN map' : map'[u] # k
           /\ ~Carries(y, k, v)
           /\ \A r \in Proc \ {p, q} : ~Carries(st[r], k, v)
    BY <1>1, <1>6, <1>11
  <1>14. \A u, v \in DOMAIN map' : map'[u] = map'[v] => u = v
    BY <1>3 DEF Files, PairsDiffer
  <1>15. y = st'[p]
    BY <1>1
  <1> QED BY <1>5, <1>8, <1>9, <1>10, <1>12, <1>13, <1>14, <1>15, FilesAfter

LEMMA AdditionFiles ==
  ASSUME TypeInv, TypeInv', PairInv, Lock!Exclusion, Files, Unharmed, Unharmed',
         NEW p \in Proc, Commit(p), st[p].added, st[p].op \notin {"delete", "rename1"}
  PROVE  Files'
  <1>1. PICK x, y, j : x = st[p] /\ y = st'[p] /\ j = x.osfn
    OBVIOUS
  <1>2. /\ x.at = "commit" /\ disk' = disk /\ Knows(x) /\ Placed(x) /\ j \in OSFN /\ x.v \in Name
        /\ y.at = "close" /\ y.op = x.op /\ y.after = x.after /\ y.v = x.v /\ y.w = x.w
        /\ y.old = x.old /\ y.osfn = j /\ y.ok = "ok" /\ x \in State
        /\ \A q \in Proc \ {p} : st'[q] = st[q]
    BY <1>1, UpdateIs
  <1>3. /\ DOMAIN map' = DOMAIN map \cup {x.v} /\ map'[x.v] = j
        /\ \A u \in DOMAIN map : map'[u] = map[u]
    BY <1>1, UpdateIs
  <1>4. /\ x.op \in {"open", "alloc", "rename2"}
        /\ x.v \notin DOMAIN map /\ \A u \in DOMAIN map : map[u] # j
        /\ x.op = "open" => disk[j] = NoName
    <2>1. x.op \in {"open", "alloc", "rename2"}
      BY <1>1, <1>2 DEF State, Placed, Opening
    <2>2. /\ x.v \notin DOMAIN map /\ j \notin Range(map)
          /\ x.op = "open" => disk[j] = NoName
      BY <1>1, <1>2, <2>1 DEF Knows, Adds
    <2> QED BY <2>1, <2>2 DEF Range
  <1>5. Placed(y) /\ Knows(st[p])'
    <2>1. Placed(y)
      BY <1>1, <1>2, <1>4 DEF Placed, Opening, Closing
    <2>2. Knows(st[p])'
      BY <1>1, <1>2 DEF Knows, Adds, Removes
    <2> QED BY <2>1, <2>2
  <1>6. /\ \A k, v : ~Carries(y, k, v)
        /\ \A k, v : Carries(x, k, v) <=> x.op # "open" /\ k = j /\ v = x.v
    BY <1>1, <1>2, <1>4 DEF Carries, Moved, Closing
  <1>7. (\A v : ~Awaits(x, v)) /\ (x.op = "open" => Awaits(y, x.v))
    BY <1>2, <1>4 DEF Awaits, Closing
  <1>8. \A q \in Proc \ {p} : st'[q] = st[q] /\ Knows(st[q])' /\ Placed(st[q])'
    BY <1>1, <1>2, OthersOut, LockedPlaces
  <1>9. x.op # "open" => disk[j] = x.v /\ \A q \in Proc \ {p} : ~Carries(st[q], j, x.v)
    <2> SUFFICES ASSUME x.op # "open"
                 PROVE  disk[j] = x.v /\ \A q \in Proc \ {p} : ~Carries(st[q], j, x.v)
      OBVIOUS
    <2>1. Carries(st[p], j, x.v) /\ x.v \in Name
      BY <1>1, <1>2, <1>6
    <2> QED BY <2>1, CarriedIs
  <1>10. ASSUME NEW k \in OSFN, disk'[k] # NoName
         PROVE  \/ disk'[k] \in DOMAIN map' /\ map'[disk'[k]] = k
                \/ Carries(y, k, disk'[k])
                \/ \E q \in Proc \ {p} : Carries(st[q], k, disk'[k])
    <2>1. CASE disk[k] \in DOMAIN map /\ map[disk[k]] = k
      BY <1>2, <1>3, <2>1
    <2>2. ASSUME NEW q \in Proc, Carries(st[q], k, disk[k])
          PROVE  \/ disk'[k] \in DOMAIN map' /\ map'[disk'[k]] = k
                 \/ \E r \in Proc \ {p} : Carries(st[r], k, disk'[k])
      <3>1. CASE q = p
        <4>1. k = j /\ disk[k] = x.v
          BY <1>1, <1>6, <2>2, <3>1
        <4> QED BY <1>2, <1>3, <4>1
      <3>2. CASE q # p
        BY <1>2, <2>2, <3>2
      <3> QED BY <3>1, <3>2
    <2> QED BY <1>2, <1>10, <2>1, <2>2 DEF Files, FilesNamed
  <1>11. ASSUME NEW v \in DOMAIN map', disk'[map'[v]] # v
         PROVE  /\ disk'[map'[v]] = NoName
                /\ Awaits(y, v) \/ \E q \in Proc \ {p} : Awaits(st[q], v)
    <2>1. CASE v = x.v
      BY <1>2, <1>3, <1>4, <1>7, <1>9, <1>11, <2>1
    <2>2. CASE v # x.v
      <3>1. v \in DOMAIN map /\ map'[v] = map[v]
        BY <1>3, <2>2
      <3>2. disk[map[v]] = NoName /\ \E q \in Proc : Awaits(st[q], v)
        BY <1>2, <1>11, <3>1 DEF Files, NamesFiled
      <3> QED BY <1>1, <1>2, <1>7, <3>1, <3>2
    <2> QED BY <2>1, <2>2
  <1>12. ASSUME NEW q \in Proc \ {p}, NEW k \in OSFN, NEW v \in Name, Carries(st[q], k, v)
         PROVE  /\ disk'[k] = v /\ \A u \in DOMAIN map' : map'[u] # k
                /\ \A r \in Proc \ {q} : ~Carries(st[r], k, v)
    <2>1. /\ disk[k] = v /\ disk[k] # NoName /\ \A u \in DOMAIN map : map[u] # k
          /\ \A r \in Proc \ {q} : ~Carries(st[r], k, v)
      BY <1>12, CarriedIs
    <2>2. k # j
      BY <1>4, <1>9, <1>12, <2>1
    <2> QED BY <1>2, <1>3, <2>1, <2>2
  <1>13. \A q \in Proc \ {p}, k \in OSFN, v \in Name : Carries(st[q], k, v) =>
           /\ disk'[k] = v /\ \A u \in DOMAIN map' : map'[u] # k
           /\ ~Carries(y, k, v)
           /\ \A r \in Proc \ {p, q} : ~Carries(st[r], k, v)
    BY <1>6, <1>12
  <1>14. \A u, v \in DOMAIN map' : map'[u] = map'[v] => u = v
    BY <1>3, <1>4 DEF Files, PairsDiffer
  <1>15. \A k \in OSFN, v \in Name : Carries(y, k, v) =>
           /\ disk'[k] = v /\ \A u \in DOMAIN map' : map'[u] # k
           /\ \A q \in Proc \ {p} : ~Carries(st[q], k, v)
    BY <1>6
  <1>16. y = st'[p]
    BY <1>1
  <1> QED BY <1>5, <1>8, <1>10, <1>11, <1>13, <1>14, <1>15, <1>16, FilesAfter

LEMMA UnharmedBefore ==
  ASSUME TypeInv, [Next]_vars, Unharmed'
  PROVE  Unharmed
  <1>1. ~broken
    BY HarmStays DEF Unharmed
  <1>2. harm' = "none"
    BY DEF Unharmed
  <1>3. ASSUME NEW bad, FlawedIf(bad)
        PROVE  harm = "none"
    BY <1>2, <1>3, ZenonT(60) DEF FlawedIf
  <1>4. ASSUME NEW p \in Proc, Start(p) \/ Look(p) \/ Access(p) \/ Probe(p) \/ Enter(p)
        PROVE  harm = "none"
    BY <1>2, <1>3, <1>4 DEF Start, Look, Access, Probe, Enter, EnterFails
  <1>5. ASSUME NEW p \in Proc, OpenMap(p)
        PROVE  harm = "none"
    <2>1. CASE ReadMap(p)
      BY <1>2, <1>3, <2>1 DEF ReadMap
    <2>2. CASE \/ FindMap(p) \/ MakeMap(p) \/ MakeFails(p) \/ InitLock(p) \/ TakeLock(p)
               \/ LeakLock(p)
      BY <1>2, <1>3, <2>2
         DEF FindMap, MakeMap, MakeFails, InitLock, TakeLock, LeakLock, Flawed
    <2> QED BY <1>5, <2>1, <2>2 DEF OpenMap
  <1>6. ASSUME NEW p \in Proc, FileOp(p)
        PROVE  harm = "none"
    BY <1>2, <1>3, <1>6 DEF FileOp, Exists, Unlink, Again, Create, Move, ZOpen, Flawed
  <1>7. ASSUME NEW p \in Proc, VfnClose(p)
        PROVE  harm = "none"
    BY <1>2, <1>3, <1>7 DEF VfnClose, Commit, WriteFails, Rollback, Close, CloseFails, RemoveMap,
                            RemoveLock, Leave, Flawed
  <1>8. ASSUME NEW p \in Proc, BreakLock(p) \/ Die(p)
        PROVE  harm = "none"
    BY <1>2, <1>3, <1>8 DEF BreakLock, Die, Flawed
  <1>9. ASSUME UNCHANGED vars
        PROVE  harm = "none"
    BY <1>2, <1>9 DEF vars
  <1>10. harm = "none"
    BY <1>4, <1>5, <1>6, <1>7, <1>8, <1>9 DEF Next
  <1> QED BY <1>1, <1>10 DEF Unharmed

LEMMA NextFiles ==
  ASSUME TypeInv, TypeInv', PairInv, Lock!Exclusion, FileInv, [Next]_vars
  PROVE  FileInv'
  <1> SUFFICES ASSUME Unharmed'
               PROVE  Files'
    BY DEF FileInv
  <1>1. Unharmed /\ Files
    BY UnharmedBefore DEF FileInv
  <1>2. ASSUME NEW p \in Proc, Start(p) \/ Look(p) \/ Access(p)
        PROVE  Files'
    BY <1>1, <1>2, StartFiles, LookFiles, AccessFiles
  <1>3. ASSUME NEW p \in Proc, Fails(p) \/ Rollback(p) \/ Die(p) \/ BreakLock(p)
        PROVE  Files'
    <2>1. CASE Fails(p)
      BY <1>1, <2>1, FailFiles
    <2>2. CASE Rollback(p) \/ Die(p) \/ BreakLock(p)
      BY <1>1, <2>2 DEF Rollback, Die, BreakLock, Flawed, FlawedIf, Unharmed
    <2> QED BY <1>3, <2>1, <2>2
  <1>4. ASSUME NEW p \in Proc, OpenMap(p)
        PROVE  Files'
    BY <1>1, <1>3, <1>4, LockFiles, ReadFiles DEF OpenMap, Fails
  <1>5. ASSUME NEW p \in Proc, Probe(p) \/ Enter(p)
        PROVE  Files'
    BY <1>1, <1>5, ProbeFiles, EnterFiles
  <1>6. ASSUME NEW p \in Proc, FileOp(p)
        PROVE  Files'
    BY <1>1, <1>6, ExistsFiles, UnlinkFiles, AgainFiles, CreateFiles, MoveFiles, ZOpenFiles
       DEF FileOp
  <1>7. ASSUME NEW p \in Proc, Commit(p)
        PROVE  Files'
    <2>1. CASE ~st[p].added /\ st[p].op \notin {"delete", "rename1"}
      BY <1>1, <1>7, <2>1, NoUpdateFiles
    <2>2. CASE st[p].op \in {"delete", "rename1"}
      BY <1>1, <1>7, <2>2, RemovalFiles
    <2>3. CASE st[p].added /\ st[p].op \notin {"delete", "rename1"}
      BY <1>1, <1>7, <2>3, AdditionFiles
    <2> QED BY <2>1, <2>2, <2>3
  <1>8. ASSUME NEW p \in Proc, VfnClose(p)
        PROVE  Files'
    BY <1>1, <1>3, <1>7, <1>8, CloseFiles DEF VfnClose, Fails
  <1>9. CASE UNCHANGED vars
    <2>1. UNCHANGED <<map, disk, st>>
      BY <1>9 DEF vars
    <2>2. \A q \in Proc : Keeps(st[q], st'[q])
      BY <1>1, <2>1 DEF Keeps, Files
    <2> QED BY <1>1, <2>1, <2>2, AllKeep
  <1> QED BY <1>2, <1>3, <1>4, <1>5, <1>6, <1>8, <1>9 DEF Next

LEMMA FoundFiles == TypeInv /\ FileInv => FilesFound
  <1> SUFFICES ASSUME TypeInv, Files, NEW v \in Name, ~Busy(v), NEW k \in OSFN
               PROVE  disk[k] = v <=> Entry(v) = k
    BY DEF FileInv, FilesFound, Unharmed
  <1>1. v # NoName /\ k # NoName
    BY MapAssumption
  <1>2. ASSUME NEW p \in Proc, Carries(st[p], k, v) \/ Awaits(st[p], v)
        PROVE  FALSE
    <2>1. st[p].op # "none" /\ v \in {st[p].v, st[p].w}
      BY <1>2 DEF Carries, Awaits
    <2>2. st[p].at # "idle"
      BY <2>1 DEF Files, Placed
    <2> QED BY <2>1, <2>2 DEF Busy
  <1>3. ASSUME disk[k] = v
        PROVE  Entry(v) = k
    <2>1. v \in DOMAIN map /\ map[v] = k
      BY <1>1, <1>2, <1>3 DEF Files, FilesNamed
    <2> QED BY <2>1 DEF Entry
  <1>4. ASSUME Entry(v) = k
        PROVE  disk[k] = v
    <2>1. v \in DOMAIN map /\ map[v] = k
      BY <1>1, <1>4 DEF Entry
    <2> QED BY <1>2, <2>1 DEF Files, NamesFiled
  <1> QED BY <1>3, <1>4

\* Between the procedures that work on them every file is found under its own
\* name and every name of the database has its file, whatever the others make,
\* delete and rename meanwhile and however the host refuses, in the update of
\* the mapping file too, until the lock is broken or one of the flaws that harm
\* records occurs (filopn, falloc, delete, frename with fclobber).
THEOREM FilesAreFound == Spec => []FilesFound
  <1>1. Init => PairInv /\ FileInv
    <2> SUFFICES ASSUME Init
                 PROVE  PairInv /\ FileInv
      OBVIOUS
    <2>1. \A p \in Proc : st[p] = Idle
      BY DEF Init
    <2>2. PairInv
      BY <2>1, IdleWork DEF PairInv, HasRead
    <2>3. \A k, v : ~Carries(Idle, k, v)
      BY DEF Carries, Idle
    <2>4. Knows(Idle) /\ Placed(Idle)
      BY IdlePlaced DEF Knows, Adds, Removes, Idle
    <2>5. DOMAIN map = {}
      BY EmptyMem DEF Init
    <2>6. PairsDiffer /\ FilesNamed /\ NamesFiled
      BY <2>5 DEF Init, PairsDiffer, FilesNamed, NamesFiled
    <2>7. CarriedLoose
      BY <2>1, <2>3 DEF CarriedLoose
    <2> QED BY <2>1, <2>2, <2>4, <2>6, <2>7 DEF FileInv, Files
  <1>2. TypeInv /\ PairInv /\ Lock!Exclusion /\ [Next]_vars => PairInv'
    BY NextPairs
  <1>3. TypeInv /\ TypeInv' /\ PairInv /\ Lock!Exclusion /\ FileInv /\ [Next]_vars => FileInv'
    BY NextFiles
  <1> QED BY <1>1, <1>2, <1>3, InitType, NextType, Exclusive, FoundFiles, PTL DEF Spec

=============================================================================
