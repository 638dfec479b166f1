---------------------------- MODULE WatchProofs ----------------------------
(***************************************************************************)
(* The wait group counts what runs, one fsnotify watcher is open, and the  *)
(* watcher knows its own writes, for any roots, skills, requests, timers,  *)
(* generations, disk changes and refreshes.                                *)
(***************************************************************************)
EXTENDS Watch, TLAPS, FiniteSetTheorems

LEMMA Apart ==
  /\ None \notin Requests /\ None # 0 /\ None \notin Gens /\ 0 \notin Gens
  /\ \A w \in Workers : w \notin Gens
  /\ 0 # Malformed /\ \A n \in 0..MaxEdits : n # Malformed
  /\ MaxGen \in Nat /\ MaxEdits \in Nat /\ MaxEdits > 0 /\ MaxRefresh \in Nat
  /\ IsFiniteSet(Workers)
<1>1. 0 \in 0..MaxGen /\ 0 \in 0..MaxEdits /\ 1..MaxGen \subseteq 0..MaxGen /\ 0 \notin 1..MaxGen
  BY WatchAssumption DEF WatchAssumption
<1>2. QED
  BY <1>1, WatchAssumption DEF WatchAssumption, Gens

Single(timers) == \A p, k \in timers : SameTimer(p, k) => p = k

Writers == {w \in Workers : job[w].pc \in {"apply", "end"}}
Running == {w \in Workers : job[w].pc # "free"}

(* A callback has a key, reads nothing malformed to apply, and walks a     *)
(* tree only in one kind of job.                                           *)
JobInv ==
  \A w \in Workers :
    /\ job[w].pc # "free" => job[w].key \in Keys
    /\ job[w].pc = "apply" => job[w].read # Malformed
    /\ job[w].pc = "tree" <=> walk[w].pc # "off"
    /\ walk[w].pc # "idle"
WalkInv ==
  \A a \in Walkers :
    walk[a].pc \in {"look", "add", "record", "visit"} =>
      walk[a].skill \in Skills /\ walk[a].gen \in Gens
(* A skill has one timer of a kind, which is why replacing it counts right. *)
TimerInv == IsFiniteSet(pending) /\ Single(pending) /\ JobsCounted
(* Those between beginWrite and endWrite. *)
WritingInv ==
  writing = Cardinality(Writers)
              + (IF \E q \in Requests : req[q] \in {"insert", "delete"} THEN 1 ELSE 0)
LockInv == \A q \in Requests : req[q] \in Rearming <=> rearmMu = q
(* While a request rearms there is no current generation, and one that is  *)
(* set up does not run yet.                                                *)
GenInv ==
  /\ rearmMu # None => fs = None
  /\ fs # None => open = {fs}
  /\ rearmMu = None /\ fs = None => open = {}
  /\ \A q \in Requests : req[q] \in Rearming \ {"walk"} => open = {}
  /\ \A q \in Requests : req[q] = "walk" => \E g \in Gens : open = {g} /\ walk[g].pc = "off"
  /\ \A g \in Gens \ open : kern[g] = {}
StampInv ==
  /\ refresh.scanned # None => refresh.runs # 0
  /\ refresh.runs = 0 /\ writing = 0 => ~stale
TodoInv == \A q \in Requests : req[q] = "insert" => todo \subseteq Found(scan.files)
Inv ==
  /\ TypeOK /\ JobInv /\ WalkInv /\ TimerInv /\ WritingInv
  /\ LockInv /\ GenInv /\ StampInv /\ TodoInv

---------------------------------------------------------------------------
(* Replacing a timer of a kind of a skill keeps the count.                 *)

Put(timers, k) == {p \in timers : ~SameTimer(p, k)} \cup {k}
Fresh(timers, k) == IF \A p \in timers : ~SameTimer(p, k) THEN 1 ELSE 0

LEMMA PutOne ==
  ASSUME NEW timers, NEW k, IsFiniteSet(timers), Single(timers)
  PROVE  /\ IsFiniteSet(Put(timers, k)) /\ Single(Put(timers, k))
         /\ Cardinality(Put(timers, k)) = Cardinality(timers) + Fresh(timers, k)
<1>1. Cardinality(timers) \in Nat
  BY FS_CardinalityType
<1>2. CASE \A p \in timers : ~SameTimer(p, k)
  <2>1. {p \in timers : ~SameTimer(p, k)} = timers /\ k \notin timers
    BY <1>2 DEF SameTimer
  <2>2. Put(timers, k) = timers \cup {k}
    BY <2>1 DEF Put
  <2>3. Single(timers \cup {k})
    BY <1>2 DEF Single, SameTimer
  <2>4. Fresh(timers, k) = 1
    BY <1>2 DEF Fresh
  <2>5. QED
    BY <1>1, <2>1, <2>2, <2>3, <2>4, FS_AddElement
<1>3. CASE \E p \in timers : SameTimer(p, k)
  <2>1. PICK p \in timers : SameTimer(p, k)
    BY <1>3
  <2>2. {r \in timers : ~SameTimer(r, k)} = timers \ {p}
    BY <2>1 DEF Single, SameTimer
  <2>3. Put(timers, k) = (timers \ {p}) \cup {k}
    BY <2>2 DEF Put
  <2>4. k \notin timers \ {p}
    BY <2>1 DEF Single, SameTimer
  <2>5. Single((timers \ {p}) \cup {k})
    BY <2>2 DEF Single, SameTimer
  <2>6. Fresh(timers, k) = 0
    BY <1>3 DEF Fresh
  <2>7. IsFiniteSet(timers \ {p}) /\ Cardinality(timers \ {p}) = Cardinality(timers) - 1
    BY <2>1, FS_RemoveElement
  <2>8. Cardinality((timers \ {p}) \cup {k}) = Cardinality(timers \ {p}) + 1
    BY <2>4, <2>7, FS_AddElement
  <2>9. IsFiniteSet((timers \ {p}) \cup {k})
    BY <2>7, FS_AddElement
  <2>10. QED
    BY <1>1, <2>3, <2>5, <2>6, <2>7, <2>8, <2>9
<1>4. QED
  BY <1>2, <1>3

After(timers, keys) == {p \in timers : \A k \in keys : ~SameTimer(p, k)} \cup keys
Added(timers, keys) == Cardinality({k \in keys : \A p \in timers : ~SameTimer(p, k)})

(* What a step schedules: nothing, one timer, or two of different kinds.   *)
Schedulable(keys) ==
  \/ keys = {}
  \/ \E k : keys = {k}
  \/ \E j, k : keys = {j, k} /\ ~SameTimer(j, k)

LEMMA Scheduling ==
  ASSUME NEW timers, NEW keys, IsFiniteSet(timers), Single(timers), Schedulable(keys)
  PROVE  /\ IsFiniteSet(After(timers, keys)) /\ Single(After(timers, keys))
         /\ Cardinality(After(timers, keys)) = Cardinality(timers) + Added(timers, keys)
<1>0. Cardinality(timers) \in Nat
  BY FS_CardinalityType
<1>1. CASE keys = {}
  <2>1. After(timers, keys) = timers
    BY <1>1 DEF After
  <2>2. Added(timers, keys) = 0
    BY <1>1, FS_EmptySet DEF Added
  <2>3. QED
    BY <1>0, <2>1, <2>2
<1>2. CASE \E k : keys = {k}
  <2>0. PICK k : keys = {k}
    BY <1>2
  <2>1. After(timers, keys) = Put(timers, k)
    BY <2>0 DEF After, Put
  <2>2. CASE \A p \in timers : ~SameTimer(p, k)
    <3>1. {j \in keys : \A p \in timers : ~SameTimer(p, j)} = {k}
      BY <2>0, <2>2
    <3>2. Added(timers, keys) = Fresh(timers, k)
      BY <3>1, <2>2, FS_Singleton DEF Added, Fresh
    <3>3. QED
      BY <2>1, <3>2, PutOne
  <2>3. CASE ~(\A p \in timers : ~SameTimer(p, k))
    <3>1. {j \in keys : \A p \in timers : ~SameTimer(p, j)} = {}
      BY <2>0, <2>3
    <3>2. Added(timers, keys) = Fresh(timers, k)
      BY <3>1, <2>3, FS_EmptySet DEF Added, Fresh
    <3>3. QED
      BY <2>1, <3>2, PutOne
  <2>4. QED
    BY <2>2, <2>3
<1>3. CASE \E j, k : keys = {j, k} /\ ~SameTimer(j, k)
  <2>0. PICK j, k : keys = {j, k} /\ ~SameTimer(j, k)
    BY <1>3
  <2> DEFINE one == Put(timers, j)
  <2>1. After(timers, keys) = Put(one, k)
    BY <2>0 DEF After, Put, SameTimer
  <2>2. Fresh(one, k) = Fresh(timers, k)
    BY <2>0 DEF Put, Fresh, SameTimer
  <2>3. /\ IsFiniteSet(one) /\ Single(one)
        /\ Cardinality(one) = Cardinality(timers) + Fresh(timers, j)
    BY PutOne
  <2>4. /\ IsFiniteSet(Put(one, k)) /\ Single(Put(one, k))
        /\ Cardinality(Put(one, k)) = Cardinality(one) + Fresh(one, k)
    BY <2>3, PutOne
  <2>5. Added(timers, keys) = Fresh(timers, j) + Fresh(timers, k)
    <3> DEFINE New(i) == \A p \in timers : ~SameTimer(p, i)
    <3>0. j # k
      BY <2>0 DEF SameTimer
    <3>1. {i \in keys : New(i)} =
            IF New(j) THEN IF New(k) THEN {j, k} ELSE {j} ELSE IF New(k) THEN {k} ELSE {}
      BY <2>0
    <3>2. Cardinality({j}) = 1 /\ Cardinality({k}) = 1 /\ IsFiniteSet({j})
      BY FS_Singleton
    <3>3. {j} \cup {k} = {j, k} /\ k \notin {j}
      BY <3>0
    <3>4. Cardinality({j} \cup {k}) = 2
      <4>1. Cardinality({j} \cup {k}) = IF k \in {j} THEN Cardinality({j}) ELSE Cardinality({j}) + 1
        BY <3>2, FS_AddElement
      <4>2. QED
        BY <3>2, <3>3, <4>1
    <3>5. Cardinality({}) = 0
      BY FS_EmptySet
    <3>6. Added(timers, keys) = Cardinality({i \in keys : New(i)})
      BY DEF Added
    <3>7. Fresh(timers, j) = (IF New(j) THEN 1 ELSE 0) /\ Fresh(timers, k) = (IF New(k) THEN 1 ELSE 0)
      BY DEF Fresh
    <3> HIDE DEF New
    <3>8. Added(timers, keys) = IF New(j) THEN IF New(k) THEN 2 ELSE 1 ELSE IF New(k) THEN 1 ELSE 0
      <4>1. CASE New(j) /\ New(k)
        BY <3>1, <3>3, <3>4, <3>6, <4>1
      <4>2. CASE New(j) /\ ~New(k)
        BY <3>1, <3>2, <3>6, <4>2
      <4>3. CASE ~New(j)
        BY <3>1, <3>2, <3>5, <3>6, <4>3
      <4>4. QED
        BY <4>1, <4>2, <4>3
    <3>9. QED
      BY <3>7, <3>8
  <2>6. Fresh(timers, j) \in Nat /\ Fresh(timers, k) \in Nat
    BY DEF Fresh
  <2>7. QED
    BY <1>0, <2>1, <2>2, <2>3, <2>4, <2>5, <2>6
<1>4. QED
  BY <1>1, <1>2, <1>3 DEF Schedulable

LEMMA AddedNat ==
  ASSUME NEW timers, NEW keys, Schedulable(keys)
  PROVE  Added(timers, keys) \in Nat
<1>1. IsFiniteSet({}) /\ \A k : IsFiniteSet({k})
  BY FS_EmptySet, FS_Singleton
<1>2. ASSUME NEW j, NEW k PROVE IsFiniteSet({j, k})
  <2>1. IsFiniteSet({j} \cup {k})
    BY <1>1, FS_AddElement
  <2>2. {j} \cup {k} = {j, k}
    OBVIOUS
  <2>3. QED
    BY <2>1, <2>2
<1>3. IsFiniteSet(keys)
  BY <1>1, <1>2 DEF Schedulable
<1>4. QED
  BY <1>3, FS_Subset, FS_CardinalityType DEF Added

LEMMA PresentOne == \A s : Present(s) = {} \/ Present(s) = {Key("sync", s, 0)}
  BY DEF Present

---------------------------------------------------------------------------
(* What changes what.                                                      *)

Disarms == (\E q \in Requests : RearmLock(q)) \/ IdleDisarm \/ Close
Handles == \E g \in Gens, s \in Skills : HandleFile(g, s) \/ HandleCreate(g, s) \/ HandleRemove(g, s)

LEMMA DiskMoves == Next => Disk \/ UNCHANGED disk
<1> SUFFICES ASSUME Next PROVE Disk \/ UNCHANGED disk
  OBVIOUS
<1>1. CASE \E q \in Requests : Touch(q) \/ Check(q) \/ Rearm(q)
  BY <1>1 DEF Touch, Check, Rearm, RearmLock, Discover, SyncInsert, SyncList, SyncDelete,
     EndSync, SyncFails, OpenWatcher, OpenFails, WatchDir, Armed
<1>2. CASE RefreshScan \/ RefreshWrite \/ TimePasses \/ IdleCheck \/ IdleDisarm \/ Close \/ CloseReturns
  BY <1>2 DEF RefreshScan, RefreshWrite, TimePasses, IdleCheck, IdleDisarm, Close, CloseReturns
<1>3. CASE \E g \in Gens : Loop(g)
  BY <1>3 DEF Loop, HandleFile, HandleCreate, HandleRemove, LookUp, AddWatch, Record,
     LoopVisit, LoopExit
<1>4. CASE \E w \in Workers : Fire(w) \/ Callback(w)
  BY <1>4 DEF Fire, Callback, ReadFile, Apply, EndWrite, TreeAgain, LookUp, AddWatch, Record,
     TreeVisit
<1>5. QED
  BY <1>1, <1>2, <1>3, <1>4 DEF Next

LEMMA IndexMoves ==
  Next => RefreshScan \/ RefreshWrite
          \/ (\E q \in Requests : Discover(q) \/ SyncInsert(q) \/ SyncDelete(q) \/ EndSync(q) \/ SyncFails(q) \/ Armed(q))
          \/ (\E w \in Workers : Apply(w) \/ EndWrite(w))
          \/ UNCHANGED <<registry, refresh>>
<1> SUFFICES ASSUME Next, ~(RefreshScan \/ RefreshWrite
          \/ (\E q \in Requests : Discover(q) \/ SyncInsert(q) \/ SyncDelete(q) \/ EndSync(q) \/ SyncFails(q) \/ Armed(q))
          \/ (\E w \in Workers : Apply(w) \/ EndWrite(w)))
             PROVE  UNCHANGED <<registry, refresh>>
  OBVIOUS
<1>1. CASE Disk \/ RefreshScan \/ RefreshWrite
  BY <1>1 DEF Disk, MakeRoot, MakeDir, WriteFile, RemoveFile, RemoveDir, RefreshScan, RefreshWrite,
     Take, registry, watcher, inotify, Disarm
<1>2. CASE \E q \in Requests : Touch(q) \/ Check(q) \/ Rearm(q)
  BY <1>2 DEF Touch, Check, Rearm, RearmLock, Discover, SyncInsert, SyncList, SyncDelete,
     EndSync, SyncFails, OpenWatcher, OpenFails, WatchDir, Armed, Take, registry, watcher, inotify, Disarm
<1>3. CASE TimePasses \/ IdleCheck \/ IdleDisarm \/ Close \/ CloseReturns
  BY <1>3 DEF TimePasses, IdleCheck, IdleDisarm, Close, CloseReturns, Take, registry, watcher, inotify, Disarm
<1>4. CASE \E g \in Gens : Loop(g)
  BY <1>4 DEF Loop, HandleFile, HandleCreate, HandleRemove, LookUp, AddWatch, Record,
     LoopVisit, LoopExit, Take, registry, watcher, inotify, Disarm
<1>5. CASE \E w \in Workers : Fire(w) \/ Callback(w)
  BY <1>5 DEF Fire, Callback, ReadFile, Apply, EndWrite, TreeAgain, LookUp, AddWatch, Record,
     TreeVisit, Take, registry, watcher, inotify, Disarm
<1>6. QED
  BY <1>1, <1>2, <1>3, <1>4, <1>5 DEF Next

LEMMA InotifyMoves ==
  Next => Disk \/ Disarms \/ Handles
          \/ (\E q \in Requests : OpenWatcher(q) \/ WatchDir(q))
          \/ (\E a \in Walkers : AddWatch(a)) \/ (\E g \in Gens : LoopExit(g))
          \/ UNCHANGED inotify
<1> SUFFICES ASSUME Next, ~(Disk \/ Disarms \/ Handles
          \/ (\E q \in Requests : OpenWatcher(q) \/ WatchDir(q))
          \/ (\E a \in Walkers : AddWatch(a)) \/ (\E g \in Gens : LoopExit(g)))
             PROVE  UNCHANGED inotify
  OBVIOUS
<1>1. CASE Disk \/ RefreshScan \/ RefreshWrite
  BY <1>1 DEF Disk, MakeRoot, MakeDir, WriteFile, RemoveFile, RemoveDir, RefreshScan, RefreshWrite,
     inotify, Disarms, Handles, Walkers
<1>2. CASE \E q \in Requests : Touch(q) \/ Check(q) \/ Rearm(q)
  BY <1>2 DEF Touch, Check, Rearm, RearmLock, Discover, SyncInsert, SyncList, SyncDelete,
     EndSync, SyncFails, OpenWatcher, OpenFails, WatchDir, Armed, inotify, Disarms, Handles, Walkers
<1>3. CASE TimePasses \/ IdleCheck \/ IdleDisarm \/ Close \/ CloseReturns
  BY <1>3 DEF TimePasses, IdleCheck, IdleDisarm, Close, CloseReturns, inotify, Disarms, Handles, Walkers
<1>4. CASE \E g \in Gens : Loop(g)
  BY <1>4 DEF Loop, HandleFile, HandleCreate, HandleRemove, LookUp, AddWatch, Record,
     LoopVisit, LoopExit, inotify, Disarms, Handles, Walkers
<1>5. CASE \E w \in Workers : Fire(w) \/ Callback(w)
  BY <1>5 DEF Fire, Callback, ReadFile, Apply, EndWrite, TreeAgain, LookUp, AddWatch, Record,
     TreeVisit, inotify, Disarms, Handles, Walkers
<1>6. QED
  BY <1>1, <1>2, <1>3, <1>4, <1>5 DEF Next

LEMMA TimerMoves ==
  Next => Disarms \/ Handles
          \/ (\E g \in Gens : LoopVisit(g))
          \/ (\E w \in Workers : Fire(w) \/ ReadFile(w) \/ Apply(w) \/ EndWrite(w) \/ TreeAgain(w) \/ TreeVisit(w))
          \/ UNCHANGED <<pending, jobs, job>>
<1> SUFFICES ASSUME Next, ~(Disarms \/ Handles
          \/ (\E g \in Gens : LoopVisit(g))
          \/ (\E w \in Workers : Fire(w) \/ ReadFile(w) \/ Apply(w) \/ EndWrite(w) \/ TreeAgain(w) \/ TreeVisit(w)))
             PROVE  UNCHANGED <<pending, jobs, job>>
  OBVIOUS
<1>1. CASE Disk \/ RefreshScan \/ RefreshWrite
  BY <1>1 DEF Disk, MakeRoot, MakeDir, WriteFile, RemoveFile, RemoveDir, RefreshScan, RefreshWrite,
     Disarms, Handles, watcher, threads
<1>2. CASE \E q \in Requests : Touch(q) \/ Check(q) \/ Rearm(q)
  BY <1>2 DEF Touch, Check, Rearm, RearmLock, Discover, SyncInsert, SyncList, SyncDelete,
     EndSync, SyncFails, OpenWatcher, OpenFails, WatchDir, Armed, Disarms, Handles, watcher, threads
<1>3. CASE TimePasses \/ IdleCheck \/ IdleDisarm \/ Close \/ CloseReturns
  BY <1>3 DEF TimePasses, IdleCheck, IdleDisarm, Close, CloseReturns, Disarms, Handles, watcher, threads
<1>4. CASE \E g \in Gens : Loop(g)
  BY <1>4 DEF Loop, HandleFile, HandleCreate, HandleRemove, LookUp, AddWatch, Record,
     LoopVisit, LoopExit, Disarms, Handles, watcher, threads
<1>5. CASE \E w \in Workers : Fire(w) \/ Callback(w)
  BY <1>5 DEF Fire, Callback, ReadFile, Apply, EndWrite, TreeAgain, LookUp, AddWatch, Record,
     TreeVisit, Disarms, Handles, watcher, threads
<1>6. QED
  BY <1>1, <1>2, <1>3, <1>4, <1>5 DEF Next

---------------------------------------------------------------------------
(* Types.                                                                  *)

LEMMA InitTypes == Init => TypeOK
<1> SUFFICES ASSUME Init PROVE TypeOK
  OBVIOUS
<1>1. file \in [Skills -> {0, 1}]
  BY DEF Init
<1>2. {0, 1} \subseteq 0..MaxEdits /\ {0, 1} \subseteq Contents \ {Malformed}
  BY Apart DEF Contents
<1>3. file \in [Skills -> Contents] /\ index \in [Skills -> Contents \ {Malformed}]
  BY <1>1, <1>2 DEF Init
<1>4. DiskTypes
  <2>1. 1 \in 1..MaxEdits
    BY Apart
  <2>2. there \subseteq Nodes
    BY WatchAssumption DEF Init, Nodes, WatchAssumption
  <2>3. edits \in 1..MaxEdits
    BY <2>1 DEF Init
  <2>4. QED
    BY <1>3, <2>2, <2>3 DEF DiskTypes
<1>5. IndexTypes
  <2>1. 0 \in 0..MaxRefresh
    BY Apart
  <2>2. refresh \in [runs : 0..MaxRefresh, scanned : [Skills -> Contents] \cup {None}, unseen : BOOLEAN]
    BY <2>1 DEF Init
  <2>3. stale \in BOOLEAN
    BY DEF Init
  <2>4. QED
    BY <1>3, <2>2, <2>3 DEF IndexTypes
<1>6. InotifyTypes /\ WatcherTypes
  BY DEF Init, InotifyTypes, WatcherTypes
<1>7. RequestTypes
  BY <1>2 DEF Init, RequestTypes, NoScan
<1>8. WorkTypes
  BY <1>2 DEF Init, WorkTypes, AtRest, NoJob
<1>9. QED
  BY <1>4, <1>5, <1>6, <1>7, <1>8 DEF TypeOK

LEMMA DiskStep == TypeOK /\ Next => DiskTypes'
<1> SUFFICES ASSUME TypeOK, Next PROVE DiskTypes'
  OBVIOUS
<1> USE DEF TypeOK, DiskTypes
<1>1. CASE UNCHANGED disk
  BY <1>1 DEF disk
<1>2. CASE Disk
  <2>1. edits' \in 1..MaxEdits /\ edits + 1 \in Contents /\ Malformed \in Contents /\ 0 \in Contents
    BY <1>2, Apart DEF Disk, MakeRoot, MakeDir, WriteFile, RemoveFile, RemoveDir, MayEdit, Contents
  <2>2. there' \subseteq Nodes
    BY <1>2 DEF Disk, MakeRoot, MakeDir, WriteFile, RemoveFile, RemoveDir, Nodes
  <2>3. file' \in [Skills -> Contents]
    BY <1>2, <2>1 DEF Disk, MakeRoot, MakeDir, WriteFile, RemoveFile, RemoveDir
  <2>4. QED
    BY <2>1, <2>2, <2>3
<1>3. QED
  BY <1>1, <1>2, DiskMoves

LEMMA IndexStep == Inv /\ Next => IndexTypes'
<1> SUFFICES ASSUME Inv, Next PROVE IndexTypes'
  OBVIOUS
<1> USE DEF Inv, TypeOK, IndexTypes
<1>0. index \in [Skills -> Contents \ {Malformed}] /\ stale \in BOOLEAN
      /\ refresh \in [runs : 0..MaxRefresh, scanned : [Skills -> Contents] \cup {None}, unseen : BOOLEAN]
  OBVIOUS
<1>1. 0 \in Contents \ {Malformed}
  BY Apart DEF Contents
<1>2. CASE RefreshScan
  <2>1. refresh.runs + 1 \in 0..MaxRefresh
    BY <1>2, Apart DEF RefreshScan
  <2>2. refresh' = [refresh EXCEPT !.runs = refresh.runs + 1, !.scanned = file] /\ UNCHANGED registry
    BY <1>2 DEF RefreshScan
  <2>3. file \in [Skills -> Contents]
    BY DEF DiskTypes
  <2>4. QED
    BY <1>0, <2>1, <2>2, <2>3 DEF registry
<1>3. CASE RefreshWrite
  <2>1. refresh.scanned \in [Skills -> Contents]
    BY <1>0, <1>3 DEF RefreshWrite
  <2>2. index' \in [Skills -> Contents \ {Malformed}]
    BY <1>1, <1>3, <2>1 DEF RefreshWrite
  <2>3. QED
    BY <1>0, <1>3, <2>2 DEF RefreshWrite
<1>4. ASSUME NEW q \in Requests, Discover(q) PROVE IndexTypes'
  BY <1>0, <1>4 DEF Discover, registry
<1>5. ASSUME NEW q \in Requests, SyncInsert(q) PROVE IndexTypes'
  <2>1. PICK s \in todo : index' = [index EXCEPT ![s] = scan.files[s]]
    BY <1>5 DEF SyncInsert
  <2>2. s \in Found(scan.files)
    BY <1>5, <2>1 DEF SyncInsert, TodoInv
  <2>3. scan.files[s] \in Contents \ {Malformed}
    BY <2>2 DEF Found, RequestTypes
  <2>4. QED
    BY <1>0, <1>5, <2>1, <2>3 DEF SyncInsert
<1>6. ASSUME NEW q \in Requests, SyncDelete(q) PROVE IndexTypes'
  <2>1. PICK s \in todo : index' = [index EXCEPT ![s] = 0] /\ stale' = (stale \/ index[s] # 0)
    BY <1>6 DEF SyncDelete
  <2>2. stale' \in BOOLEAN
    BY <2>1
  <2>3. index' \in [Skills -> Contents \ {Malformed}]
    BY <1>0, <1>1, <2>1
  <2>4. QED
    BY <1>0, <1>6, <2>2, <2>3 DEF SyncDelete
<1>7. ASSUME NEW q \in Requests, EndSync(q) \/ SyncFails(q) \/ Armed(q) PROVE IndexTypes'
  BY <1>0, <1>7 DEF EndSync, SyncFails, Armed
<1>8. ASSUME NEW w \in Workers, Apply(w) PROVE IndexTypes'
  <2>1. job[w].read \in Contents \ {Malformed}
    BY <1>8 DEF Apply, JobInv, WorkTypes
  <2>2. index' = [index EXCEPT ![job[w].key.skill] = job[w].read] /\ UNCHANGED refresh
    BY <1>8 DEF Apply
  <2>3. stale' \in BOOLEAN
    BY <1>8 DEF Apply
  <2>4. index' \in [Skills -> Contents \ {Malformed}]
    BY <1>0, <2>1, <2>2
  <2>5. QED
    BY <1>0, <2>2, <2>3, <2>4
<1>9. ASSUME NEW w \in Workers, EndWrite(w) PROVE IndexTypes'
  BY <1>0, <1>9 DEF EndWrite
<1>10. CASE UNCHANGED <<registry, refresh>>
  BY <1>0, <1>10 DEF registry
<1>11. QED
  BY <1>2, <1>3, <1>4, <1>5, <1>6, <1>7, <1>8, <1>9, <1>10, IndexMoves

(* The generation being set up. *)
LEMMA BuildingIs ==
  ASSUME Inv, NEW q \in Requests, req[q] = "walk"
  PROVE  Building \in Gens /\ open = {Building} /\ walk[Building].pc = "off"
<1>1. PICK g \in Gens : open = {g} /\ walk[g].pc = "off"
  BY DEF Inv, GenInv
<1>2. Building \in open /\ walk[Building].pc = "off"
  BY <1>1 DEF Building
<1>3. QED
  BY <1>1, <1>2

LEMMA InotifyStep == Inv /\ Next => InotifyTypes'
<1> SUFFICES ASSUME Inv, Next PROVE InotifyTypes'
  OBVIOUS
<1> DEFINE Events == [kind : {"create", "file", "remove"}, skill : Skills]
<1>0. /\ kern \in [Gens -> SUBSET Nodes] /\ open \subseteq Gens
      /\ queue \in [Gens -> SUBSET Events]
  BY DEF Inv, TypeOK, InotifyTypes
<1>1. SUFFICES /\ kern' \in [Gens -> SUBSET Nodes] /\ open' \subseteq Gens
               /\ queue' \in [Gens -> SUBSET Events]
  BY DEF InotifyTypes
<1>2. CASE UNCHANGED inotify
  BY <1>0, <1>2 DEF inotify
<1>3. CASE Disk
  <2>1. \A s \in Skills, k \in {"create", "file", "remove"} : Event(k, s) \in Events
    BY DEF Event
  <2>2. UNCHANGED queue \/ \E d : \E e \in Events : Notify(d, e)
    BY <1>3, <2>1 DEF Disk, MakeRoot, MakeDir, WriteFile, RemoveFile, RemoveDir, inotify
  <2>3. queue' \in [Gens -> SUBSET Events]
    BY <1>0, <2>2 DEF Notify
  <2>4. kern' \in [Gens -> SUBSET Nodes] /\ UNCHANGED open
    BY <1>0, <1>3 DEF Disk, MakeRoot, MakeDir, WriteFile, RemoveFile, RemoveDir, inotify
  <2>5. QED
    BY <1>0, <2>3, <2>4
<1>4. CASE Disarms
  BY <1>0, <1>4 DEF Disarms, RearmLock, IdleDisarm, Close, Disarm
<1>5. CASE Handles
  BY <1>0, <1>5 DEF Handles, HandleFile, HandleCreate, HandleRemove, Take
<1>6. ASSUME NEW q \in Requests, OpenWatcher(q) PROVE InotifyTypes'
  <2>1. scan.roots \subseteq Nodes
    BY DEF Inv, TypeOK, RequestTypes, Nodes
  <2>2. PICK g \in FreeGens : open' = open \cup {g} /\ kern' = [kern EXCEPT ![g] = scan.roots \ watched]
    BY <1>6 DEF OpenWatcher
  <2>3. g \in Gens /\ UNCHANGED queue
    BY <1>6, <2>2 DEF FreeGens, OpenWatcher
  <2>4. QED
    BY <1>0, <2>1, <2>2, <2>3 DEF InotifyTypes
<1>7. ASSUME NEW q \in Requests, WatchDir(q) PROVE InotifyTypes'
  <2>1. Building \in Gens
    BY <1>7, BuildingIs DEF WatchDir
  <2>2. todo \subseteq Nodes
    BY DEF Inv, TypeOK, RequestTypes, Nodes
  <2>3. UNCHANGED <<open, queue>>
    BY <1>7 DEF WatchDir
  <2>4. UNCHANGED kern \/ \E s \in todo : kern' = [kern EXCEPT ![Building] = @ \cup {s}]
    BY <1>7 DEF WatchDir
  <2>5. kern' \in [Gens -> SUBSET Nodes]
    BY <1>0, <2>1, <2>2, <2>4
  <2>6. QED
    BY <1>0, <2>3, <2>5 DEF InotifyTypes
<1>8. ASSUME NEW a \in Walkers, AddWatch(a) PROVE InotifyTypes'
  <2>1. walk[a].gen \in Gens /\ walk[a].skill \in Nodes
    BY <1>8 DEF AddWatch, Inv, WalkInv, Nodes
  <2>2. UNCHANGED <<open, queue>>
    BY <1>8 DEF AddWatch
  <2>3. UNCHANGED kern \/ kern' = [kern EXCEPT ![walk[a].gen] = @ \cup {walk[a].skill}]
    BY <1>8 DEF AddWatch
  <2>4. kern' \in [Gens -> SUBSET Nodes]
    BY <1>0, <2>1, <2>3
  <2>5. QED
    BY <1>0, <2>2, <2>4 DEF InotifyTypes
<1>9. ASSUME NEW g \in Gens, LoopExit(g) PROVE InotifyTypes'
  BY <1>0, <1>9 DEF LoopExit, InotifyTypes
<1>10. QED
  BY <1>2, <1>3, <1>4, <1>5, <1>6, <1>7, <1>8, <1>9, InotifyMoves DEF InotifyTypes

Roles == \E q \in Requests : Touch(q) \/ Check(q) \/ Rearm(q)

LEMMA WalkMoves ==
  Next => (\E q \in Requests : OpenWatcher(q) \/ Armed(q))
          \/ (\E a \in Walkers : LookUp(a) \/ AddWatch(a) \/ Record(a))
          \/ (\E g \in Gens, s \in Skills : HandleCreate(g, s))
          \/ (\E g \in Gens : LoopVisit(g) \/ LoopExit(g))
          \/ (\E w \in Workers : TreeAgain(w) \/ TreeVisit(w))
          \/ UNCHANGED walk
<1> SUFFICES ASSUME Next PROVE (\E q \in Requests : OpenWatcher(q) \/ Armed(q))
          \/ (\E a \in Walkers : LookUp(a) \/ AddWatch(a) \/ Record(a))
          \/ (\E g \in Gens, s \in Skills : HandleCreate(g, s))
          \/ (\E g \in Gens : LoopVisit(g) \/ LoopExit(g))
          \/ (\E w \in Workers : TreeAgain(w) \/ TreeVisit(w))
          \/ UNCHANGED walk
  OBVIOUS
<1>1. CASE Disk \/ RefreshScan \/ RefreshWrite
  BY <1>1 DEF Disk, MakeRoot, MakeDir, WriteFile, RemoveFile, RemoveDir, RefreshScan, RefreshWrite,
     threads
<1>2. CASE Roles
  BY <1>2 DEF Roles, Touch, Check, Rearm, RearmLock, Discover, SyncInsert, SyncList, SyncDelete,
     EndSync, SyncFails, OpenFails, WatchDir
<1>3. CASE TimePasses \/ IdleCheck \/ IdleDisarm \/ Close \/ CloseReturns
  BY <1>3 DEF TimePasses, IdleCheck, IdleDisarm, Close, CloseReturns, threads
<1>4. CASE \E g \in Gens : Loop(g)
  BY <1>4 DEF Loop, HandleFile, HandleRemove, Walkers, threads
<1>5. CASE \E w \in Workers : Fire(w) \/ Callback(w)
  BY <1>5 DEF Fire, Callback, ReadFile, Apply, EndWrite, Walkers
<1>6. QED
  BY <1>1, <1>2, <1>3, <1>4, <1>5 DEF Next, Roles

LEMMA WalkStep ==
  ASSUME Inv, Next
  PROVE  walk' \in [Walkers -> [pc : {"off", "idle", "look", "add", "record", "visit"},
                                skill : Skills \cup {None}, gen : Gens \cup {0}]]
         /\ WalkInv'
<1> DEFINE Walk == [pc : {"off", "idle", "look", "add", "record", "visit"},
                    skill : Skills \cup {None}, gen : Gens \cup {0}]
<1> DEFINE Placed(r) == r.pc \in {"look", "add", "record", "visit"} => r.skill \in Skills /\ r.gen \in Gens
<1>0. walk \in [Walkers -> Walk] /\ \A a \in Walkers : Placed(walk[a])
  BY DEF Inv, TypeOK, WorkTypes, WalkInv
<1>1. SUFFICES walk' \in [Walkers -> Walk] /\ \A a \in Walkers : Placed(walk'[a])
  BY DEF WalkInv
<1>2. ASSUME NEW a \in Walkers, NEW r \in Walk, walk' = [walk EXCEPT ![a] = r], Placed(r)
      PROVE  walk' \in [Walkers -> Walk] /\ \A b \in Walkers : Placed(walk'[b])
  BY <1>0, <1>2
<1>3. Gens \subseteq Walkers /\ Workers \subseteq Walkers
  BY DEF Walkers
<1>4. ASSUME NEW a \in Walkers, LookUp(a) \/ AddWatch(a) \/ Record(a)
      PROVE  walk' \in [Walkers -> Walk] /\ \A b \in Walkers : Placed(walk'[b])
  <2>1. walk[a].pc \in {"look", "add", "record"}
    BY <1>4 DEF LookUp, AddWatch, Record
  <2>2. PICK pc \in {"add", "record", "visit"} : walk' = [walk EXCEPT ![a] = [@ EXCEPT !.pc = pc]]
    BY <1>4 DEF LookUp, AddWatch, Record, WalkGoto
  <2>3. [walk[a] EXCEPT !.pc = pc] \in Walk /\ Placed([walk[a] EXCEPT !.pc = pc])
    BY <1>0, <2>1
  <2>4. walk' = [walk EXCEPT ![a] = [walk[a] EXCEPT !.pc = pc]]
    BY <2>2
  <2>5. QED
    BY <1>2, <2>3, <2>4
<1>5. ASSUME NEW q \in Requests, OpenWatcher(q)
      PROVE  walk' \in [Walkers -> Walk] /\ \A b \in Walkers : Placed(walk'[b])
  <2>1. PICK g \in FreeGens : walk' = [walk EXCEPT ![g].gen = g]
    BY <1>5 DEF OpenWatcher
  <2>2. g \in Gens /\ walk[g].pc = "off"
    BY DEF FreeGens
  <2>3. [walk[g] EXCEPT !.gen = g] \in Walk /\ Placed([walk[g] EXCEPT !.gen = g])
    BY <1>0, <1>3, <2>2
  <2>4. walk' = [walk EXCEPT ![g] = [walk[g] EXCEPT !.gen = g]]
    BY <2>1
  <2>5. QED
    BY <1>2, <1>3, <2>2, <2>3, <2>4
<1>6. ASSUME NEW q \in Requests, Armed(q)
      PROVE  walk' \in [Walkers -> Walk] /\ \A b \in Walkers : Placed(walk'[b])
  <2>1. Building \in Gens
    BY <1>6, BuildingIs DEF Armed
  <2>2. [walk[Building] EXCEPT !.pc = "idle"] \in Walk /\ Placed([walk[Building] EXCEPT !.pc = "idle"])
    BY <1>0, <1>3, <2>1
  <2>3. walk' = [walk EXCEPT ![Building] = [walk[Building] EXCEPT !.pc = "idle"]]
    BY <1>6 DEF Armed
  <2>4. QED
    BY <1>2, <1>3, <2>1, <2>2, <2>3
<1>7. ASSUME NEW g \in Gens, NEW s \in Skills, HandleCreate(g, s)
      PROVE  walk' \in [Walkers -> Walk] /\ \A b \in Walkers : Placed(walk'[b])
  <2>1. [pc |-> "look", skill |-> s, gen |-> g] \in Walk /\ Placed([pc |-> "look", skill |-> s, gen |-> g])
    OBVIOUS
  <2>2. UNCHANGED walk \/ walk' = [walk EXCEPT ![g] = [pc |-> "look", skill |-> s, gen |-> g]]
    BY <1>7 DEF HandleCreate
  <2>3. QED
    BY <1>0, <1>2, <1>3, <2>1, <2>2
<1>8. ASSUME NEW g \in Gens, LoopVisit(g) \/ LoopExit(g)
      PROVE  walk' \in [Walkers -> Walk] /\ \A b \in Walkers : Placed(walk'[b])
  <2>1. /\ [pc |-> "idle", skill |-> None, gen |-> g] \in Walk /\ Placed([pc |-> "idle", skill |-> None, gen |-> g])
        /\ AtRest \in Walk /\ Placed(AtRest)
    BY DEF AtRest
  <2>2. walk' = [walk EXCEPT ![g] = [pc |-> "idle", skill |-> None, gen |-> g]] \/ walk' = [walk EXCEPT ![g] = AtRest]
    BY <1>8 DEF LoopVisit, LoopExit
  <2>3. QED
    BY <1>2, <1>3, <2>1, <2>2
<1>9. ASSUME NEW w \in Workers, TreeAgain(w) \/ TreeVisit(w)
      PROVE  walk' \in [Walkers -> Walk] /\ \A b \in Walkers : Placed(walk'[b])
  <2>1. AtRest \in Walk /\ Placed(AtRest)
    BY DEF AtRest
  <2>2. CASE UNCHANGED walk
    BY <1>0, <2>2
  <2>3. CASE walk' = [walk EXCEPT ![w] = AtRest]
    BY <1>2, <1>3, <2>1, <2>3
  <2>4. CASE TreeAgain(w) /\ fs = job[w].key.gen
             /\ walk' = [walk EXCEPT ![w] = [pc |-> "look", skill |-> job[w].key.skill, gen |-> job[w].key.gen]]
    <3>1. job[w].key \in Keys /\ fs \in Gens \cup {None}
      BY <2>4 DEF TreeAgain, Inv, JobInv, TypeOK, WatcherTypes
    <3>2. job[w].key.skill \in Skills /\ job[w].key.gen \in Gens
      BY <2>4, <3>1, Apart DEF Keys
    <3>3. [pc |-> "look", skill |-> job[w].key.skill, gen |-> job[w].key.gen] \in Walk
      BY <3>2
    <3>4. Placed([pc |-> "look", skill |-> job[w].key.skill, gen |-> job[w].key.gen])
      BY <3>2
    <3>5. QED
      BY <1>2, <1>3, <2>4, <3>3, <3>4
  <2>5. QED
    BY <1>9, <2>2, <2>3, <2>4 DEF TreeAgain, TreeVisit
<1>10. QED
  BY <1>0, <1>4, <1>5, <1>6, <1>7, <1>8, <1>9, WalkMoves

LEMMA JobStep ==
  ASSUME Inv, Next
  PROVE  job' \in [Workers -> [key : Keys \cup {None}, pc : {"free", "begin", "apply", "end", "tree"},
                               read : Contents]]
         /\ JobInv'
<1> DEFINE Job == [key : Keys \cup {None}, pc : {"free", "begin", "apply", "end", "tree"}, read : Contents]
<1> DEFINE Good(j, a) == /\ j.pc # "free" => j.key \in Keys
                         /\ j.pc = "apply" => j.read # Malformed
                         /\ j.pc = "tree" <=> a.pc # "off"
                         /\ a.pc # "idle"
<1>0. job \in [Workers -> Job] /\ \A w \in Workers : Good(job[w], walk[w])
  BY DEF Inv, TypeOK, WorkTypes, JobInv
<1>1. SUFFICES job' \in [Workers -> Job] /\ \A w \in Workers : Good(job'[w], walk'[w])
  BY DEF JobInv
<1>2. walk' \in [Walkers -> [pc : {"off", "idle", "look", "add", "record", "visit"},
                             skill : Skills \cup {None}, gen : Gens \cup {0}]]
      /\ DOMAIN walk = Walkers /\ Workers \subseteq Walkers
  BY WalkStep DEF Walkers, Inv, TypeOK, WorkTypes
<1>3. CASE UNCHANGED job /\ \E g \in Gens : \A a \in Walkers \ {g} : walk'[a] = walk[a]
  BY <1>0, <1>2, <1>3, Apart
<1>4. CASE UNCHANGED job /\ UNCHANGED walk
  BY <1>0, <1>4
<1>5. ASSUME NEW w \in Workers, NEW j \in Job, job' = [job EXCEPT ![w] = j],
             \A v \in Workers \ {w} : walk'[v] = walk[v], Good(j, walk'[w])
      PROVE  job' \in [Workers -> Job] /\ \A v \in Workers : Good(job'[v], walk'[v])
  BY <1>0, <1>5
<1>6. ASSUME NEW a \in Walkers, LookUp(a) \/ AddWatch(a) \/ Record(a)
      PROVE  job' \in [Workers -> Job] /\ \A w \in Workers : Good(job'[w], walk'[w])
  <2>1. walk[a].pc # "off" /\ UNCHANGED job
    BY <1>6 DEF LookUp, AddWatch, Record
  <2>2. \E pc \in {"add", "record", "visit"} : walk' = [walk EXCEPT ![a].pc = pc]
    BY <1>6 DEF LookUp, AddWatch, Record, WalkGoto
  <2>3. \A w \in Workers : (walk'[w].pc = "off" <=> walk[w].pc = "off") /\ (walk'[w].pc = "idle" => walk[w].pc = "idle")
    BY <1>2, <2>1, <2>2
  <2>4. QED
    BY <1>0, <2>1, <2>3
<1>7. ASSUME NEW g \in Gens, LoopVisit(g) \/ LoopExit(g) \/ \E s \in Skills : HandleCreate(g, s)
      PROVE  UNCHANGED job /\ \E h \in Gens : \A a \in Walkers \ {h} : walk'[a] = walk[a]
  BY <1>2, <1>7 DEF LoopVisit, LoopExit, HandleCreate
<1>8. ASSUME NEW q \in Requests, OpenWatcher(q) \/ Armed(q)
      PROVE  UNCHANGED job /\ \E h \in Gens : \A a \in Walkers \ {h} : walk'[a] = walk[a]
  <2>1. CASE OpenWatcher(q)
    BY <1>2, <2>1 DEF OpenWatcher, FreeGens
  <2>2. CASE Armed(q)
    BY <1>2, <2>2, BuildingIs DEF Armed
  <2>3. QED
    BY <1>8, <2>1, <2>2
<1>9. CASE Disarms \/ (\E g \in Gens, s \in Skills : HandleFile(g, s) \/ HandleRemove(g, s))
  BY <1>4, <1>9 DEF Disarms, RearmLock, IdleDisarm, Close, HandleFile, HandleRemove, threads
<1>10. NoJob \in Job /\ NoJob.pc = "free"
  BY Apart DEF NoJob, Contents
<1>11. ASSUME NEW w \in Workers, Fire(w)
       PROVE  job' \in [Workers -> Job] /\ \A v \in Workers : Good(job'[v], walk'[v])
  <2>1. PICK p \in pending : job' = [job EXCEPT ![w] = [key |-> p, pc |-> "begin", read |-> 0]]
    BY <1>11 DEF Fire
  <2>2. p \in Keys /\ 0 \in Contents
    BY Apart DEF Inv, TypeOK, WatcherTypes, Contents
  <2>3. [key |-> p, pc |-> "begin", read |-> 0] \in Job
    BY <2>2
  <2>4. job[w].pc = "free" /\ UNCHANGED walk
    BY <1>11 DEF Fire
  <2>5. Good([key |-> p, pc |-> "begin", read |-> 0], walk'[w])
    BY <1>0, <2>2, <2>4
  <2>6. QED
    BY <1>5, <2>1, <2>3, <2>4, <2>5
<1>12. ASSUME NEW w \in Workers, ReadFile(w)
       PROVE  job' \in [Workers -> Job] /\ \A v \in Workers : Good(job'[v], walk'[v])
  <2>1. PICK pc \in {"apply", "end"} :
          /\ job' = [job EXCEPT ![w].read = file[job[w].key.skill], ![w].pc = pc]
          /\ pc = "apply" => file[job[w].key.skill] # Malformed
    BY <1>12, Apart DEF ReadFile
  <2>2. job[w].pc = "begin" /\ UNCHANGED walk
    BY <1>12 DEF ReadFile
  <2>3. file[job[w].key.skill] \in Contents
    BY <1>0, <2>2 DEF Inv, TypeOK, DiskTypes, Keys
  <2>4. PICK j : j = [job[w] EXCEPT !.read = file[job[w].key.skill], !.pc = pc]
    OBVIOUS
  <2>5. job' = [job EXCEPT ![w] = j] /\ j \in Job
    BY <1>0, <2>1, <2>3, <2>4
  <2>6. j.key = job[w].key /\ j.pc = pc /\ j.read = file[job[w].key.skill]
    BY <1>0, <2>4
  <2>7. Good(j, walk'[w])
    BY <1>0, <2>1, <2>2, <2>6
  <2>8. QED
    BY <1>5, <2>2, <2>5, <2>7
<1>13. ASSUME NEW w \in Workers, Apply(w)
       PROVE  job' \in [Workers -> Job] /\ \A v \in Workers : Good(job'[v], walk'[v])
  <2>1. PICK j : j = [job[w] EXCEPT !.pc = "end"]
    OBVIOUS
  <2>2. job[w].pc = "apply" /\ UNCHANGED walk /\ job' = [job EXCEPT ![w] = j]
    BY <1>13, <2>1 DEF Apply, JobGoto
  <2>3. j \in Job /\ j.key = job[w].key /\ j.pc = "end"
    BY <1>0, <2>1
  <2>4. Good(j, walk'[w])
    BY <1>0, <2>2, <2>3
  <2>5. QED
    BY <1>5, <2>2, <2>3, <2>4
<1>14. ASSUME NEW w \in Workers, EndWrite(w)
       PROVE  job' \in [Workers -> Job] /\ \A v \in Workers : Good(job'[v], walk'[v])
  <2>1. job[w].pc = "end" /\ UNCHANGED walk /\ job' = [job EXCEPT ![w] = NoJob]
    BY <1>14 DEF EndWrite, JobDone
  <2>2. Good(NoJob, walk'[w])
    BY <1>0, <1>10, <2>1
  <2>3. QED
    BY <1>5, <1>10, <2>1, <2>2
<1>15. ASSUME NEW w \in Workers, TreeAgain(w)
       PROVE  job' \in [Workers -> Job] /\ \A v \in Workers : Good(job'[v], walk'[v])
  <2>1. job[w].pc = "begin"
    BY <1>15 DEF TreeAgain
  <2>2. CASE JobDone(w) /\ UNCHANGED walk
    <3>1. Good(NoJob, walk'[w])
      BY <1>0, <1>10, <2>1, <2>2
    <3>2. QED
      BY <1>5, <1>10, <2>2, <3>1 DEF JobDone
  <2>3. CASE /\ walk' = [walk EXCEPT ![w] = [pc |-> "look", skill |-> job[w].key.skill, gen |-> job[w].key.gen]]
             /\ JobGoto(w, "tree")
    <3>1. PICK j : j = [job[w] EXCEPT !.pc = "tree"]
      OBVIOUS
    <3>2. job' = [job EXCEPT ![w] = j] /\ j \in Job /\ j.key = job[w].key /\ j.pc = "tree"
      BY <1>0, <2>3, <3>1 DEF JobGoto
    <3>3. walk'[w].pc = "look" /\ \A v \in Workers \ {w} : walk'[v] = walk[v]
      BY <1>2, <2>3
    <3>4. Good(j, walk'[w])
      BY <1>0, <2>1, <3>2, <3>3
    <3>5. QED
      BY <1>5, <3>2, <3>3, <3>4
  <2>4. QED
    BY <1>15, <2>2, <2>3 DEF TreeAgain
<1>16. ASSUME NEW w \in Workers, TreeVisit(w)
       PROVE  job' \in [Workers -> Job] /\ \A v \in Workers : Good(job'[v], walk'[v])
  <2>1. walk'[w].pc = "off" /\ (\A v \in Workers \ {w} : walk'[v] = walk[v]) /\ job' = [job EXCEPT ![w] = NoJob]
    BY <1>2, <1>16 DEF TreeVisit, AtRest
  <2>2. Good(NoJob, walk'[w])
    BY <1>10, <2>1
  <2>3. QED
    BY <1>5, <1>10, <2>1, <2>2
<1> HIDE DEF Good, Job
<1>17. CASE UNCHANGED <<pending, jobs, job>>
  BY <1>3, <1>4, <1>6, <1>7, <1>8, <1>15, <1>16, <1>17, WalkMoves
<1>18. QED
  BY <1>3, <1>7, <1>9, <1>11, <1>12, <1>13, <1>14, <1>15, <1>16, <1>17, TimerMoves DEF Handles

---------------------------------------------------------------------------
(* The wait group.                                                         *)

LEMMA RunningChanges ==
  ASSUME Inv, NEW w \in Workers, NEW j, job' = [job EXCEPT ![w] = j]
  PROVE  /\ j.pc = "free" => Running' = Running \ {w}
         /\ j.pc # "free" => Running' = Running \cup {w}
  BY DEF Running, Inv, TypeOK, WorkTypes

LEMMA RunningFinite == IsFiniteSet(Running) /\ Cardinality(Running) \in Nat
  BY Apart, FS_Subset, FS_CardinalityType DEF Running

LEMMA RunningEnds ==
  ASSUME Inv, NEW w \in Workers, job[w].pc # "free", job' = [job EXCEPT ![w] = NoJob]
  PROVE  Cardinality(Running') = Cardinality(Running) - 1
<1>1. Running' = Running \ {w} /\ w \in Running
  BY RunningChanges DEF NoJob, Running
<1>2. QED
  BY <1>1, RunningFinite, FS_RemoveElement

LEMMA RunningKept ==
  ASSUME Inv, NEW w \in Workers, NEW j, job[w].pc # "free", j.pc # "free", job' = [job EXCEPT ![w] = j]
  PROVE  Running' = Running
<1>1. Running' = Running \cup {w} /\ w \in Running
  BY RunningChanges DEF Running
<1>2. QED
  BY <1>1

LEMMA TimerStep == Inv /\ Next => TimerInv'
<1> SUFFICES ASSUME Inv, Next PROVE TimerInv'
  OBVIOUS
<1>0. /\ IsFiniteSet(pending) /\ Single(pending)
      /\ jobs = Cardinality(pending) + Cardinality(Running)
      /\ Cardinality(pending) \in Nat /\ Cardinality(Running) \in Nat
  BY RunningFinite, FS_CardinalityType DEF Inv, TimerInv, JobsCounted, Running
<1>1. SUFFICES /\ IsFiniteSet(pending') /\ Single(pending')
               /\ jobs' = Cardinality(pending') + Cardinality(Running')
  BY DEF TimerInv, JobsCounted, Running, Single
<1> DEFINE Goal == /\ IsFiniteSet(pending') /\ Single(pending')
                   /\ jobs' = Cardinality(pending') + Cardinality(Running')
<1>2. UNCHANGED job => Running' = Running
  BY DEF Running
<1>3. ASSUME NEW keys, Schedulable(keys), ScheduleAll(keys), UNCHANGED job PROVE Goal
  <2>1. pending' = After(pending, keys) /\ jobs' = jobs + Added(pending, keys)
    BY <1>3 DEF ScheduleAll, After, Added
  <2>2. /\ IsFiniteSet(pending') /\ Single(pending')
        /\ Cardinality(pending') = Cardinality(pending) + Added(pending, keys)
    BY <1>0, <1>3, <2>1, Scheduling
  <2>3. Cardinality(pending') \in Nat
    BY <2>2, FS_CardinalityType
  <2>4. jobs' = Cardinality(pending') + Cardinality(Running)
    <3>1. jobs' = jobs + Added(pending, keys)
      BY <2>1
    <3>2. Added(pending, keys) \in Nat
      BY <1>3, AddedNat
    <3>3. QED
      BY <1>0, <2>2, <3>1, <3>2
  <2>5. QED
    BY <1>2, <1>3, <2>2, <2>4
<1>4. CASE Disarms
  <2>1. pending' = {} /\ jobs' = jobs - Cardinality(pending) /\ UNCHANGED job
    BY <1>4 DEF Disarms, RearmLock, IdleDisarm, Close, Disarm
  <2>2. Cardinality(pending') = 0 /\ IsFiniteSet(pending') /\ Single(pending')
    BY <2>1, FS_EmptySet DEF Single
  <2>3. QED
    BY <1>0, <1>2, <2>1, <2>2
<1>5. CASE Handles
  <2>1. PICK g \in Gens, s \in Skills : HandleFile(g, s) \/ HandleCreate(g, s) \/ HandleRemove(g, s)
    BY <1>5 DEF Handles
  <2>2. CASE HandleFile(g, s) \/ HandleRemove(g, s)
    <3>1. UNCHANGED job /\ \E k : ScheduleAll({k})
      BY <2>2 DEF HandleFile, HandleRemove, threads
    <3>2. QED
      BY <1>3, <3>1 DEF Schedulable
  <2>3. CASE HandleCreate(g, s)
    BY <1>0, <1>2, <2>3 DEF HandleCreate
  <2>4. QED
    BY <2>1, <2>2, <2>3
<1>6. ASSUME NEW g \in Gens, LoopVisit(g) PROVE Goal
  <2>1. PICK s : ScheduleAll(Present(s) \cup {Key("tree", s, g)})
    BY <1>6 DEF LoopVisit
  <2>2. Schedulable(Present(s) \cup {Key("tree", s, g)})
    <3>1. ~SameTimer(Key("sync", s, 0), Key("tree", s, g))
      BY DEF SameTimer, Key
    <3>2. QED
      BY <3>1, PresentOne DEF Schedulable
  <2>3. QED
    BY <1>3, <1>6, <2>1, <2>2 DEF LoopVisit
<1>7. ASSUME NEW w \in Workers, Fire(w) PROVE Goal
  <2>1. PICK p \in pending : /\ pending' = pending \ {p}
                             /\ job' = [job EXCEPT ![w] = [key |-> p, pc |-> "begin", read |-> 0]]
    BY <1>7 DEF Fire
  <2>2. job[w].pc = "free" /\ UNCHANGED jobs
    BY <1>7 DEF Fire
  <2>3. Running' = Running \cup {w} /\ w \notin Running
    <3>1. PICK j : j = [key |-> p, pc |-> "begin", read |-> 0]
      OBVIOUS
    <3>2. j.pc # "free" /\ job' = [job EXCEPT ![w] = j]
      BY <2>1, <3>1
    <3>3. QED
      BY <2>2, <3>2, RunningChanges DEF Running
  <2>4. Cardinality(Running') = Cardinality(Running) + 1
    BY <2>3, RunningFinite, FS_AddElement
  <2>5. IsFiniteSet(pending') /\ Cardinality(pending') = Cardinality(pending) - 1
    BY <1>0, <2>1, FS_RemoveElement
  <2>6. Single(pending')
    BY <1>0, <2>1 DEF Single
  <2>7. QED
    BY <1>0, <2>2, <2>4, <2>5, <2>6
<1>8. ASSUME NEW w \in Workers, ReadFile(w) PROVE Goal
  <2>1. PICK pc \in {"apply", "end"} :
          job' = [job EXCEPT ![w].read = file[job[w].key.skill], ![w].pc = pc]
    BY <1>8 DEF ReadFile
  <2>2. job[w].pc = "begin" /\ UNCHANGED <<pending, jobs>>
    BY <1>8 DEF ReadFile
  <2>3. PICK j : j = [job[w] EXCEPT !.read = file[job[w].key.skill], !.pc = pc]
    OBVIOUS
  <2>4. job' = [job EXCEPT ![w] = j] /\ j.pc = pc
    BY <2>1, <2>3 DEF Inv, TypeOK, WorkTypes
  <2>5. Running' = Running
    BY <2>2, <2>4, RunningKept
  <2>6. QED
    BY <1>0, <2>2, <2>5
<1>9. ASSUME NEW w \in Workers, Apply(w) PROVE Goal
  <2>1. PICK j : j = [job[w] EXCEPT !.pc = "end"]
    OBVIOUS
  <2>2. job' = [job EXCEPT ![w] = j] /\ j.pc = "end" /\ job[w].pc = "apply" /\ UNCHANGED <<pending, jobs>>
    BY <1>9, <2>1 DEF Apply, JobGoto, watcher, Inv, TypeOK, WorkTypes
  <2>3. QED
    BY <1>0, <2>2, RunningKept
<1>10. ASSUME NEW w \in Workers, job[w].pc # "free", JobDone(w), UNCHANGED pending PROVE Goal
  <2>1. Cardinality(Running') = Cardinality(Running) - 1 /\ jobs' = jobs - 1
    BY <1>10, RunningEnds DEF JobDone
  <2>2. QED
    BY <1>0, <1>10, <2>1
<1>11. ASSUME NEW w \in Workers, TreeAgain(w) PROVE Goal
  <2>1. job[w].pc = "begin" /\ UNCHANGED pending
    BY <1>11 DEF TreeAgain
  <2>2. CASE JobDone(w)
    BY <1>10, <2>1, <2>2
  <2>3. CASE JobGoto(w, "tree") /\ UNCHANGED jobs
    <3>1. PICK j : j = [job[w] EXCEPT !.pc = "tree"]
      OBVIOUS
    <3>2. job' = [job EXCEPT ![w] = j] /\ j.pc = "tree"
      BY <2>3, <3>1 DEF JobGoto, Inv, TypeOK, WorkTypes
    <3>3. QED
      BY <1>0, <2>1, <2>3, <3>2, RunningKept
  <2>4. QED
    BY <1>11, <2>2, <2>3 DEF TreeAgain
<1>12. ASSUME NEW w \in Workers, TreeVisit(w) PROVE Goal
  <2>1. PICK keys : keys = Present(walk[w].skill)
    OBVIOUS
  <2>2. /\ pending' = After(pending, keys) /\ jobs' = jobs - 1 + Added(pending, keys)
        /\ job' = [job EXCEPT ![w] = NoJob] /\ job[w].pc # "free"
    BY <1>12, <2>1 DEF TreeVisit, After, Added, Inv, JobInv
  <2>3. Schedulable(keys)
    BY <2>1, PresentOne DEF Schedulable
  <2>4. /\ IsFiniteSet(pending') /\ Single(pending')
        /\ Cardinality(pending') = Cardinality(pending) + Added(pending, keys)
    BY <1>0, <2>2, <2>3, Scheduling
  <2>5. Cardinality(Running') = Cardinality(Running) - 1
    BY <2>2, RunningEnds
  <2>6. Added(pending, keys) \in Nat
    BY <2>3, AddedNat
  <2>7. QED
    BY <1>0, <2>2, <2>4, <2>5, <2>6
<1>13. ASSUME NEW w \in Workers, EndWrite(w) PROVE Goal
  BY <1>10, <1>13 DEF EndWrite
<1>14. CASE UNCHANGED <<pending, jobs, job>>
  BY <1>0, <1>2, <1>14
<1>15. QED
  BY <1>4, <1>5, <1>6, <1>7, <1>8, <1>9, <1>11, <1>12, <1>13, <1>14, TimerMoves

---------------------------------------------------------------------------
(* Requests and their lock.                                                *)

LEMMA RequestMoves == Next => Roles \/ UNCHANGED <<rearmMu, req, scan, todo>>
<1> SUFFICES ASSUME Next, ~Roles PROVE UNCHANGED <<rearmMu, req, scan, todo>>
  OBVIOUS
<1>1. CASE Disk \/ RefreshScan \/ RefreshWrite
  BY <1>1 DEF Disk, MakeRoot, MakeDir, WriteFile, RemoveFile, RemoveDir, RefreshScan, RefreshWrite,
     threads
<1>2. CASE TimePasses \/ IdleCheck \/ IdleDisarm \/ Close \/ CloseReturns
  BY <1>2 DEF TimePasses, IdleCheck, IdleDisarm, Close, CloseReturns, threads
<1>3. CASE \E g \in Gens : Loop(g)
  BY <1>3 DEF Loop, HandleFile, HandleCreate, HandleRemove, LookUp, AddWatch, Record,
     LoopVisit, LoopExit, threads
<1>4. CASE \E w \in Workers : Fire(w) \/ Callback(w)
  BY <1>4 DEF Fire, Callback, ReadFile, Apply, EndWrite, TreeAgain, LookUp, AddWatch, Record, TreeVisit
<1>5. QED
  BY <1>1, <1>2, <1>3, <1>4 DEF Next, Roles

LEMMA RequestStep == Inv /\ Next => RequestTypes' /\ LockInv' /\ TodoInv'
<1> SUFFICES ASSUME Inv, Next PROVE RequestTypes' /\ LockInv' /\ TodoInv'
  OBVIOUS
<1> DEFINE Pc == {"idle", "check", "rearm"} \cup Rearming
<1> DEFINE Scan == [roots : SUBSET Roots, files : [Skills -> Contents]]
<1>0. /\ rearmMu \in Requests \cup {None} /\ req \in [Requests -> Pc]
      /\ scan \in Scan /\ todo \subseteq Skills
      /\ \A q \in Requests : req[q] \in Rearming <=> rearmMu = q
      /\ \A q \in Requests : req[q] = "insert" => todo \subseteq Found(scan.files)
  BY DEF Inv, TypeOK, RequestTypes, LockInv, TodoInv
<1>1. CASE UNCHANGED <<rearmMu, req, scan, todo>>
  BY <1>0, <1>1 DEF RequestTypes, LockInv, TodoInv
<1>2. CASE Roles
  <2>1. PICK q \in Requests : Touch(q) \/ Check(q) \/ Rearm(q)
    BY <1>2 DEF Roles
  <2>2. ASSUME NEW pc \in Pc, req' = [req EXCEPT ![q] = pc]
        PROVE  /\ req' \in [Requests -> Pc]
               /\ \A r \in Requests \ {q} : req'[r] = req[r]
               /\ req'[q] = pc
    BY <1>0, <2>2
  <2>3. CASE Touch(q) \/ Check(q)
    <3>1. PICK pc \in {"check", "rearm", "idle"} : req' = [req EXCEPT ![q] = pc]
      BY <2>3 DEF Touch, Check, ReqGoto
    <3>2. UNCHANGED <<rearmMu, scan, todo>> /\ req[q] \notin Rearming
      BY <2>3 DEF Touch, Check, Rearming
    <3>3. pc \in Pc /\ pc \notin Rearming
      BY DEF Rearming
    <3>4. RequestTypes'
      BY <1>0, <2>2, <3>1, <3>2, <3>3 DEF RequestTypes
    <3>5. LockInv' /\ TodoInv'
      BY <1>0, <2>2, <3>1, <3>2, <3>3 DEF LockInv, TodoInv, Rearming
    <3>6. QED
      BY <3>4, <3>5
  <2>4. CASE RearmLock(q)
    <3>1. /\ req' = [req EXCEPT ![q] = "scan"] /\ rearmMu = None /\ rearmMu' = q
          /\ UNCHANGED <<scan, todo>>
      BY <2>4 DEF RearmLock, ReqGoto
    <3>2. "scan" \in Pc /\ "scan" \in Rearming
      BY DEF Rearming
    <3>3. RequestTypes'
      BY <1>0, <2>2, <3>1, <3>2 DEF RequestTypes
    <3>4. LockInv' /\ TodoInv'
      BY <1>0, <2>2, <3>1, <3>2, Apart DEF LockInv, TodoInv
    <3>5. QED
      BY <3>3, <3>4
  <2>5. ASSUME req[q] \in Rearming, NEW pc \in Rearming, req' = [req EXCEPT ![q] = pc],
               UNCHANGED rearmMu, scan' \in Scan, todo' \subseteq Skills,
               pc = "insert" => todo' \subseteq Found(scan'.files)
        PROVE  RequestTypes' /\ LockInv' /\ TodoInv'
    <3>1. RequestTypes'
      BY <1>0, <2>2, <2>5 DEF RequestTypes
    <3>2. LockInv'
      BY <1>0, <2>2, <2>5 DEF LockInv
    <3>3. \A r \in Requests \ {q} : req[r] \notin Rearming
      BY <1>0, <2>5
    <3>4. \A r \in Requests : req'[r] = "insert" => r = q /\ pc = "insert"
      BY <1>0, <2>2, <2>5, <3>3 DEF Rearming
    <3>5. TodoInv'
      BY <2>5, <3>4 DEF TodoInv
    <3>6. QED
      BY <3>1, <3>2, <3>5
  <2>6. CASE Discover(q)
    <3>1. /\ scan' = [roots |-> Roots \cap there, files |-> file] /\ todo' = Found(file)
          /\ req' = [req EXCEPT ![q] = "insert"] /\ UNCHANGED rearmMu /\ req[q] = "scan"
      BY <2>6 DEF Discover, ReqGoto
    <3>2. scan' \in Scan /\ scan'.files = file
      BY <3>1 DEF Inv, TypeOK, DiskTypes
    <3>3. todo' \subseteq Skills
      BY <3>1 DEF Found
    <3>4. "insert" \in Rearming /\ "scan" \in Rearming
      BY DEF Rearming
    <3>5. QED
      BY <2>5, <3>1, <3>2, <3>3, <3>4
  <2>7. CASE SyncInsert(q) \/ SyncDelete(q) \/ WatchDir(q)
    <3>1. todo' \subseteq todo /\ UNCHANGED <<rearmMu, req, scan>>
      BY <2>7 DEF SyncInsert, SyncDelete, WatchDir
    <3>2. QED
      BY <1>0, <3>1 DEF RequestTypes, LockInv, TodoInv
  <2>8. CASE SyncList(q)
    <3>1. todo' \subseteq Skills /\ req' = [req EXCEPT ![q] = "delete"] /\ UNCHANGED <<rearmMu, scan>>
          /\ req[q] = "insert"
      BY <2>8 DEF SyncList, ReqGoto, ToDelete
    <3>2. "insert" \in Rearming /\ "delete" \in Rearming
      BY DEF Rearming
    <3>3. QED
      BY <1>0, <2>5, <3>1, <3>2
  <2>9. CASE EndSync(q)
    <3>1. req' = [req EXCEPT ![q] = "open"] /\ UNCHANGED <<rearmMu, scan, todo>> /\ req[q] = "delete"
      BY <2>9 DEF EndSync, ReqGoto
    <3>2. "open" \in Rearming /\ "delete" \in Rearming
      BY DEF Rearming
    <3>3. QED
      BY <1>0, <2>5, <3>1, <3>2
  <2>10. CASE OpenWatcher(q)
    <3>1. req' = [req EXCEPT ![q] = "walk"] /\ UNCHANGED <<rearmMu, scan>> /\ req[q] = "open"
          /\ todo' \subseteq Skills
      BY <2>10 DEF OpenWatcher, ReqGoto
    <3>2. "open" \in Rearming /\ "walk" \in Rearming
      BY DEF Rearming
    <3>3. QED
      BY <1>0, <2>5, <3>1, <3>2
  <2>11. CASE SyncFails(q) \/ OpenFails(q) \/ Armed(q)
    <3>1. /\ req[q] \in Rearming /\ rearmMu' = None /\ scan' = NoScan /\ todo' \subseteq Skills
          /\ req' = [req EXCEPT ![q] = "idle"] /\ todo' \in {todo, {}}
      BY <1>0, <2>11 DEF SyncFails, OpenFails, Armed, ReqGoto, Rearming
    <3>2. NoScan \in Scan
      BY Apart DEF NoScan, Contents
    <3>3. "idle" \in Pc /\ "idle" \notin Rearming
      BY DEF Rearming
    <3>4. \A r \in Requests : req'[r] \notin Rearming
      BY <1>0, <2>2, <3>1, <3>3
    <3>5. RequestTypes'
      BY <2>2, <3>1, <3>2, <3>3 DEF RequestTypes
    <3>6. LockInv'
      BY <3>1, <3>4, Apart DEF LockInv
    <3>7. TodoInv'
      BY <3>4 DEF TodoInv, Rearming
    <3>8. QED
      BY <3>5, <3>6, <3>7
  <2>12. QED
    BY <2>1, <2>3, <2>4, <2>6, <2>7, <2>8, <2>9, <2>10, <2>11 DEF Rearm
<1>3. QED
  BY <1>1, <1>2, RequestMoves

---------------------------------------------------------------------------
(* Generations.                                                            *)

LEMMA OffStays ==
  ASSUME Inv, Next, NEW g \in Gens, walk[g].pc = "off", ~(\E q \in Requests : Armed(q))
  PROVE  walk'[g].pc = "off"
<1>1. walk' \in [Walkers -> [pc : {"off", "idle", "look", "add", "record", "visit"},
                             skill : Skills \cup {None}, gen : Gens \cup {0}]]
      /\ walk \in [Walkers -> [pc : {"off", "idle", "look", "add", "record", "visit"},
                             skill : Skills \cup {None}, gen : Gens \cup {0}]]
      /\ Gens \subseteq Walkers
  BY WalkStep DEF Inv, TypeOK, WorkTypes, Walkers
<1>2. ASSUME NEW a \in Walkers, LookUp(a) \/ AddWatch(a) \/ Record(a) PROVE walk'[g].pc = "off"
  <2>1. walk[a].pc # "off" /\ \E pc : walk' = [walk EXCEPT ![a].pc = pc]
    BY <1>2 DEF LookUp, AddWatch, Record, WalkGoto
  <2>2. QED
    BY <1>1, <2>1
<1>3. ASSUME NEW q \in Requests, OpenWatcher(q) PROVE walk'[g].pc = "off"
  BY <1>1, <1>3 DEF OpenWatcher
<1>4. ASSUME NEW h \in Gens, LoopVisit(h) \/ LoopExit(h) \/ \E s \in Skills : HandleCreate(h, s)
      PROVE  walk'[g].pc = "off"
  BY <1>1, <1>4 DEF LoopVisit, LoopExit, HandleCreate, Take, AtRest
<1>5. ASSUME NEW w \in Workers, TreeAgain(w) \/ TreeVisit(w) PROVE walk'[g].pc = "off"
  <2>1. w # g /\ w \in Walkers
    BY Apart DEF Walkers
  <2>2. QED
    BY <1>1, <1>5, <2>1 DEF TreeAgain, TreeVisit
<1>6. QED
  BY <1>2, <1>3, <1>4, <1>5, WalkMoves

LEMMA GenMoves ==
  Next => Disarms \/ Roles \/ (\E a \in Walkers : AddWatch(a)) \/ Disk
          \/ UNCHANGED <<fs, open, kern, rearmMu, req>>
<1> SUFFICES ASSUME Next, ~(Disarms \/ Roles \/ (\E a \in Walkers : AddWatch(a)) \/ Disk)
             PROVE  UNCHANGED <<fs, open, kern, rearmMu, req>>
  OBVIOUS
<1>1. CASE RefreshScan \/ RefreshWrite \/ TimePasses \/ IdleCheck \/ CloseReturns
  BY <1>1 DEF RefreshScan, RefreshWrite, TimePasses, IdleCheck, CloseReturns, threads, watcher, inotify
<1>2. CASE \E g \in Gens : Loop(g)
  BY <1>2 DEF Loop, HandleFile, HandleCreate, HandleRemove, LookUp, Record,
     LoopVisit, LoopExit, threads, watcher, inotify, Walkers
<1>3. CASE \E w \in Workers : Fire(w) \/ Callback(w)
  BY <1>3 DEF Fire, Callback, ReadFile, Apply, EndWrite, TreeAgain, LookUp, Record, TreeVisit,
     watcher, inotify, Walkers
<1>4. QED
  BY <1>1, <1>2, <1>3 DEF Next, Roles, Disarms

LEMMA GenStep == Inv /\ Next => GenInv'
<1> SUFFICES ASSUME Inv, Next PROVE GenInv'
  OBVIOUS
<1>0. /\ rearmMu # None => fs = None
      /\ fs # None => open = {fs}
      /\ rearmMu = None /\ fs = None => open = {}
      /\ \A q \in Requests : req[q] \in Rearming \ {"walk"} => open = {}
      /\ \A q \in Requests : req[q] = "walk" => \E g \in Gens : open = {g} /\ walk[g].pc = "off"
      /\ \A g \in Gens \ open : kern[g] = {}
  BY DEF Inv, GenInv
<1>1. /\ \A q \in Requests : req[q] \in Rearming <=> rearmMu = q
      /\ rearmMu \in Requests \cup {None}
      /\ open \subseteq Gens /\ kern \in [Gens -> SUBSET Nodes]
      /\ req \in [Requests -> {"idle", "check", "rearm"} \cup Rearming]
  BY DEF Inv, LockInv, TypeOK, RequestTypes, InotifyTypes
<1>2. CASE UNCHANGED <<fs, open, rearmMu, req>> /\ (\A g \in Gens \ open : kern'[g] = {})
           /\ ~(\E q \in Requests : Armed(q))
  <2>1. ASSUME NEW q \in Requests, req[q] = "walk"
        PROVE  \E g \in Gens : open = {g} /\ walk'[g].pc = "off"
    BY <1>0, <1>2, <2>1, OffStays
  <2>2. QED
    BY <1>0, <1>2, <2>1 DEF GenInv
<1>3. CASE UNCHANGED <<fs, open, kern, rearmMu, req>>
  <2>1. ~(\E q \in Requests : Armed(q))
    BY <1>1, <1>3, Apart DEF Armed, ReqGoto
  <2>2. QED
    BY <1>0, <1>2, <1>3, <2>1
<1>4. CASE Disk
  <2>1. UNCHANGED <<fs, open, rearmMu, req, walk>> /\ \A g \in Gens : kern'[g] \subseteq kern[g]
    BY <1>1, <1>4 DEF Disk, MakeRoot, MakeDir, WriteFile, RemoveFile, RemoveDir, inotify, watcher, threads
  <2>2. QED
    BY <1>0, <1>1, <2>1 DEF GenInv
<1>5. ASSUME NEW a \in Walkers, AddWatch(a) PROVE GenInv'
  <2>1. UNCHANGED <<fs, open, rearmMu, req>>
    BY <1>5 DEF AddWatch, watcher
  <2>2. \A g \in Gens \ open : kern'[g] = {}
    BY <1>0, <1>1, <1>5 DEF AddWatch
  <2>3. ~(\E q \in Requests : Armed(q))
    BY <1>1, <2>1 DEF Armed, ReqGoto
  <2>4. QED
    BY <1>2, <2>1, <2>2, <2>3
<1>6. CASE IdleDisarm
  <2>1. fs' = None /\ open' = open \ {fs} /\ UNCHANGED <<rearmMu, req, walk>>
        /\ kern' = [g \in Gens |-> IF g = fs THEN {} ELSE kern[g]]
    BY <1>6 DEF IdleDisarm, Disarm
  <2>2. CASE fs = None
    <3>1. open' = open /\ \A g \in Gens \ open : kern'[g] = {}
      BY <1>0, <1>1, <2>1, <2>2, Apart
    <3>2. QED
      BY <1>0, <2>1, <2>2, <3>1 DEF GenInv
  <2>3. CASE fs # None
    <3>1. rearmMu = None /\ open' = {}
      BY <1>0, <2>1, <2>3
    <3>2. \A q \in Requests : req[q] \notin Rearming
      BY <1>1, <3>1, Apart
    <3>3. \A g \in Gens : kern'[g] = {}
      BY <1>0, <2>1, <2>3
    <3>4. QED
      BY <2>1, <3>1, <3>2, <3>3 DEF GenInv, Rearming
  <2>4. QED
    BY <2>2, <2>3
<1>7. CASE Close
  <2>1. fs' = None /\ open' = open \ {fs} /\ UNCHANGED <<rearmMu, req>>
        /\ kern' = [g \in Gens |-> IF g = fs THEN {} ELSE kern[g]]
        /\ \A q \in Requests : req[q] = "idle"
    BY <1>7 DEF Close, Disarm
  <2>2. rearmMu = None
    BY <1>1, <2>1 DEF Rearming
  <2>3. open' = {} /\ \A g \in Gens : kern'[g] = {}
    BY <1>0, <2>1, <2>2
  <2>4. QED
    BY <2>1, <2>2, <2>3 DEF GenInv, Rearming
<1>8. ASSUME NEW q \in Requests, RearmLock(q) PROVE GenInv'
  <2>1. fs' = None /\ open' = open \ {fs} /\ rearmMu = None /\ req' = [req EXCEPT ![q] = "scan"]
        /\ kern' = [g \in Gens |-> IF g = fs THEN {} ELSE kern[g]]
    BY <1>8 DEF RearmLock, Disarm, ReqGoto
  <2>2. open' = {} /\ \A g \in Gens : kern'[g] = {}
    BY <1>0, <2>1
  <2>3. \A r \in Requests : req'[r] # "walk"
    BY <1>1, <2>1, Apart DEF Rearming
  <2>4. rearmMu' = q
    BY <1>8 DEF RearmLock
  <2>5. QED
    BY <2>1, <2>2, <2>3, <2>4, Apart DEF GenInv
<1>9. ASSUME NEW q \in Requests, Touch(q) \/ Check(q) PROVE GenInv'
  <2>1. UNCHANGED <<fs, open, kern, rearmMu, walk>> /\ req[q] \notin Rearming
        /\ \E pc \in {"check", "rearm", "idle"} : req' = [req EXCEPT ![q] = pc]
    BY <1>9 DEF Touch, Check, ReqGoto, Rearming, inotify, watcher
  <2>2. \A r \in Requests : req'[r] \in Rearming => req'[r] = req[r]
    BY <1>1, <2>1 DEF Rearming
  <2>3. \A r \in Requests : req'[r] \in Rearming \ {"walk"} => req[r] \in Rearming \ {"walk"}
    BY <2>2
  <2>4. \A r \in Requests : req'[r] = "walk" => req[r] = "walk"
    BY <2>2 DEF Rearming
  <2>5. QED
    BY <1>0, <2>1, <2>3, <2>4 DEF GenInv
<1>10. ASSUME NEW q \in Requests, Discover(q) \/ SyncInsert(q) \/ SyncList(q) \/ SyncDelete(q) \/ EndSync(q)
       PROVE  GenInv'
  <2>1. UNCHANGED <<fs, open, kern, rearmMu, walk>> /\ req[q] \in Rearming \ {"walk"}
        /\ \E pc \in {"insert", "delete", "open"} : req' = [req EXCEPT ![q] = pc] \/ req' = req
    BY <1>10 DEF Discover, SyncInsert, SyncList, SyncDelete, EndSync, ReqGoto, Rearming, inotify, watcher
  <2>2. open = {}
    BY <1>0, <2>1
  <2>3. \A r \in Requests : req'[r] # "walk"
    BY <1>0, <1>1, <2>1, <2>2 DEF Rearming
  <2>4. QED
    BY <1>0, <2>1, <2>2, <2>3 DEF GenInv
<1>11. ASSUME NEW q \in Requests, SyncFails(q) \/ OpenFails(q) PROVE GenInv'
  <2>1. UNCHANGED <<fs, open, kern>> /\ req[q] \in Rearming \ {"walk"} /\ rearmMu' = None
    BY <1>11 DEF SyncFails, OpenFails, Rearming, inotify, watcher
  <2>2. open = {} /\ fs = None
    BY <1>0, <1>1, <2>1, Apart
  <2>3. req' = [req EXCEPT ![q] = "idle"]
    BY <1>11 DEF SyncFails, OpenFails, ReqGoto
  <2>4. \A r \in Requests : req'[r] # "walk"
    BY <1>1, <2>1, <2>3 DEF Rearming
  <2>5. QED
    BY <1>0, <2>1, <2>2, <2>4 DEF GenInv
<1>12. ASSUME NEW q \in Requests, OpenWatcher(q) PROVE GenInv'
  <2>1. PICK g \in FreeGens : open' = open \cup {g} /\ kern' = [kern EXCEPT ![g] = scan.roots \ watched]
    BY <1>12 DEF OpenWatcher
  <2>2. req[q] = "open" /\ UNCHANGED <<fs, rearmMu>> /\ req' = [req EXCEPT ![q] = "walk"]
    BY <1>12 DEF OpenWatcher, ReqGoto
  <2>3. open = {} /\ rearmMu = q
    BY <1>0, <1>1, <2>2 DEF Rearming
  <2>4. g \in Gens /\ walk[g].pc = "off"
    BY DEF FreeGens
  <2>5. ~(\E r \in Requests : Armed(r))
    BY <1>1, <2>2, <2>3, Apart DEF Armed
  <2>6. walk'[g].pc = "off"
    BY <2>4, <2>5, OffStays
  <2>7. open' = {g} /\ \A h \in Gens \ {g} : kern'[h] = {}
    BY <1>0, <1>1, <2>1, <2>3
  <2>8. \A r \in Requests : req'[r] \in Rearming => req'[r] = "walk"
    BY <1>1, <2>2, <2>3
  <2>9. fs = None
    BY <1>0, <2>3, Apart
  <2>10. QED
    BY <2>2, <2>3, <2>4, <2>6, <2>7, <2>8, <2>9, Apart DEF GenInv
<1>13. ASSUME NEW q \in Requests, WatchDir(q) PROVE GenInv'
  <2>1. Building \in Gens /\ open = {Building}
    BY <1>13, BuildingIs DEF WatchDir
  <2>2. UNCHANGED <<fs, open, rearmMu, req>>
    BY <1>13 DEF WatchDir
  <2>3. UNCHANGED kern \/ \E s \in todo : kern' = [kern EXCEPT ![Building] = @ \cup {s}]
    BY <1>13 DEF WatchDir
  <2>4. \A g \in Gens \ open : kern'[g] = {}
    BY <1>0, <1>1, <2>1, <2>3
  <2>5. ~(\E r \in Requests : Armed(r))
    BY <1>1, <2>2 DEF Armed, ReqGoto
  <2>6. QED
    BY <1>2, <2>2, <2>4, <2>5
<1>14. ASSUME NEW q \in Requests, Armed(q) PROVE GenInv'
  <2>1. Building \in Gens /\ open = {Building}
    BY <1>14, BuildingIs DEF Armed
  <2>2. fs' = Building /\ rearmMu' = None /\ UNCHANGED <<open, kern>> /\ req' = [req EXCEPT ![q] = "idle"]
        /\ req[q] = "walk"
    BY <1>14 DEF Armed, ReqGoto, inotify
  <2>3. rearmMu = q
    BY <1>1, <2>2 DEF Rearming
  <2>4. \A r \in Requests : req'[r] \notin Rearming
    BY <1>1, <2>2, <2>3 DEF Rearming
  <2>5. fs' # None /\ open' = {fs'}
    BY <2>1, <2>2, Apart
  <2>6. QED
    BY <1>0, <2>2, <2>4, <2>5 DEF GenInv, Rearming
<1>15. Roles => GenInv'
  BY <1>8, <1>9, <1>10, <1>11, <1>12, <1>13, <1>14 DEF Roles, Rearm
<1>16. Disarms => GenInv'
  BY <1>6, <1>7, <1>8 DEF Disarms
<1>17. QED
  BY <1>3, <1>4, <1>5, <1>15, <1>16, GenMoves

---------------------------------------------------------------------------
(* Own writes.                                                             *)

Syncing == \E q \in Requests : req[q] \in {"insert", "delete"}

LEMMA WritersFinite == IsFiniteSet(Writers) /\ Cardinality(Writers) \in Nat
  BY Apart, FS_Subset, FS_CardinalityType DEF Writers

LEMMA WritersChange ==
  ASSUME Inv, NEW w \in Workers, NEW j, job' = [job EXCEPT ![w] = j]
  PROVE  /\ j.pc \in {"apply", "end"} => Writers' = Writers \cup {w}
         /\ j.pc \notin {"apply", "end"} => Writers' = Writers \ {w}
  BY DEF Writers, Inv, TypeOK, WorkTypes

LEMMA WritingMoves ==
  Next => Roles
          \/ (\E w \in Workers : Fire(w) \/ ReadFile(w) \/ Apply(w) \/ EndWrite(w) \/ TreeAgain(w) \/ TreeVisit(w))
          \/ UNCHANGED <<writing, job, req>>
<1> SUFFICES ASSUME Next, ~Roles,
               ~(\E w \in Workers : Fire(w) \/ ReadFile(w) \/ Apply(w) \/ EndWrite(w) \/ TreeAgain(w) \/ TreeVisit(w))
             PROVE  UNCHANGED <<writing, job, req>>
  OBVIOUS
<1>1. CASE Disk \/ RefreshScan \/ RefreshWrite
  BY <1>1 DEF Disk, MakeRoot, MakeDir, WriteFile, RemoveFile, RemoveDir, RefreshScan, RefreshWrite,
     threads, watcher
<1>2. CASE TimePasses \/ IdleCheck \/ IdleDisarm \/ Close \/ CloseReturns
  BY <1>2 DEF TimePasses, IdleCheck, IdleDisarm, Close, CloseReturns, threads, watcher
<1>3. CASE \E g \in Gens : Loop(g)
  BY <1>3 DEF Loop, HandleFile, HandleCreate, HandleRemove, LookUp, AddWatch, Record,
     LoopVisit, LoopExit, threads, watcher
<1>4. CASE \E w \in Workers : Fire(w) \/ Callback(w)
  BY <1>4 DEF Callback, LookUp, AddWatch, Record, watcher
<1>5. QED
  BY <1>1, <1>2, <1>3, <1>4 DEF Next, Roles

LEMMA WritingStep == Inv /\ Next => WritingInv' /\ writing' \in Nat
<1> SUFFICES ASSUME Inv, Next PROVE WritingInv' /\ writing' \in Nat
  OBVIOUS
<1> DEFINE Sync == IF Syncing THEN 1 ELSE 0
<1>0. writing = Cardinality(Writers) + Sync /\ Cardinality(Writers) \in Nat /\ Sync \in {0, 1}
  BY WritersFinite DEF Inv, WritingInv, Syncing
<1>1. SUFFICES writing' = Cardinality(Writers') + (IF Syncing' THEN 1 ELSE 0) /\ Cardinality(Writers') \in Nat
  BY DEF WritingInv, Syncing, Writers
<1> DEFINE Goal == writing' = Cardinality(Writers') + (IF Syncing' THEN 1 ELSE 0) /\ Cardinality(Writers') \in Nat
<1>2. UNCHANGED job => Writers' = Writers
  BY DEF Writers
<1>3. UNCHANGED req => Syncing' = Syncing
  BY DEF Syncing
<1>4. /\ \A q \in Requests : req[q] \in Rearming <=> rearmMu = q
      /\ req \in [Requests -> {"idle", "check", "rearm"} \cup Rearming]
  BY DEF Inv, LockInv, TypeOK, RequestTypes
<1>5. ASSUME NEW q \in Requests, NEW pc, req' = [req EXCEPT ![q] = pc],
             req[q] \in {"insert", "delete"} <=> pc \in {"insert", "delete"},
             UNCHANGED <<writing, job>>
      PROVE  Goal
  <2>1. Syncing' <=> Syncing
    BY <1>4, <1>5 DEF Syncing
  <2>2. QED
    BY <1>0, <1>2, <1>5, <2>1
<1>6. ASSUME NEW q \in Requests, Touch(q) \/ Check(q) \/ RearmLock(q) \/ OpenWatcher(q) \/ OpenFails(q) \/ Armed(q) \/ SyncList(q)
      PROVE  Goal
  <2>1. /\ UNCHANGED <<writing, job>>
        /\ req[q] # "delete"
        /\ \E pc \in {"check", "rearm", "idle", "scan", "walk", "delete"} :
             req' = [req EXCEPT ![q] = pc] /\ (req[q] = "insert" <=> pc = "delete")
    BY <1>6 DEF Touch, Check, RearmLock, OpenWatcher, OpenFails, Armed, SyncList, ReqGoto, watcher
  <2>2. PICK pc \in {"check", "rearm", "idle", "scan", "walk", "delete"} :
          req' = [req EXCEPT ![q] = pc] /\ (req[q] = "insert" <=> pc = "delete")
    BY <2>1
  <2>3. req[q] \in {"insert", "delete"} <=> pc \in {"insert", "delete"}
    BY <2>1, <2>2
  <2>4. QED
    BY <1>5, <2>1, <2>2, <2>3
<1>7. ASSUME NEW q \in Requests, SyncInsert(q) \/ SyncDelete(q) \/ WatchDir(q) PROVE Goal
  <2>1. UNCHANGED <<writing, job, req>>
    BY <1>7 DEF SyncInsert, SyncDelete, WatchDir, watcher
  <2>2. QED
    BY <1>0, <1>2, <1>3, <2>1
<1>8. ASSUME NEW q \in Requests, Discover(q) PROVE Goal
  <2>1. req' = [req EXCEPT ![q] = "insert"] /\ req[q] = "scan" /\ writing' = writing + 1 /\ UNCHANGED job
    BY <1>8 DEF Discover, ReqGoto
  <2>2. Syncing' /\ ~Syncing
    BY <1>4, <2>1 DEF Syncing, Rearming
  <2>3. QED
    BY <1>0, <1>2, <2>1, <2>2
<1>9. ASSUME NEW q \in Requests, EndSync(q) \/ SyncFails(q) PROVE Goal
  <2>1. /\ req[q] \in {"insert", "delete"} /\ writing' = writing - 1 /\ UNCHANGED job
        /\ \E pc \in {"open", "idle"} : req' = [req EXCEPT ![q] = pc]
    BY <1>9 DEF EndSync, SyncFails, ReqGoto
  <2>2. Syncing
    BY <2>1 DEF Syncing
  <2>3. ~Syncing'
    BY <1>4, <2>1 DEF Syncing, Rearming
  <2>4. QED
    BY <1>0, <1>2, <2>1, <2>2, <2>3
<1>10. ASSUME NEW w \in Workers, NEW j, job' = [job EXCEPT ![w] = j], UNCHANGED req,
              job[w].pc \in {"apply", "end"} <=> j.pc \in {"apply", "end"}, UNCHANGED writing
       PROVE  Goal
  <2>1. Writers' = Writers
    BY <1>10, WritersChange DEF Writers
  <2>2. QED
    BY <1>0, <1>3, <1>10, <2>1

<1>11. ASSUME NEW w \in Workers, Fire(w) PROVE Goal
  <2>1. PICK p \in pending : job' = [job EXCEPT ![w] = [key |-> p, pc |-> "begin", read |-> 0]]
    BY <1>11 DEF Fire
  <2>2. PICK j : j = [key |-> p, pc |-> "begin", read |-> 0]
    OBVIOUS
  <2>3. job' = [job EXCEPT ![w] = j] /\ j.pc = "begin" /\ job[w].pc = "free" /\ UNCHANGED <<writing, req>>
    BY <1>11, <2>1, <2>2 DEF Fire
  <2>4. QED
    BY <1>10, <2>3
<1>12. ASSUME NEW w \in Workers, ReadFile(w) PROVE Goal
  <2>1. PICK pc \in {"apply", "end"} :
          job' = [job EXCEPT ![w].read = file[job[w].key.skill], ![w].pc = pc]
    BY <1>12 DEF ReadFile
  <2>2. PICK j : j = [job[w] EXCEPT !.read = file[job[w].key.skill], !.pc = pc]
    OBVIOUS
  <2>3. job' = [job EXCEPT ![w] = j] /\ j.pc = pc
    BY <2>1, <2>2 DEF Inv, TypeOK, WorkTypes
  <2>4. job[w].pc = "begin" /\ writing' = writing + 1 /\ UNCHANGED req
    BY <1>12 DEF ReadFile
  <2>5. Writers' = Writers \cup {w} /\ w \notin Writers
    BY <2>3, <2>4, WritersChange DEF Writers
  <2>6. Cardinality(Writers') = Cardinality(Writers) + 1
    BY <2>5, WritersFinite, FS_AddElement
  <2>7. QED
    BY <1>0, <1>3, <2>4, <2>6
<1>13. ASSUME NEW w \in Workers, Apply(w) PROVE Goal
  <2>1. PICK j : j = [job[w] EXCEPT !.pc = "end"]
    OBVIOUS
  <2>2. job' = [job EXCEPT ![w] = j] /\ j.pc = "end" /\ job[w].pc = "apply" /\ UNCHANGED <<writing, req>>
    BY <1>13, <2>1 DEF Apply, JobGoto, watcher, Inv, TypeOK, WorkTypes
  <2>3. QED
    BY <1>10, <2>2
<1>14. ASSUME NEW w \in Workers, EndWrite(w) PROVE Goal
  <2>1. job[w].pc = "end" /\ writing' = writing - 1 /\ job' = [job EXCEPT ![w] = NoJob] /\ UNCHANGED req
    BY <1>14 DEF EndWrite, JobDone
  <2>2. Writers' = Writers \ {w} /\ w \in Writers
    <3>1. NoJob.pc = "free"
      BY DEF NoJob
    <3>2. QED
      BY <2>1, <3>1, WritersChange DEF Writers
  <2>3. Cardinality(Writers') = Cardinality(Writers) - 1 /\ IsFiniteSet(Writers')
    BY <2>2, WritersFinite, FS_RemoveElement
  <2>4. Cardinality(Writers') \in Nat
    BY <2>3, FS_CardinalityType
  <2>5. QED
    BY <1>0, <1>3, <2>1, <2>3, <2>4
<1>15. ASSUME NEW w \in Workers, TreeAgain(w) \/ TreeVisit(w) PROVE Goal
  <2>1. job[w].pc \notin {"apply", "end"} /\ UNCHANGED <<writing, req>>
    BY <1>15 DEF TreeAgain, TreeVisit, Inv, JobInv
  <2>2. CASE job' = [job EXCEPT ![w] = NoJob]
    BY <1>10, <2>1, <2>2 DEF NoJob
  <2>3. CASE JobGoto(w, "tree")
    <3>1. PICK j : j = [job[w] EXCEPT !.pc = "tree"]
      OBVIOUS
    <3>2. job' = [job EXCEPT ![w] = j] /\ j.pc = "tree"
      BY <2>3, <3>1 DEF JobGoto, Inv, TypeOK, WorkTypes
    <3>3. QED
      BY <1>10, <2>1, <3>2
  <2>4. QED
    BY <1>15, <2>2, <2>3 DEF TreeAgain, TreeVisit, JobDone
<1>16. CASE UNCHANGED <<writing, job, req>>
  BY <1>0, <1>2, <1>3, <1>16
<1>17. CASE Roles
  BY <1>6, <1>7, <1>8, <1>9, <1>17 DEF Roles, Rearm
<1>18. QED
  BY <1>11, <1>12, <1>13, <1>14, <1>15, <1>16, <1>17, WritingMoves

LEMMA StampStep == Inv /\ Next => StampInv'
<1> SUFFICES ASSUME Inv, Next PROVE StampInv'
  OBVIOUS
<1>0. /\ refresh.scanned # None => refresh.runs # 0
      /\ refresh.runs = 0 /\ writing = 0 => ~stale
      /\ refresh \in [runs : 0..MaxRefresh, scanned : [Skills -> Contents] \cup {None}, unseen : BOOLEAN]
      /\ writing = Cardinality(Writers) + (IF Syncing THEN 1 ELSE 0)
      /\ Cardinality(Writers) \in Nat /\ writing \in Nat
  BY WritersFinite DEF Inv, StampInv, TypeOK, IndexTypes, WritingInv, Syncing, WatcherTypes
<1>1. CASE RefreshScan \/ RefreshWrite
  <2>1. PICK n : n = refresh.runs
    OBVIOUS
  <2>2. n \in Nat /\ (refresh'.runs = n + 1 \/ (refresh'.runs = n /\ refresh.scanned # None))
    <3>1. refresh.runs \in 0..MaxRefresh
      BY <1>0
    <3>2. CASE RefreshScan
      BY <1>0, <2>1, <3>1, <3>2, Apart DEF RefreshScan
    <3>3. CASE RefreshWrite
      BY <1>0, <2>1, <3>1, <3>3, Apart DEF RefreshWrite
    <3>4. QED
      BY <1>1, <3>2, <3>3
  <2>3. refresh'.runs # 0
    BY <1>0, <2>1, <2>2
  <2>4. QED
    BY <2>3 DEF StampInv
<1>2. ASSUME refresh'.runs = refresh.runs, refresh'.scanned = refresh.scanned, writing' # 0 \/ ~stale'
      PROVE  StampInv'
  BY <1>0, <1>2 DEF StampInv
<1>3. ASSUME NEW q \in Requests, Discover(q) PROVE StampInv'
  <2>1. refresh'.runs = refresh.runs /\ refresh'.scanned = refresh.scanned /\ writing' = writing + 1
    BY <1>0, <1>3 DEF Discover
  <2>2. QED
    BY <1>0, <1>2, <2>1
<1>4. ASSUME NEW q \in Requests, SyncInsert(q) \/ SyncDelete(q) PROVE StampInv'
  <2>1. Syncing /\ UNCHANGED <<refresh, writing>>
    BY <1>4 DEF SyncInsert, SyncDelete, Syncing, watcher
  <2>2. QED
    BY <1>0, <1>2, <2>1
<1>5. ASSUME NEW q \in Requests, EndSync(q) \/ SyncFails(q) \/ Armed(q) PROVE StampInv'
  BY <1>2, <1>5 DEF EndSync, SyncFails, Armed
<1>6. ASSUME NEW w \in Workers, Apply(w) PROVE StampInv'
  <2>1. w \in Writers /\ UNCHANGED <<refresh, writing>>
    BY <1>6 DEF Apply, Writers, watcher
  <2>2. Cardinality(Writers) # 0
    BY <2>1, WritersFinite, FS_EmptySet
  <2>3. QED
    BY <1>0, <1>2, <2>1, <2>2
<1>7. ASSUME NEW w \in Workers, EndWrite(w) PROVE StampInv'
  BY <1>2, <1>7 DEF EndWrite
<1>8. CASE UNCHANGED <<registry, refresh>>
  <2>1. UNCHANGED <<stale, refresh>>
    BY <1>8 DEF registry
  <2>2. CASE UNCHANGED writing
    BY <1>0, <2>1, <2>2 DEF StampInv
  <2>3. ASSUME NEW w \in Workers, ReadFile(w) PROVE StampInv'
    BY <1>0, <1>2, <2>1, <2>3 DEF ReadFile
  <2>4. ASSUME NEW w \in Workers, Fire(w) \/ TreeAgain(w) \/ TreeVisit(w) PROVE UNCHANGED writing
    BY <2>4 DEF Fire, TreeAgain, TreeVisit
  <2>5. ASSUME NEW q \in Requests,
               Touch(q) \/ Check(q) \/ RearmLock(q) \/ SyncList(q) \/ OpenWatcher(q) \/ OpenFails(q) \/ WatchDir(q)
        PROVE  UNCHANGED writing
    BY <2>5 DEF Touch, Check, RearmLock, SyncList, OpenWatcher, OpenFails, WatchDir, watcher
  <2>6. Roles => StampInv'
    BY <1>3, <1>4, <1>5, <2>2, <2>5 DEF Roles, Rearm
  <2>7. QED
    BY <1>6, <1>7, <2>2, <2>3, <2>4, <2>6, WritingMoves
<1>9. QED
  BY <1>1, <1>3, <1>4, <1>5, <1>6, <1>7, <1>8, IndexMoves

WatcherKinds ==
  /\ fs \in Gens \cup {None} /\ roots \subseteq Roots
  /\ watched \subseteq Nodes /\ pending \subseteq Keys
  /\ idler \in {"wait", "disarm"} /\ closer \in {"no", "wait", "done"}

LEMMA FlagStep == Inv /\ Next => armed' \in BOOLEAN /\ quiet' \in BOOLEAN
<1> SUFFICES ASSUME Inv, Next PROVE armed' \in BOOLEAN /\ quiet' \in BOOLEAN
  OBVIOUS
<1>1. armed \in BOOLEAN /\ quiet \in BOOLEAN
  BY DEF Inv, TypeOK, WatcherTypes
<1> DEFINE Goal == armed' \in {armed, TRUE, FALSE} /\ quiet' \in {quiet, TRUE, FALSE}
<1> SUFFICES Goal
  BY <1>1
<1>2. CASE Disk \/ RefreshScan \/ RefreshWrite
  BY <1>2 DEF Disk, MakeRoot, MakeDir, WriteFile, RemoveFile, RemoveDir, RefreshScan, RefreshWrite, watcher
<1>3. CASE TimePasses \/ IdleCheck \/ IdleDisarm \/ Close \/ CloseReturns
  BY <1>3 DEF TimePasses, IdleCheck, IdleDisarm, Close, CloseReturns, Disarm, watcher
<1>4. CASE Roles
  BY <1>4 DEF Roles, Touch, Check, Rearm, RearmLock, Discover, SyncInsert, SyncList, SyncDelete,
     EndSync, SyncFails, OpenWatcher, OpenFails, WatchDir, Armed, Disarm, watcher
<1>5. CASE \E g \in Gens : Loop(g)
  BY <1>5 DEF Loop, HandleFile, HandleCreate, HandleRemove, LookUp, AddWatch, Record,
     LoopVisit, LoopExit, Take, watcher
<1>6. CASE \E w \in Workers : Fire(w) \/ Callback(w)
  BY <1>6 DEF Fire, Callback, ReadFile, Apply, EndWrite, TreeAgain, LookUp, AddWatch, Record,
     TreeVisit, watcher
<1>7. QED
  BY <1>2, <1>3, <1>4, <1>5, <1>6 DEF Next, Roles

LEMMA WatcherStep == Inv /\ Next => WatcherTypes'
<1> SUFFICES ASSUME Inv, Next PROVE WatcherTypes'
  OBVIOUS
<1>1. writing' \in Nat
  BY WritingStep
<1>2. jobs' \in Nat
  <2>1. /\ jobs' = Cardinality(pending') + Cardinality({w \in Workers : job'[w].pc # "free"})
        /\ IsFiniteSet(pending')
    BY TimerStep DEF TimerInv, JobsCounted
  <2>2. IsFiniteSet({w \in Workers : job'[w].pc # "free"})
    BY Apart, FS_Subset
  <2>3. Cardinality(pending') \in Nat /\ Cardinality({w \in Workers : job'[w].pc # "free"}) \in Nat
    BY <2>1, <2>2, FS_CardinalityType
  <2>4. QED
    BY <2>1, <2>3
<1>3. \A s \in Skills, g \in Gens : {Key("sync", s, 0), Key("forget", s, 0), Key("tree", s, g)} \subseteq Keys
  BY DEF Key, Keys
<1>4. \A s \in Skills : Present(s) \subseteq Keys
  BY <1>3 DEF Present, Key, Keys
<1>5. WatcherKinds
  BY DEF Inv, TypeOK, WatcherTypes, WatcherKinds
<1> SUFFICES WatcherKinds'
  BY <1>1, <1>2, FlagStep DEF WatcherTypes, WatcherKinds
<1>6. ASSUME UNCHANGED <<fs, roots, watched, pending, idler, closer>> PROVE WatcherKinds'
  BY <1>5, <1>6 DEF WatcherKinds
<1>7. CASE Disk \/ RefreshScan \/ RefreshWrite
  BY <1>6, <1>7 DEF Disk, MakeRoot, MakeDir, WriteFile, RemoveFile, RemoveDir, RefreshScan,
     RefreshWrite, watcher, threads, clock
<1>8. CASE TimePasses \/ IdleCheck \/ IdleDisarm \/ Close \/ CloseReturns
  BY <1>5, <1>8 DEF WatcherKinds, TimePasses, IdleCheck, IdleDisarm, Close, CloseReturns, Disarm,
     watcher, threads, clock
<1>9. ASSUME NEW q \in Requests, OpenWatcher(q) PROVE WatcherKinds'
  <2>1. /\ roots' = scan.roots /\ watched' = watched \cup scan.roots
        /\ UNCHANGED <<fs, pending, idler, closer>>
    BY <1>9 DEF OpenWatcher, clock
  <2>2. scan.roots \subseteq Roots
    BY DEF Inv, TypeOK, RequestTypes
  <2>3. QED
    BY <1>5, <2>1, <2>2 DEF WatcherKinds, Nodes
<1>10. ASSUME NEW q \in Requests, WatchDir(q) PROVE WatcherKinds'
  <2>1. /\ watched' \subseteq watched \cup todo
        /\ UNCHANGED <<fs, roots, pending, idler, closer>>
    BY <1>10 DEF WatchDir, clock
  <2>2. todo \subseteq Nodes
    BY DEF Inv, TypeOK, RequestTypes, Nodes
  <2>3. QED
    BY <1>5, <2>1, <2>2 DEF WatcherKinds
<1>11. ASSUME NEW q \in Requests, Armed(q) PROVE WatcherKinds'
  <2>1. Building \in Gens
    BY <1>11, BuildingIs DEF Armed
  <2>2. QED
    BY <1>5, <1>11, <2>1 DEF WatcherKinds, Armed, clock
<1>12. CASE Roles
  <2>1. PICK q \in Requests : Touch(q) \/ Check(q) \/ Rearm(q)
    BY <1>12 DEF Roles
  <2>2. CASE Touch(q) \/ Check(q) \/ RearmLock(q)
    BY <1>5, <2>2 DEF WatcherKinds, Touch, Check, RearmLock, Disarm, watcher, clock
  <2>3. CASE Discover(q) \/ SyncInsert(q) \/ SyncList(q) \/ SyncDelete(q) \/ EndSync(q) \/ SyncFails(q) \/ OpenFails(q)
    BY <1>6, <2>3 DEF Discover, SyncInsert, SyncList, SyncDelete, EndSync, SyncFails, OpenFails,
       watcher, clock
  <2>4. QED
    BY <1>9, <1>10, <1>11, <2>1, <2>2, <2>3 DEF Rearm
<1>13. ASSUME NEW a \in Walkers, LookUp(a) \/ AddWatch(a) \/ Record(a) PROVE WatcherKinds'
  <2>1. /\ watched' \subseteq watched \cup {walk[a].skill} /\ (walk[a].pc = "record" \/ UNCHANGED watched)
        /\ UNCHANGED <<fs, roots, pending, idler, closer>>
    BY <1>13 DEF LookUp, AddWatch, Record, watcher, clock
  <2>2. walk[a].pc = "record" => walk[a].skill \in Nodes
    BY DEF Inv, WalkInv, Nodes
  <2>3. QED
    BY <1>5, <2>1, <2>2 DEF WatcherKinds
<1>14. ASSUME NEW keys, keys \subseteq Keys, pending' = After(pending, keys),
              UNCHANGED <<fs, roots, watched, idler, closer>>
       PROVE  WatcherKinds'
  BY <1>5, <1>14 DEF WatcherKinds, After
<1>15. ASSUME NEW g \in Gens, NEW s \in Skills, HandleFile(g, s) \/ HandleCreate(g, s) \/ HandleRemove(g, s)
       PROVE  WatcherKinds'
  <2>1. CASE HandleCreate(g, s)
    BY <1>5, <2>1 DEF WatcherKinds, HandleCreate, Take, clock
  <2>2. CASE HandleFile(g, s) \/ HandleRemove(g, s)
    <3>1. PICK keys \in {{Key("sync", s, 0)}, {Key("forget", s, 0)}} : ScheduleAll(keys)
      BY <2>2 DEF HandleFile, HandleRemove
    <3>2. keys \subseteq Keys
      BY <1>3
    <3>3. pending' = After(pending, keys)
      BY <3>1 DEF ScheduleAll, After
    <3>4. UNCHANGED <<fs, roots, watched, idler, closer>>
      BY <2>2 DEF HandleFile, HandleRemove, Take, threads, clock
    <3>5. QED
      BY <1>14, <3>2, <3>3, <3>4
  <2>3. QED
    BY <1>15, <2>1, <2>2
<1>16. ASSUME NEW g \in Gens, LoopVisit(g) PROVE WatcherKinds'
  <2>1. PICK keys : keys = Present(walk[g].skill) \cup {Key("tree", walk[g].skill, g)}
    OBVIOUS
  <2>2. walk[g].skill \in Skills
    BY <1>16 DEF LoopVisit, Inv, WalkInv, Walkers
  <2>3. keys \subseteq Keys
    BY <1>3, <1>4, <2>1, <2>2
  <2>4. pending' = After(pending, keys) /\ UNCHANGED <<fs, roots, watched, idler, closer>>
    BY <1>16, <2>1 DEF LoopVisit, ScheduleAll, After, clock
  <2>5. QED
    BY <1>14, <2>3, <2>4
<1>17. ASSUME NEW g \in Gens, LoopExit(g) PROVE WatcherKinds'
  BY <1>6, <1>17 DEF LoopExit, watcher, clock
<1>18. ASSUME NEW w \in Workers, TreeVisit(w) PROVE WatcherKinds'
  <2>1. PICK keys : keys = Present(walk[w].skill)
    OBVIOUS
  <2>2. walk[w].skill \in Skills
    BY <1>18 DEF TreeVisit, Inv, WalkInv, Walkers
  <2>3. keys \subseteq Keys
    BY <1>4, <2>1, <2>2
  <2>4. pending' = After(pending, keys) /\ UNCHANGED <<fs, roots, watched, idler, closer>>
    BY <1>18, <2>1 DEF TreeVisit, After, clock
  <2>5. QED
    BY <1>14, <2>3, <2>4
<1>19. ASSUME NEW w \in Workers, Fire(w) PROVE WatcherKinds'
  BY <1>5, <1>19 DEF WatcherKinds, Fire, clock
<1>20. ASSUME NEW w \in Workers, ReadFile(w) \/ Apply(w) \/ EndWrite(w) \/ TreeAgain(w) PROVE WatcherKinds'
  BY <1>6, <1>20 DEF ReadFile, Apply, EndWrite, TreeAgain, watcher, clock
<1>21. CASE \E g \in Gens : Loop(g)
  BY <1>13, <1>15, <1>16, <1>17, <1>21 DEF Loop, Walkers
<1>22. CASE \E w \in Workers : Fire(w) \/ Callback(w)
  BY <1>13, <1>18, <1>19, <1>20, <1>22 DEF Callback, Walkers
<1>23. QED
  BY <1>7, <1>8, <1>12, <1>21, <1>22 DEF Next, Roles

---------------------------------------------------------------------------
(* Theorems.                                                               *)

LEMMA InvInit == Init => Inv
<1> SUFFICES ASSUME Init PROVE Inv
  OBVIOUS
<1>1. JobInv /\ WalkInv
  <2>1. \A a \in Walkers : walk[a] = AtRest
    BY DEF Init
  <2>2. \A w \in Workers : job[w] = NoJob /\ walk[w] = AtRest
    BY <2>1 DEF Init, Walkers
  <2>3. QED
    BY <2>1, <2>2 DEF JobInv, WalkInv, AtRest, NoJob
<1>2. TimerInv /\ WritingInv
  <2>1. {w \in Workers : job[w].pc # "free"} = {} /\ Writers = {}
    BY DEF Init, NoJob, Writers
  <2>2. pending = {} /\ jobs = 0 /\ writing = 0
    BY DEF Init
  <2>3. ~(\E q \in Requests : req[q] \in {"insert", "delete"})
    BY DEF Init
  <2>4. Cardinality({}) = 0 /\ IsFiniteSet({})
    BY FS_EmptySet
  <2>5. QED
    BY <2>1, <2>2, <2>3, <2>4 DEF TimerInv, JobsCounted, WritingInv, Single
<1>3. LockInv /\ GenInv
  BY Apart DEF Init, LockInv, GenInv, Rearming
<1>4. StampInv /\ TodoInv
  BY DEF Init, StampInv, TodoInv
<1>5. QED
  BY <1>1, <1>2, <1>3, <1>4, InitTypes DEF Inv

LEMMA InvStep == Inv /\ [Next]_vars => Inv'
<1> SUFFICES ASSUME Inv, [Next]_vars PROVE Inv'
  OBVIOUS
<1>1. CASE Next
  <2>1. TypeOK'
    <3>1. WorkTypes'
      BY <1>1, WalkStep, JobStep DEF WorkTypes
    <3>2. DiskTypes' /\ IndexTypes' /\ InotifyTypes' /\ WatcherTypes' /\ RequestTypes'
      BY <1>1, DiskStep, IndexStep, InotifyStep, WatcherStep, RequestStep DEF Inv
    <3>3. QED
      BY <3>1, <3>2 DEF TypeOK
  <2>2. JobInv' /\ WalkInv' /\ TimerInv' /\ WritingInv'
    BY <1>1, JobStep, WalkStep, TimerStep, WritingStep
  <2>3. LockInv' /\ GenInv' /\ StampInv' /\ TodoInv'
    BY <1>1, RequestStep, GenStep, StampStep
  <2>4. QED
    BY <2>1, <2>2, <2>3 DEF Inv
<1>2. CASE UNCHANGED vars
  BY <1>2 DEF vars, disk, registry, inotify, watcher, clock, threads, Inv, TypeOK, DiskTypes, IndexTypes,
     InotifyTypes, WatcherTypes, RequestTypes, WorkTypes, JobInv, WalkInv, TimerInv, JobsCounted, WritingInv,
     Writers, LockInv, GenInv, StampInv, TodoInv
<1>3. QED
  BY <1>1, <1>2

LEMMA InvAlways == Spec => []Inv
  BY InvInit, InvStep, PTL DEF Spec

(* The watcher's fields, the disk, the index and every request, event loop  *)
(* and callback have their types.                                           *)
THEOREM TypeCorrect == Spec => []TypeOK
<1>1. Inv => TypeOK
  BY DEF Inv
<1>2. QED
  BY <1>1, InvAlways, PTL

(* The count of the wait group is what runs or may still fire.             *)
THEOREM JobsAreCounted == Spec => []JobsCounted
<1>1. Inv => JobsCounted
  BY DEF Inv, TimerInv
<1>2. QED
  BY <1>1, InvAlways, PTL

(* Rearming, the idle clock and Close leave one open fsnotify watcher.     *)
THEOREM WatcherIsOne == Spec => []OneWatcher
<1>1. Inv => OneWatcher
  <2> SUFFICES ASSUME Inv PROVE OneWatcher
    OBVIOUS
  <2>1. open = {} \/ \E g : open = {g}
    <3>1. CASE fs # None \/ rearmMu = None
      BY <3>1 DEF Inv, GenInv
    <3>2. CASE rearmMu # None
      BY <3>2 DEF Inv, GenInv, LockInv, TypeOK, RequestTypes
    <3>3. QED
      BY <3>1, <3>2
  <2>2. Cardinality(open) <= 1
    <3>1. Cardinality(open) \in {0, 1}
      BY <2>1, FS_EmptySet, FS_Singleton
    <3>2. QED
      BY <3>1
  <2>3. QED
    BY <2>2 DEF OneWatcher, Inv, GenInv
<1>2. QED
  BY <1>1, InvAlways, PTL

(* However own writes overlap, the last to end notes the stamp.            *)
THEOREM WritesAreNoted == Spec => []OwnWritesNoted
<1>1. Inv => OwnWritesNoted
  BY DEF Inv, StampInv, OwnWritesNoted
<1>2. QED
  BY <1>1, InvAlways, PTL

---------------------------------------------------------------------------
(* What a request and a callback have read is what is on disk. *)
LookInv ==
  /\ \A q \in Requests : req[q] \in {"insert", "delete"} => scan.files = file
  /\ \A q \in Requests : req[q] = "delete" => \A s \in todo : file[s] = 0
  /\ \A w \in Workers : job[w].pc = "apply" => job[w].read = file[job[w].key.skill]

LEMMA FileMoves ==
  ASSUME EditsWhileArming = FALSE, EditsWhileApplying = FALSE
  PROVE  Next => \/ UNCHANGED file
                 \/ /\ rearmMu = None /\ \A w \in Workers : job[w].pc # "apply"
                    /\ UNCHANGED <<index, req, scan, todo, job>>
<1> SUFFICES ASSUME Next PROVE \/ UNCHANGED file
                               \/ /\ rearmMu = None /\ \A w \in Workers : job[w].pc # "apply"
                                  /\ UNCHANGED <<index, req, scan, todo, job>>
  OBVIOUS
<1>1. CASE Disk
  BY <1>1 DEF Disk, MakeRoot, MakeDir, WriteFile, RemoveFile, RemoveDir, MayEdit, registry, threads
<1>2. CASE UNCHANGED disk
  BY <1>2 DEF disk
<1>3. QED
  BY <1>1, <1>2, DiskMoves

(* A callback goes on to change the registry only with what it just read. *)
LEMMA ApplyMoves ==
  ASSUME Inv, Next, NEW w \in Workers, job'[w].pc = "apply"
  PROVE  \/ job'[w] = job[w]
         \/ /\ job'[w].key = job[w].key /\ job'[w].read = file[job[w].key.skill]
            /\ UNCHANGED file
<1> DEFINE Job == [key : Keys \cup {None}, pc : {"free", "begin", "apply", "end", "tree"}, read : Contents]
           Goal == \/ job'[w] = job[w]
                   \/ /\ job'[w].key = job[w].key /\ job'[w].read = file[job[w].key.skill]
                      /\ UNCHANGED file
<1>0. job \in [Workers -> Job]
  BY DEF Inv, TypeOK, WorkTypes
<1>1. CASE UNCHANGED job
  BY <1>1
<1>2. ASSUME NEW v \in Workers, NEW j, job' = [job EXCEPT ![v] = j], j.pc # "apply" PROVE Goal
  BY <1>0, <1>2
<1>3. NoJob.pc # "apply"
  BY DEF NoJob
<1>4. ASSUME NEW v \in Workers, Fire(v) PROVE Goal
  <2>1. PICK p : job' = [job EXCEPT ![v] = [key |-> p, pc |-> "begin", read |-> 0]]
    BY <1>4 DEF Fire
  <2>2. QED
    BY <1>2, <2>1
<1>5. ASSUME NEW v \in Workers, ReadFile(v) PROVE Goal
  <2>1. PICK pc : job' = [job EXCEPT ![v].read = file[job[v].key.skill], ![v].pc = pc]
    BY <1>5 DEF ReadFile
  <2>2. UNCHANGED file
    BY <1>5 DEF ReadFile, disk
  <2>3. QED
    BY <1>0, <2>1, <2>2
<1>6. ASSUME NEW v \in Workers, Apply(v) PROVE Goal
  <2>1. job' = [job EXCEPT ![v].pc = "end"]
    BY <1>6 DEF Apply, JobGoto
  <2>2. QED
    BY <1>0, <2>1
<1>7. ASSUME NEW v \in Workers, EndWrite(v) \/ TreeVisit(v) PROVE Goal
  BY <1>2, <1>3, <1>7 DEF EndWrite, TreeVisit, JobDone
<1>8. ASSUME NEW v \in Workers, TreeAgain(v) PROVE Goal
  <2>1. job' = [job EXCEPT ![v].pc = "tree"] \/ job' = [job EXCEPT ![v] = NoJob]
    BY <1>8 DEF TreeAgain, JobGoto, JobDone
  <2>2. QED
    BY <1>0, <1>3, <2>1
<1>9. ASSUME NEW a, LookUp(a) \/ AddWatch(a) \/ Record(a) PROVE UNCHANGED job
  BY <1>9 DEF LookUp, AddWatch, Record
<1>10. CASE \E v \in Workers : Fire(v) \/ Callback(v)
  <2> HIDE DEF Goal
  <2>1. QED
    BY <1>1, <1>4, <1>5, <1>6, <1>7, <1>8, <1>9, <1>10 DEF Callback, Goal
<1>11. CASE \E g \in Gens : Loop(g)
  <2>1. UNCHANGED job
    BY <1>9, <1>11 DEF Loop, HandleFile, HandleCreate, HandleRemove, LoopVisit, LoopExit, threads
  <2>2. QED
    BY <1>1, <2>1
<1>12. CASE Disk \/ RefreshScan \/ RefreshWrite \/ TimePasses \/ IdleCheck \/ IdleDisarm \/ Close \/ CloseReturns
  <2>1. UNCHANGED job
    BY <1>12 DEF Disk, MakeRoot, MakeDir, WriteFile, RemoveFile, RemoveDir, RefreshScan, RefreshWrite, TimePasses,
       IdleCheck, IdleDisarm, Close, CloseReturns, threads
  <2>2. QED
    BY <1>1, <2>1
<1>13. CASE \E q \in Requests : Touch(q) \/ Check(q) \/ Rearm(q)
  <2>1. UNCHANGED job
    BY <1>13 DEF Touch, Check, Rearm, RearmLock, Discover, SyncInsert, SyncList, SyncDelete,
       EndSync, SyncFails, OpenWatcher, OpenFails, WatchDir, Armed
  <2>2. QED
    BY <1>1, <2>1
<1>14. QED
  BY <1>10, <1>11, <1>12, <1>13 DEF Next

LEMMA LookStep ==
  ASSUME EditsWhileArming = FALSE, EditsWhileApplying = FALSE
  PROVE  Inv /\ LookInv /\ [Next]_vars => LookInv'
<1> SUFFICES ASSUME Inv, LookInv, [Next]_vars PROVE LookInv'
  OBVIOUS
<1>1. CASE UNCHANGED vars
  BY <1>1 DEF vars, disk, threads, LookInv
<1>2. CASE Next
  <2>1. \A w \in Workers : job'[w].pc = "apply" => job'[w].read = file'[job'[w].key.skill]
    <3> SUFFICES ASSUME NEW w \in Workers, job'[w].pc = "apply"
                 PROVE  job'[w].read = file'[job'[w].key.skill]
      OBVIOUS
    <3>1. CASE UNCHANGED file
      BY <1>2, <3>1, ApplyMoves DEF LookInv
    <3>2. CASE (\A v \in Workers : job[v].pc # "apply") /\ UNCHANGED job
      BY <3>2
    <3>3. QED
      BY <1>2, <3>1, <3>2, FileMoves
  <2>2. \A q \in Requests : req[q] \in Rearming <=> rearmMu = q
    BY DEF Inv, LockInv
  <2>3. CASE UNCHANGED <<req, scan, todo>>
    <3>1. CASE UNCHANGED file
      BY <2>1, <2>3, <3>1 DEF LookInv
    <3>2. CASE rearmMu = None
      <4>1. \A q \in Requests : req[q] \notin {"insert", "delete"}
        BY <2>2, <3>2, Apart DEF Rearming
      <4>2. QED
        BY <2>1, <2>3, <4>1 DEF LookInv
    <3>3. QED
      BY <1>2, <3>1, <3>2, FileMoves
  <2>4. CASE Roles
    <3>1. PICK q \in Requests : Touch(q) \/ Check(q) \/ Rearm(q)
      BY <2>4 DEF Roles
    <3>2. UNCHANGED file
      BY <3>1 DEF Touch, Check, Rearm, RearmLock, Discover, SyncInsert, SyncList, SyncDelete,
         EndSync, SyncFails, OpenWatcher, OpenFails, WatchDir, Armed, disk
    <3>3. req \in [Requests -> {"idle", "check", "rearm"} \cup Rearming]
      BY DEF Inv, TypeOK, RequestTypes
    <3>4. ASSUME NEW pc, req' = [req EXCEPT ![q] = pc]
          PROVE  req'[q] = pc /\ \A r \in Requests \ {q} : req'[r] = req[r]
      BY <3>3, <3>4
    <3>5. CASE Touch(q) \/ Check(q) \/ RearmLock(q)
      <4>1. PICK pc \in {"check", "rearm", "idle", "scan"} : req' = [req EXCEPT ![q] = pc]
        BY <3>5 DEF Touch, Check, RearmLock, ReqGoto
      <4>2. UNCHANGED <<scan, todo>>
        BY <3>5 DEF Touch, Check, RearmLock
      <4>3. \A r \in Requests : req'[r] \in {"insert", "delete"} => req'[r] = req[r]
        BY <3>4, <4>1
      <4>4. QED
        BY <2>1, <3>2, <4>2, <4>3 DEF LookInv
    <3>6. ASSUME req[q] \in Rearming, NEW pc, req' = [req EXCEPT ![q] = pc],
                 pc \in {"insert", "delete"} => scan'.files = file,
                 pc = "delete" => \A s \in todo' : file[s] = 0
          PROVE  LookInv'
      <4>1. \A r \in Requests \ {q} : req[r] \notin {"insert", "delete"}
        BY <2>2, <3>6 DEF Rearming
      <4>2. \A r \in Requests : req'[r] \in {"insert", "delete"} => r = q /\ req'[r] = pc
        BY <3>4, <3>6, <4>1
      <4>3. QED
        BY <2>1, <3>2, <3>6, <4>2 DEF LookInv
    <3>7. CASE Discover(q)
      <4>1. req[q] \in Rearming /\ req' = [req EXCEPT ![q] = "insert"] /\ scan'.files = file
        BY <3>7 DEF Discover, ReqGoto, Rearming
      <4>2. QED
        BY <3>6, <4>1
    <3>8. CASE SyncInsert(q) \/ SyncDelete(q) \/ WatchDir(q)
      <4>1. UNCHANGED <<req, scan>> /\ todo' \subseteq todo
        BY <3>8 DEF SyncInsert, SyncDelete, WatchDir
      <4>2. QED
        BY <2>1, <3>2, <4>1 DEF LookInv
    <3>9. CASE SyncList(q)
      <4>1. /\ req[q] = "insert" /\ req' = [req EXCEPT ![q] = "delete"] /\ UNCHANGED scan
            /\ todo' = ToDelete
        BY <3>9 DEF SyncList, ReqGoto
      <4>2. scan.files = file /\ req[q] \in Rearming
        BY <4>1 DEF LookInv, Rearming
      <4>3. \A s \in ToDelete : file[s] = 0
        BY <4>2 DEF ToDelete, Found
      <4>4. QED
        BY <3>6, <4>1, <4>2, <4>3
    <3>10. CASE EndSync(q) \/ SyncFails(q) \/ OpenWatcher(q) \/ OpenFails(q) \/ Armed(q)
      <4>1. PICK pc \in {"open", "idle", "walk"} : req' = [req EXCEPT ![q] = pc]
        BY <3>10 DEF EndSync, SyncFails, OpenWatcher, OpenFails, Armed, ReqGoto
      <4>2. req[q] \in Rearming
        BY <3>10 DEF EndSync, SyncFails, OpenWatcher, OpenFails, Armed, Rearming
      <4>3. QED
        BY <3>6, <4>1, <4>2
    <3>11. QED
      BY <3>1, <3>5, <3>7, <3>8, <3>9, <3>10 DEF Rearm
  <2>5. QED
    BY <1>2, <2>3, <2>4, RequestMoves
<1>3. QED
  BY <1>1, <1>2

LEMMA LookAlways ==
  ASSUME EditsWhileArming = FALSE, EditsWhileApplying = FALSE
  PROVE  Spec => []LookInv
<1>1. Init => LookInv
  BY DEF Init, LookInv, NoJob
<1>2. Inv /\ LookInv /\ [Next]_vars => LookInv'
  BY LookStep
<1>3. QED
  BY <1>1, <1>2, InvAlways, PTL DEF Spec

LEMMA RemovalStep ==
  Inv /\ LookInv /\ [Next]_vars =>
    \A s \in Skills : index[s] # 0 /\ index'[s] = 0 /\ refresh' = refresh => file[s] = 0
<1> SUFFICES ASSUME Inv, LookInv, [Next]_vars, NEW s \in Skills, index[s] # 0, index'[s] = 0, refresh' = refresh
             PROVE  file[s] = 0
  OBVIOUS
<1>1. index \in [Skills -> Contents \ {Malformed}]
  BY DEF Inv, TypeOK, IndexTypes
<1>2. CASE UNCHANGED index
  BY <1>2
<1>3. CASE RefreshWrite
  <2>1. refresh.scanned # None /\ refresh' = [refresh EXCEPT !.scanned = None, !.unseen = TRUE]
    BY <1>3 DEF RefreshWrite
  <2>2. refresh'.scanned = None
    BY <2>1 DEF Inv, TypeOK, IndexTypes
  <2>3. QED
    BY <2>1, <2>2
<1>4. ASSUME NEW q \in Requests, SyncInsert(q) PROVE FALSE
  <2>1. PICK t \in todo : index' = [index EXCEPT ![t] = scan.files[t]]
    BY <1>4 DEF SyncInsert
  <2>2. t = s
    BY <1>1, <2>1
  <2>3. todo \subseteq Found(scan.files)
    BY <1>4 DEF SyncInsert, Inv, TodoInv
  <2>4. QED
    BY <1>1, <2>1, <2>2, <2>3 DEF Found
<1>5. ASSUME NEW q \in Requests, SyncDelete(q) PROVE file[s] = 0
  <2>1. PICK t \in todo : index' = [index EXCEPT ![t] = 0]
    BY <1>5 DEF SyncDelete
  <2>2. t = s
    BY <1>1, <2>1
  <2>3. QED
    BY <1>5, <2>1, <2>2 DEF SyncDelete, LookInv
<1>6. ASSUME NEW w \in Workers, Apply(w) PROVE file[s] = 0
  <2> DEFINE k == job[w].key.skill
  <2>1. job[w].pc = "apply" /\ index' = [index EXCEPT ![k] = job[w].read]
    BY <1>6 DEF Apply
  <2>2. k = s /\ job[w].read = 0
    BY <1>1, <2>1
  <2>3. QED
    BY <2>1, <2>2 DEF LookInv
<1>7. ASSUME NEW q \in Requests, Discover(q) \/ EndSync(q) \/ SyncFails(q) \/ Armed(q)
      PROVE  UNCHANGED index
  BY <1>7 DEF Discover, EndSync, SyncFails, Armed, registry
<1>8. ASSUME NEW w \in Workers, EndWrite(w) PROVE UNCHANGED index
  BY <1>8 DEF EndWrite
<1>9. CASE RefreshScan \/ UNCHANGED vars \/ UNCHANGED <<registry, refresh>>
  BY <1>2, <1>9 DEF RefreshScan, registry, vars
<1>10. CASE Next
  BY <1>2, <1>3, <1>4, <1>5, <1>6, <1>7, <1>8, <1>9, <1>10, IndexMoves
<1>11. QED
  BY <1>9, <1>10

(* Between another process's refreshes the watcher removes a skill from the *)
(* index only when its file is gone, if the disk stays as it is while a     *)
(* request arms (watch.go:143-150) and between a callback's read and its    *)
(* write (watch.go:346): for any roots, callbacks, refreshes and files that *)
(* break.                                                                   *)
THEOREM LiveSkillsStay ==
  ASSUME EditsWhileArming = FALSE, EditsWhileApplying = FALSE
  PROVE  Spec => LiveSkillStays
<1>1. Inv /\ LookInv /\ [Next]_vars =>
        [\A s \in Skills : index[s] # 0 /\ index'[s] = 0 /\ refresh' = refresh => file[s] = 0]_vars
  BY RemovalStep
<1>2. QED
  BY <1>1, InvAlways, LookAlways, PTL DEF Spec, LiveSkillStays
=============================================================================
