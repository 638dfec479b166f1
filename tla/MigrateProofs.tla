--------------------------- MODULE MigrateProofs ---------------------------
(***************************************************************************)
(* Proofs about Migrate: the migration is one step of the database, for    *)
(* any number of connections and rows.                                     *)
(***************************************************************************)
EXTENDS Migrate, TLAPS

(* A connection in the transaction holds the lock; the lock is held by one *)
(* in the transaction, or by one whose COMMIT failed.                      *)
LockInv ==
  /\ \A o \in Openers : pc[o] \in InTransaction => lock = o
  /\ lock # None => pc[lock] \in InTransaction \cup {"failed"}

(* What the committed database is known to have. *)
DbInv ==
  /\ db.ver >= 4 => SkillsFound(db)
  /\ db.ver = CurrentVersion => Complete(db)
  /\ \A o \in Openers :
       /\ pc[o] \in {"version", "begin"} \cup InTransaction => Tables \subseteq db.parts
       /\ pc[o] \in {"current", "open"} => db.ver = CurrentVersion

(* What is left of the parts and of the rebuilds at each step. *)
Columns == Tables \cup ScopeColumns \cup SkillColumns \cup {"prefix index"}
PartsAt(step) ==
  IF step \in {"recheck", "scopes"} THEN Tables
  ELSE IF step = "skills" THEN Tables \cup ScopeColumns \cup {"prefix index"}
  ELSE IF step \in {"clear", "fill", "capabilities"} THEN Columns
  ELSE Parts

WorkInv ==
  \A o \in Openers : pc[o] \in InTransaction =>
    /\ work.skills = db.skills /\ work.caps = db.caps
    /\ PartsAt(pc[o]) \subseteq work.parts
    /\ pc[o] = "commit" => work.ver = CurrentVersion
    /\ pc[o] # "commit" => work.ver = db.ver
    /\ pc[o] # "recheck" => db.ver < CurrentVersion /\ ver[o] = db.ver
    /\ pc[o] \in {"recheck", "scopes", "skills"} /\ db.ver >= 4 => SkillsFound(work)
    /\ pc[o] \in {"capabilities", "align", "stamp", "commit"} => SkillsFound(work)
    /\ pc[o] \in {"stamp", "commit"} => CapsFound(work)
    /\ pc[o] = "fill" => \A s \in Skills : work.hits[s] = IF s \in work.skills \ todo THEN 1 ELSE 0
    /\ pc[o] = "fill" => todo \subseteq work.skills

IInv == TypeOK /\ LockInv /\ DbInv /\ WorkInv

LEMMA InitInv == Init => IInv
  <1> SUFFICES ASSUME Init PROVE IInv
    OBVIOUS
  <1>1. db \in Database
    BY DEF Init, Database
  <1>2. TypeOK
    BY <1>1, MigrateAssumption DEF Init, TypeOK, Steps, CurrentVersion
  <1>3. db.ver >= 4 => SkillsFound(db)
    BY DEF Init, Legacy
  <1>4. db.ver = CurrentVersion => Complete(db)
    <2> HAVE db.ver = CurrentVersion
    <2>1. db.ver >= 2 /\ db.ver >= 3 /\ db.ver >= 4 /\ db.ver >= 5 /\ db.ver >= CurrentVersion
      BY DEF CurrentVersion
    <2>2. ScopeColumns \cup {"skills", "prefix index", "search", "capabilities"} \cup SkillColumns \subseteq db.parts
      BY <2>1 DEF Init, Legacy
    <2>3. "scopes" \in db.parts
      BY <2>2 DEF Init, Legacy, ScopeColumns
    <2>4. db.parts = Parts
      BY <1>1, <2>2, <2>3 DEF Database, Parts, Tables
    <2> QED
      BY <2>1, <2>4, <1>3 DEF Init, Legacy, Complete
  <1> QED
    BY <1>2, <1>3, <1>4 DEF Init, IInv, LockInv, DbInv, WorkInv, InTransaction

LEMMA TypeStep == TypeOK /\ [Next]_vars => TypeOK'
  <1> SUFFICES ASSUME TypeOK, [Next]_vars PROVE TypeOK'
    OBVIOUS
  <1> USE DEF TypeOK, Goto, Steps, InTransaction, counts
  <1>0. /\ CurrentVersion \in 0..CurrentVersion
        /\ Tables \subseteq Parts /\ ScopeColumns \subseteq Parts /\ SkillColumns \subseteq Parts
        /\ {"search", "capabilities", "prefix index"} \subseteq Parts
    BY DEF CurrentVersion, Parts, Tables, ScopeColumns, SkillColumns
  <1>1. ASSUME NEW parts \in SUBSET Parts PROVE [work EXCEPT !.parts = @ \cup parts] \in Database
    BY DEF Database
  <1>2. CASE UNCHANGED vars
    BY <1>2 DEF vars
  <1>3. ASSUME NEW o \in Openers, Start(o) PROVE TypeOK'
    BY <1>3 DEF Start
  <1>4. ASSUME NEW o \in Openers, NEW table \in Tables, CreateTable(o, table) PROVE TypeOK'
    <2>1. ColumnsOf(table) \subseteq Parts
      BY <1>0 DEF ColumnsOf, Tables
    <2>2. db' \in Database
      BY <1>4, <1>0, <2>1 DEF CreateTable, Database
    <2> QED
      BY <1>4, <2>2 DEF CreateTable
  <1>5. ASSUME NEW o \in Openers, SchemaDone(o) \/ ReadVersion(o) \/ Begin(o) \/ BusyTimeout(o) PROVE TypeOK'
    BY <1>5 DEF SchemaDone, ReadVersion, Begin, BusyTimeout, Database
  <1>6. ASSUME NEW o \in Openers, Recheck(o) PROVE TypeOK'
    BY <1>6 DEF Recheck, Rollback, Database
  <1>7. ASSUME NEW o \in Openers, AddScopeColumns(o) \/ AddSkillColumns(o) \/ CreateCapabilities(o) PROVE TypeOK'
    <2>1. work' \in Database
      <3>1. CASE AddScopeColumns(o)
        BY <3>1, <1>0, <1>1 DEF AddScopeColumns, AddParts
      <3>2. CASE AddSkillColumns(o)
        BY <3>2, <1>0, <1>1 DEF AddSkillColumns, AddParts
      <3>3. CASE CreateCapabilities(o)
        BY <3>3, <1>0, <1>1 DEF CreateCapabilities, AddParts
      <3> QED
        BY <1>7, <3>1, <3>2, <3>3
    <2> QED
      BY <1>7, <2>1 DEF AddScopeColumns, AddSkillColumns, CreateCapabilities
  <1>8. ASSUME NEW o \in Openers, ClearSearch(o) PROVE TypeOK'
    <2>1. work' \in Database /\ todo' \subseteq Skills
      BY <1>8, <1>0 DEF ClearSearch, Database
    <2> QED
      BY <1>8, <2>1 DEF ClearSearch
  <1>9. ASSUME NEW o \in Openers, FillSearch(o) PROVE TypeOK'
    <2>1. work' \in Database /\ todo' \subseteq Skills
      BY <1>9 DEF FillSearch, Database
    <2> QED
      BY <1>9, <2>1 DEF FillSearch
  <1>10. ASSUME NEW o \in Openers, AlignCapabilities(o) PROVE TypeOK'
    <2>1. work' \in Database
      BY <1>10 DEF AlignCapabilities, Database
    <2> QED
      BY <1>10, <2>1 DEF AlignCapabilities
  <1>11. ASSUME NEW o \in Openers, SetVersion(o) PROVE TypeOK'
    <2>1. work' \in Database
      BY <1>11, <1>0 DEF SetVersion, Database
    <2> QED
      BY <1>11, <2>1 DEF SetVersion
  <1>12. ASSUME NEW o \in Openers, SearchFilled(o) \/ Commit(o) \/ Opened(o) \/ CommitFails(o) PROVE TypeOK'
    BY <1>12 DEF SearchFilled, Commit, Opened, CommitFails
  <1>13. ASSUME NEW o \in Openers, Fail(o) \/ Exit(o) PROVE TypeOK'
    BY <1>13 DEF Fail, Exit, Rollback
  <1>14. ASSUME NEW o \in Openers, Insert(o) PROVE TypeOK'
    <2>1. CASE \E s \in Skills \ db.skills : db' = [db EXCEPT !.skills = @ \cup {s}, !.hits[s] = 1]
      <3>1. PICK s \in Skills \ db.skills : db' = [db EXCEPT !.skills = @ \cup {s}, !.hits[s] = 1]
        BY <2>1
      <3>2. db.hits \in [Skills -> Nat] /\ [db.hits EXCEPT ![s] = 1] \in [Skills -> Nat]
        BY DEF Database
      <3> QED
        BY <1>14, <3>1, <3>2 DEF Insert, Database
    <2>2. CASE \E c \in Caps \ db.caps : db' = [db EXCEPT !.caps = @ \cup {c}, !.slot[c] = c]
      <3>1. PICK c \in Caps \ db.caps : db' = [db EXCEPT !.caps = @ \cup {c}, !.slot[c] = c]
        BY <2>2
      <3>2. [db.slot EXCEPT ![c] = c] \in [Caps -> Caps \cup {None}]
        BY DEF Database
      <3>3. db' \in Database
        BY <3>1, <3>2 DEF Database
      <3> QED
        BY <1>14, <3>3 DEF Insert
    <2> QED
      BY <1>14, <2>1, <2>2 DEF Insert
  <1> QED
    BY <1>2, <1>3, <1>4, <1>5, <1>6, <1>7, <1>8, <1>9, <1>10, <1>11, <1>12, <1>13, <1>14
    DEF Next, Advance

(* The write lock is held exactly as the positions of the connections say. *)
LEMMA LockStep == IInv /\ [Next]_vars => LockInv'
  <1> SUFFICES ASSUME IInv, [Next]_vars PROVE LockInv'
    OBVIOUS
  <1> USE DEF IInv, LockInv, Goto, InTransaction, Steps
  <1>0. pc \in [Openers -> Steps] /\ lock \in Openers \cup {None} /\ None \notin Openers
    BY MigrateAssumption DEF TypeOK
  <1>1. CASE UNCHANGED vars
    BY <1>1 DEF vars
  <1>2. ASSUME NEW o \in Openers,
               Start(o) \/ SchemaDone(o) \/ ReadVersion(o) \/ Begin(o) \/ BusyTimeout(o) \/ Recheck(o)
        PROVE LockInv'
    BY <1>0, <1>2 DEF Start, SchemaDone, ReadVersion, Begin, BusyTimeout, Recheck, Rollback
  <1>3. ASSUME NEW o \in Openers,
               \/ \E table \in Tables : CreateTable(o, table)
               \/ FillSearch(o) \/ Insert(o)
        PROVE LockInv'
    <2>1. UNCHANGED <<pc, lock>>
      BY <1>3 DEF CreateTable, FillSearch, Insert
    <2> QED
      BY <2>1
  <1>4. ASSUME NEW o \in Openers,
               \/ AddScopeColumns(o) \/ AddSkillColumns(o) \/ ClearSearch(o) \/ SearchFilled(o)
               \/ CreateCapabilities(o) \/ AlignCapabilities(o) \/ SetVersion(o) \/ CommitFails(o)
        PROVE LockInv'
    <2>1. lock' = lock /\ lock = o
      BY <1>0, <1>4 DEF AddScopeColumns, AddSkillColumns, ClearSearch, SearchFilled,
         CreateCapabilities, AlignCapabilities, SetVersion, CommitFails
    <2>2. \E step \in InTransaction \cup {"failed"} : pc' = [pc EXCEPT ![o] = step]
      BY <1>4 DEF AddScopeColumns, AddSkillColumns, ClearSearch, SearchFilled,
         CreateCapabilities, AlignCapabilities, SetVersion, CommitFails
    <2> QED
      BY <1>0, <2>1, <2>2
  <1>5. ASSUME NEW o \in Openers, Commit(o) \/ Opened(o) \/ Fail(o) \/ Exit(o)
        PROVE LockInv'
    BY <1>0, <1>5 DEF Commit, Opened, Fail, Exit, Rollback
  <1> QED
    BY <1>1, <1>2, <1>3, <1>4, <1>5 DEF Next, Advance

LEMMA PartSets ==
  /\ Tables \subseteq Parts /\ ScopeColumns \subseteq Parts /\ SkillColumns \subseteq Parts
  /\ {"search", "capabilities", "prefix index"} \subseteq Parts
  /\ Parts = Columns \cup {"capabilities"} /\ Tables \subseteq Columns
  BY DEF Parts, Columns, Tables, ScopeColumns, SkillColumns

(* The committed database: complete once it is current, and found complete *)
(* by whoever passed the migration.                                        *)
LEMMA DbStep == IInv /\ [Next]_vars => DbInv'
  <1> SUFFICES ASSUME IInv, [Next]_vars PROVE DbInv'
    OBVIOUS
  <1> USE DEF IInv, DbInv, Goto
  <1>0. /\ pc \in [Openers -> Steps] /\ db \in Database /\ None \notin Openers
        /\ db.ver \in 0..CurrentVersion /\ db.parts \subseteq Parts
    BY MigrateAssumption DEF TypeOK, Database
  <1>1. CASE UNCHANGED vars
    BY <1>1 DEF vars
  <1>2. ASSUME NEW o \in Openers, UNCHANGED db,
               \E step \in Steps : pc' = [pc EXCEPT ![o] = step] /\
                 (step \in {"version", "begin"} \cup InTransaction => Tables \subseteq db.parts) /\
                 (step \in {"current", "open"} => db.ver = CurrentVersion)
        PROVE DbInv'
    BY <1>0, <1>2
  <1>3. ASSUME NEW o \in Openers, Start(o) \/ SchemaDone(o) \/ ReadVersion(o) \/ Begin(o)
                                  \/ BusyTimeout(o) \/ Opened(o) \/ CommitFails(o)
        PROVE DbInv'
    BY <1>0, <1>2, <1>3 DEF Start, SchemaDone, ReadVersion, Begin, BusyTimeout, Opened, CommitFails,
       Steps, InTransaction, CurrentVersion
  <1>4. ASSUME NEW o \in Openers, NEW table \in Tables, CreateTable(o, table)
        PROVE DbInv'
    <2>1. db.ver # CurrentVersion
      BY <1>4, PartSets DEF CreateTable, Complete
    <2>2. /\ db'.ver = db.ver /\ db'.skills = db.skills /\ db'.hits = db.hits
          /\ db.parts \subseteq db'.parts /\ pc' = pc
      BY <1>0, <1>4 DEF CreateTable, Database
    <2> QED
      BY <2>1, <2>2 DEF SkillsFound
  <1>5. ASSUME NEW o \in Openers, Recheck(o)
        PROVE DbInv'
    <2>1. work.ver = db.ver /\ Tables \subseteq db.parts /\ pc[o] \in InTransaction
      BY <1>5 DEF Recheck, WorkInv, InTransaction
    <2> QED
      BY <1>0, <1>2, <1>5, <2>1 DEF Recheck, Steps, InTransaction, CurrentVersion
  <1>6. ASSUME NEW o \in Openers,
               \/ AddScopeColumns(o) \/ AddSkillColumns(o) \/ ClearSearch(o) \/ SearchFilled(o)
               \/ CreateCapabilities(o) \/ AlignCapabilities(o) \/ SetVersion(o)
        PROVE DbInv'
    <2>1. pc[o] \in InTransaction /\ db' = db
      BY <1>6 DEF AddScopeColumns, AddSkillColumns, ClearSearch, SearchFilled,
         CreateCapabilities, AlignCapabilities, SetVersion, InTransaction
    <2>2. \E step \in InTransaction : pc' = [pc EXCEPT ![o] = step]
      BY <1>6 DEF AddScopeColumns, AddSkillColumns, ClearSearch, SearchFilled,
         CreateCapabilities, AlignCapabilities, SetVersion, InTransaction
    <2> QED
      BY <1>2, <2>1, <2>2 DEF Steps, InTransaction
  <1>7. ASSUME NEW o \in Openers, FillSearch(o)
        PROVE DbInv'
    BY <1>7 DEF FillSearch
  <1>8. ASSUME NEW o \in Openers, Commit(o)
        PROVE DbInv'
    <2>1. /\ PartsAt("commit") \subseteq work.parts /\ work.ver = CurrentVersion
          /\ SkillsFound(work) /\ CapsFound(work)
      BY <1>8 DEF Commit, WorkInv, InTransaction
    <2>2. work.parts = Parts
      BY <2>1 DEF PartsAt, TypeOK, Database
    <2>3. Complete(work) /\ db' = work
      BY <1>8, <2>1, <2>2 DEF Commit, Complete
    <2>4. pc' = [pc EXCEPT ![o] = "current"]
      BY <1>8 DEF Commit
    <2> QED
      BY <1>0, <2>1, <2>3, <2>4, PartSets DEF Complete
  <1>9. ASSUME NEW o \in Openers, Fail(o) \/ Exit(o)
        PROVE DbInv'
    BY <1>0, <1>2, <1>9 DEF Fail, Exit, Steps, InTransaction
  <1>10. ASSUME NEW o \in Openers, Insert(o)
         PROVE DbInv'
    <2>1. Complete(db) /\ db.ver = CurrentVersion /\ pc' = pc
      BY <1>10 DEF Insert
    <2>2. Complete(db') /\ db'.ver = CurrentVersion
      <3>1. CASE \E s \in Skills \ db.skills : db' = [db EXCEPT !.skills = @ \cup {s}, !.hits[s] = 1]
        <4>1. PICK s \in Skills \ db.skills : db' = [db EXCEPT !.skills = @ \cup {s}, !.hits[s] = 1]
          BY <3>1
        <4>2. /\ db'.skills = db.skills \cup {s} /\ db'.hits = [db.hits EXCEPT ![s] = 1]
              /\ db'.parts = db.parts /\ db'.caps = db.caps /\ db'.slot = db.slot /\ db'.ver = db.ver
          BY <1>0, <4>1 DEF Database
        <4>3. db.hits \in [Skills -> Nat]
          BY <1>0 DEF Database
        <4> QED
          BY <2>1, <4>2, <4>3 DEF Complete, SkillsFound, CapsFound
      <3>2. CASE \E c \in Caps \ db.caps : db' = [db EXCEPT !.caps = @ \cup {c}, !.slot[c] = c]
        <4>1. PICK c \in Caps \ db.caps : db' = [db EXCEPT !.caps = @ \cup {c}, !.slot[c] = c]
          BY <3>2
        <4>2. /\ db'.caps = db.caps \cup {c} /\ db'.slot = [db.slot EXCEPT ![c] = c]
              /\ db'.parts = db.parts /\ db'.skills = db.skills /\ db'.hits = db.hits /\ db'.ver = db.ver
          BY <1>0, <4>1 DEF Database
        <4>3. db.slot \in [Caps -> Caps \cup {None}]
          BY <1>0 DEF Database
        <4> QED
          BY <2>1, <4>2, <4>3 DEF Complete, SkillsFound, CapsFound
      <3> QED
        BY <1>10, <3>1, <3>2 DEF Insert
    <2> QED
      BY <2>1, <2>2, PartSets DEF Complete
  <1> QED
    BY <1>1, <1>3, <1>4, <1>5, <1>6, <1>7, <1>8, <1>9, <1>10 DEF Next, Advance

(* The database inside the transaction: what each step finds done. *)
LEMMA WorkStep == IInv /\ [Next]_vars => WorkInv'
  <1> SUFFICES ASSUME IInv, [Next]_vars PROVE WorkInv'
    OBVIOUS
  <1> USE DEF IInv, Goto
  <1>0. /\ pc \in [Openers -> Steps] /\ ver \in [Openers -> 0..CurrentVersion]
        /\ lock \in Openers \cup {None} /\ None \notin Openers
        /\ db \in Database /\ work \in Database
    BY MigrateAssumption DEF TypeOK
  <1>1. CASE UNCHANGED vars
    BY <1>1 DEF vars, WorkInv
  \* nobody is in the transaction afterwards
  <1>2. ASSUME NEW o \in Openers, pc' \in [Openers -> Steps], pc'[o] \notin InTransaction,
               \A p \in Openers \ {o} : pc'[p] = pc[p],
               lock \in {o, None}
        PROVE WorkInv'
    BY <1>0, <1>2 DEF WorkInv, LockInv
  \* somebody may be, who is not disturbed
  <1>3. ASSUME NEW o \in Openers, pc' \in [Openers -> Steps], pc'[o] \notin InTransaction,
               \A p \in Openers \ {o} : pc'[p] = pc[p] /\ ver'[p] = ver[p],
               UNCHANGED <<db, work, todo>>
        PROVE WorkInv'
    BY <1>0, <1>3 DEF WorkInv
  <1>4. ASSUME NEW o \in Openers, Start(o) \/ SchemaDone(o) \/ ReadVersion(o) \/ BusyTimeout(o)
                                  \/ Opened(o) \/ CommitFails(o)
        PROVE WorkInv'
    BY <1>0, <1>3, <1>4 DEF Start, SchemaDone, ReadVersion, BusyTimeout, Opened, CommitFails,
       Steps, InTransaction
  <1>5. ASSUME NEW o \in Openers, (\E table \in Tables : CreateTable(o, table)) \/ Insert(o)
        PROVE WorkInv'
    <2>1. lock = None /\ pc' = pc
      BY <1>5 DEF CreateTable, Insert
    <2>2. \A p \in Openers : pc[p] \notin InTransaction
      BY <2>1, <1>0 DEF LockInv
    <2> QED
      BY <2>1, <2>2 DEF WorkInv
  <1>6. ASSUME NEW o \in Openers, Commit(o)
        PROVE WorkInv'
    BY <1>0, <1>2, <1>6 DEF Commit, Steps, InTransaction, LockInv
  <1>7. ASSUME NEW o \in Openers, Fail(o) \/ Exit(o)
        PROVE WorkInv'
    <2>1. CASE lock = o
      BY <1>0, <1>2, <1>7, <2>1 DEF Fail, Exit, Steps, InTransaction
    <2>2. CASE lock # o
      BY <1>0, <1>3, <1>7, <2>2 DEF Fail, Exit, Steps, InTransaction
    <2> QED
      BY <2>1, <2>2
  <1>8. ASSUME NEW o \in Openers, Begin(o)
        PROVE WorkInv'
    <2>1. \A p \in Openers : pc[p] \notin InTransaction
      BY <1>8, <1>0 DEF LockInv, Begin
    <2>2. Tables \subseteq db.parts /\ (db.ver >= 4 => SkillsFound(db))
      BY <1>8 DEF Begin, DbInv
    <2>3. /\ pc' = [pc EXCEPT ![o] = "recheck"] /\ work' = db /\ UNCHANGED <<db, ver, todo>>
      BY <1>8 DEF Begin
    <2> QED
      BY <1>0, <2>1, <2>2, <2>3 DEF WorkInv, PartsAt, InTransaction
  \* the holder's own steps: the others are outside
  <1>9. ASSUME NEW o \in Openers, pc[o] \in InTransaction
        PROVE \A p \in Openers \ {o} : pc[p] \notin InTransaction
    BY <1>0, <1>9 DEF LockInv
  <1>10. ASSUME NEW o \in Openers, Recheck(o)
         PROVE WorkInv'
    <2>1. CASE work.ver >= CurrentVersion
      BY <1>0, <1>9, <1>10, <2>1 DEF Recheck, WorkInv, InTransaction, Steps
    <2>2. CASE ~(work.ver >= CurrentVersion)
      <3>1. /\ pc' = [pc EXCEPT ![o] = "scopes"] /\ ver' = [ver EXCEPT ![o] = work.ver]
            /\ UNCHANGED <<db, work, todo>> /\ pc[o] = "recheck"
        BY <1>10, <2>2 DEF Recheck
      <3>2. work.ver = db.ver /\ db.ver < CurrentVersion
        BY <3>1, <2>2, <1>0 DEF WorkInv, InTransaction, Database, CurrentVersion
      <3> QED
        BY <1>0, <1>9, <3>1, <3>2 DEF WorkInv, InTransaction, PartsAt
    <2> QED
      BY <2>1, <2>2
  <1>11. ASSUME NEW o \in Openers, AddScopeColumns(o)
         PROVE WorkInv'
    <2>1. /\ pc[o] = "scopes" /\ pc' = [pc EXCEPT ![o] = "skills"] /\ UNCHANGED <<db, ver, todo>>
          /\ work' = [work EXCEPT !.parts = @ \cup (ScopeColumns \cup {"prefix index"})]
      BY <1>11 DEF AddScopeColumns, AddParts
    <2>2. /\ work'.parts = work.parts \cup (ScopeColumns \cup {"prefix index"})
          /\ work'.ver = work.ver /\ work'.skills = work.skills /\ work'.caps = work.caps
          /\ work'.hits = work.hits
      BY <1>0, <2>1 DEF Database
    <2>3. /\ work.skills = db.skills /\ work.caps = db.caps /\ work.ver = db.ver
          /\ Tables \subseteq work.parts /\ db.ver < CurrentVersion /\ ver[o] = db.ver
          /\ db.ver >= 4 => SkillsFound(work)
      BY <2>1 DEF WorkInv, InTransaction, PartsAt
    <2>4. db.ver >= 4 => SkillsFound(work')
      BY <2>2, <2>3 DEF SkillsFound
    <2>5. pc'[o] = "skills" /\ \A p \in Openers \ {o} : pc'[p] \notin InTransaction
      BY <1>0, <1>9, <2>1 DEF InTransaction
    <2>6. PartsAt(pc'[o]) \subseteq work'.parts
      BY <2>2, <2>3, <2>5 DEF PartsAt
    <2> QED
      BY <2>1, <2>2, <2>3, <2>4, <2>5, <2>6 DEF WorkInv
  <1>12. ASSUME NEW o \in Openers, AddSkillColumns(o)
         PROVE WorkInv'
    <2>1. /\ pc[o] = "skills" /\ UNCHANGED <<db, ver, todo>>
          /\ pc' = [pc EXCEPT ![o] = IF ver[o] < 4 THEN "clear" ELSE "capabilities"]
          /\ work' = [work EXCEPT !.parts = @ \cup SkillColumns]
      BY <1>12 DEF AddSkillColumns, AddParts
    <2>2. /\ work'.parts = work.parts \cup SkillColumns
          /\ work'.ver = work.ver /\ work'.skills = work.skills /\ work'.caps = work.caps
          /\ work'.hits = work.hits
      BY <1>0, <2>1 DEF Database
    <2>3. /\ work.skills = db.skills /\ work.caps = db.caps /\ work.ver = db.ver
          /\ PartsAt("skills") \subseteq work.parts
          /\ db.ver < CurrentVersion /\ ver[o] = db.ver /\ (db.ver >= 4 => SkillsFound(work))
      BY <2>1 DEF WorkInv, InTransaction
    <2>4. Columns \subseteq work'.parts
      BY <2>2, <2>3, PartSets DEF PartsAt, Columns
    <2>5. pc'[o] = "capabilities" => SkillsFound(work')
      BY <1>0, <2>1, <2>2, <2>3 DEF SkillsFound, Database, CurrentVersion
    <2> QED
      BY <1>0, <1>9, <2>1, <2>2, <2>3, <2>4, <2>5 DEF WorkInv, InTransaction, PartsAt
  <1>13. ASSUME NEW o \in Openers, ClearSearch(o)
         PROVE WorkInv'
    <2>1. /\ pc[o] = "clear" /\ UNCHANGED <<db, ver>> /\ pc' = [pc EXCEPT ![o] = "fill"]
          /\ work' = [work EXCEPT !.parts = @ \cup {"search"}, !.hits = [s \in Skills |-> 0]]
          /\ todo' = work.skills
      BY <1>13 DEF ClearSearch
    <2>2. /\ work'.parts = work.parts \cup {"search"} /\ work'.hits = [s \in Skills |-> 0]
          /\ work'.ver = work.ver /\ work'.skills = work.skills /\ work'.caps = work.caps
      BY <1>0, <2>1 DEF Database
    <2>3. /\ work.skills = db.skills /\ work.caps = db.caps /\ work.ver = db.ver
          /\ Columns \subseteq work.parts /\ db.ver < CurrentVersion /\ ver[o] = db.ver
      BY <2>1 DEF WorkInv, InTransaction, PartsAt
    <2>4. \A t \in Skills : work'.hits[t] = IF t \in work'.skills \ todo' THEN 1 ELSE 0
      BY <2>1, <2>2
    <2>5. pc'[o] = "fill" /\ \A p \in Openers \ {o} : pc'[p] \notin InTransaction
      BY <1>0, <1>9, <2>1 DEF InTransaction
    <2>6. PartsAt(pc'[o]) \subseteq work'.parts
      BY <2>2, <2>3, <2>5 DEF PartsAt
    <2> QED
      BY <2>1, <2>2, <2>3, <2>4, <2>5, <2>6 DEF WorkInv
  <1>14. ASSUME NEW o \in Openers, FillSearch(o)
         PROVE WorkInv'
    <2>1. PICK s \in todo : work' = [work EXCEPT !.hits[s] = @ + 1] /\ todo' = todo \ {s}
      BY <1>14 DEF FillSearch
    <2>2. pc[o] = "fill" /\ UNCHANGED <<db, ver, pc>> /\ s \in Skills
      BY <1>14 DEF FillSearch, TypeOK
    <2>3. /\ work'.hits = [work.hits EXCEPT ![s] = @ + 1] /\ work'.parts = work.parts
          /\ work'.ver = work.ver /\ work'.skills = work.skills /\ work'.caps = work.caps
      BY <1>0, <2>1 DEF Database
    <2>4. /\ \A t \in Skills : work.hits[t] = IF t \in work.skills \ todo THEN 1 ELSE 0
          /\ todo \subseteq work.skills
      BY <2>2 DEF WorkInv, InTransaction
    <2>5. \A t \in Skills : work'.hits[t] = IF t \in work'.skills \ todo' THEN 1 ELSE 0
      <3> SUFFICES ASSUME NEW t \in Skills
                   PROVE work'.hits[t] = IF t \in work'.skills \ todo' THEN 1 ELSE 0
        OBVIOUS
      <3>1. work.hits \in [Skills -> Nat]
        BY <1>0 DEF Database
      <3>2. CASE t = s
        BY <3>1, <3>2, <2>1, <2>2, <2>3, <2>4
      <3>3. CASE t # s
        BY <3>1, <3>3, <2>1, <2>2, <2>3, <2>4
      <3> QED
        BY <3>2, <3>3
    <2> QED
      BY <1>0, <1>9, <2>1, <2>2, <2>3, <2>4, <2>5 DEF WorkInv, InTransaction, PartsAt
  <1>15. ASSUME NEW o \in Openers, SearchFilled(o)
         PROVE WorkInv'
    <2>1. /\ pc[o] = "fill" /\ todo = {} /\ UNCHANGED <<db, ver, work, todo>>
          /\ pc' = [pc EXCEPT ![o] = "capabilities"]
      BY <1>15 DEF SearchFilled
    <2>2. SkillsFound(work)
      BY <2>1 DEF WorkInv, InTransaction, SkillsFound
    <2> QED
      BY <1>0, <1>9, <2>1, <2>2 DEF WorkInv, InTransaction, PartsAt
  <1>16. ASSUME NEW o \in Openers, CreateCapabilities(o)
         PROVE WorkInv'
    <2>1. /\ pc[o] = "capabilities" /\ pc' = [pc EXCEPT ![o] = "align"] /\ UNCHANGED <<db, ver, todo>>
          /\ work' = [work EXCEPT !.parts = @ \cup {"capabilities"}]
      BY <1>16 DEF CreateCapabilities, AddParts
    <2>2. /\ work'.parts = work.parts \cup {"capabilities"}
          /\ work'.ver = work.ver /\ work'.skills = work.skills /\ work'.caps = work.caps
          /\ work'.hits = work.hits
      BY <1>0, <2>1 DEF Database
    <2>3. /\ work.skills = db.skills /\ work.caps = db.caps /\ work.ver = db.ver
          /\ Columns \subseteq work.parts /\ db.ver < CurrentVersion /\ ver[o] = db.ver
          /\ SkillsFound(work)
      BY <2>1 DEF WorkInv, InTransaction, PartsAt
    <2>4. SkillsFound(work')
      BY <2>2, <2>3 DEF SkillsFound
    <2>5. pc'[o] = "align" /\ \A p \in Openers \ {o} : pc'[p] \notin InTransaction
      BY <1>0, <1>9, <2>1 DEF InTransaction
    <2>6. PartsAt(pc'[o]) \subseteq work'.parts
      BY <2>2, <2>3, <2>5, PartSets DEF PartsAt
    <2> QED
      BY <2>1, <2>2, <2>3, <2>4, <2>5, <2>6 DEF WorkInv
  <1>17. ASSUME NEW o \in Openers, AlignCapabilities(o)
         PROVE WorkInv'
    <2>1. /\ pc[o] = "align" /\ pc' = [pc EXCEPT ![o] = "stamp"] /\ UNCHANGED <<db, ver, todo>>
          /\ work' = [work EXCEPT !.slot = [c \in Caps |-> IF c \in work.caps THEN c ELSE None]]
      BY <1>17 DEF AlignCapabilities
    <2>2. /\ work'.slot = [c \in Caps |-> IF c \in work.caps THEN c ELSE None]
          /\ work'.parts = work.parts
          /\ work'.ver = work.ver /\ work'.skills = work.skills /\ work'.caps = work.caps
          /\ work'.hits = work.hits
      BY <1>0, <2>1 DEF Database
    <2>3. /\ work.skills = db.skills /\ work.caps = db.caps /\ work.ver = db.ver
          /\ Parts \subseteq work.parts /\ db.ver < CurrentVersion /\ ver[o] = db.ver
          /\ SkillsFound(work)
      BY <2>1 DEF WorkInv, InTransaction, PartsAt
    <2>4. SkillsFound(work') /\ CapsFound(work')
      BY <2>2, <2>3 DEF SkillsFound, CapsFound
    <2>5. pc'[o] = "stamp" /\ \A p \in Openers \ {o} : pc'[p] \notin InTransaction
      BY <1>0, <1>9, <2>1 DEF InTransaction
    <2>6. PartsAt(pc'[o]) \subseteq work'.parts
      BY <2>2, <2>3, <2>5 DEF PartsAt
    <2> QED
      BY <2>1, <2>2, <2>3, <2>4, <2>5, <2>6 DEF WorkInv
  <1>18. ASSUME NEW o \in Openers, SetVersion(o)
         PROVE WorkInv'
    <2>1. /\ pc[o] = "stamp" /\ pc' = [pc EXCEPT ![o] = "commit"] /\ UNCHANGED <<db, ver, todo>>
          /\ work' = [work EXCEPT !.ver = CurrentVersion]
      BY <1>18 DEF SetVersion
    <2>2. /\ work'.ver = CurrentVersion /\ work'.slot = work.slot /\ work'.parts = work.parts
          /\ work'.skills = work.skills /\ work'.caps = work.caps /\ work'.hits = work.hits
      BY <1>0, <2>1 DEF Database
    <2>3. /\ work.skills = db.skills /\ work.caps = db.caps
          /\ Parts \subseteq work.parts /\ db.ver < CurrentVersion /\ ver[o] = db.ver
          /\ SkillsFound(work) /\ CapsFound(work)
      BY <2>1 DEF WorkInv, InTransaction, PartsAt
    <2>4. SkillsFound(work') /\ CapsFound(work')
      BY <2>2, <2>3 DEF SkillsFound, CapsFound
    <2>5. pc'[o] = "commit" /\ \A p \in Openers \ {o} : pc'[p] \notin InTransaction
      BY <1>0, <1>9, <2>1 DEF InTransaction
    <2>6. PartsAt(pc'[o]) \subseteq work'.parts
      BY <2>2, <2>3, <2>5 DEF PartsAt
    <2> QED
      BY <2>1, <2>2, <2>3, <2>4, <2>5, <2>6 DEF WorkInv
  <1> QED
    BY <1>1, <1>4, <1>5, <1>6, <1>7, <1>8, <1>10, <1>11, <1>12, <1>13, <1>14, <1>15, <1>16, <1>17, <1>18
    DEF Next, Advance

THEOREM Invariance == Spec => []IInv
  <1>1. IInv /\ [Next]_vars => IInv'
    BY TypeStep, LockStep, DbStep, WorkStep DEF IInv
  <1> QED
    BY <1>1, InitInv, PTL DEF Spec

(* Connections, locks and databases stay well formed whatever fails.       *)
THEOREM TypeCorrect == Spec => []TypeOK
  BY Invariance, PTL DEF IInv

(* No two openers run the migration: whoever is past the second version    *)
(* check holds the lock, on a database that is not current yet.            *)
THEOREM OneMigration == Spec => []MigratesOnce
  <1>1. IInv => MigratesOnce
    BY DEF IInv, WorkInv, LockInv, MigratesOnce, InTransaction
  <1> QED
    BY <1>1, Invariance, PTL

(* Whoever has opened the registry finds it complete.                      *)
THEOREM OpensComplete == Spec => []OpenIsComplete
  <1>1. IInv => OpenIsComplete
    BY DEF IInv, DbInv, OpenIsComplete
  <1> QED
    BY <1>1, Invariance, PTL

(* Once the schema is current a search finds the rows there are. *)
LEMMA AllFound == IInv => RowsFound = IF IsCurrent THEN RowsHeld ELSE {}
  <1> SUFFICES ASSUME IInv, IsCurrent
               PROVE {s \in Skills : db.hits[s] = 1} \cup {c \in Caps : db.slot[c] = c} = RowsHeld
    BY DEF RowsFound
  <1>1. SkillsFound(db) /\ CapsFound(db)
    BY DEF IInv, DbInv, IsCurrent, Complete
  <1>2. db.skills \subseteq Skills /\ db.caps \subseteq Caps /\ None \notin Caps
    BY MigrateAssumption DEF IInv, TypeOK, Database
  <1>3. {s \in Skills : db.hits[s] = 1} = db.skills
    BY <1>1, <1>2 DEF SkillsFound
  <1>4. {c \in Caps : db.slot[c] = c} = db.caps
    BY <1>1, <1>2 DEF CapsFound
  <1> QED
    BY <1>3, <1>4 DEF RowsHeld

LEMMA InitUpgrade == Init => U!Init
  <1> SUFFICES ASSUME Init PROVE U!Init
    OBVIOUS
  <1>1. IInv
    BY InitInv
  <1>2. IsCurrent \in BOOLEAN /\ RowsHeld \subseteq Skills \cup Caps
    BY <1>1 DEF IsCurrent, RowsHeld, IInv, TypeOK, Database
  <1>3. OpenNow = {}
    BY DEF Init, OpenNow
  <1> QED
    BY <1>1, <1>2, <1>3, AllFound DEF U!Init

LEMMA StepUpgrade == IInv /\ IInv' /\ [Next]_vars => [U!Next]_U!vars
  <1> SUFFICES ASSUME IInv, IInv', [Next]_vars PROVE [U!Next]_U!vars
    OBVIOUS
  <1> USE DEF Goto
  <1>0. /\ pc \in [Openers -> Steps] /\ db \in Database /\ work \in Database
    BY DEF IInv, TypeOK
  <1>1. /\ RowsFound = IF IsCurrent THEN RowsHeld ELSE {}
        /\ RowsFound' = IF IsCurrent' THEN RowsHeld' ELSE {}
    <2>1. IInv => RowsFound = IF IsCurrent THEN RowsHeld ELSE {}
      BY AllFound
    <2>2. (IInv => RowsFound = IF IsCurrent THEN RowsHeld ELSE {})'
      BY AllFound, PTL
    <2> QED
      BY <2>1, <2>2
  \* a stutter: neither the rows nor who is connected change
  <1>2. ASSUME UNCHANGED <<IsCurrent, RowsHeld, OpenNow>>
        PROVE UNCHANGED U!vars
    BY <1>1, <1>2 DEF U!vars
  <1>3. ASSUME UNCHANGED db
        PROVE UNCHANGED <<IsCurrent, RowsHeld>>
    BY <1>3 DEF IsCurrent, RowsHeld
  <1>4. ASSUME NEW o \in Openers, pc[o] # "open",
               NEW step \in Steps \ {"open"}, pc' = [pc EXCEPT ![o] = step]
        PROVE UNCHANGED OpenNow
    BY <1>0, <1>4 DEF OpenNow
  <1>5. CASE UNCHANGED vars
    BY <1>2, <1>3, <1>5 DEF vars, OpenNow
  <1>6. ASSUME NEW o \in Openers,
               \/ Start(o) \/ SchemaDone(o) \/ ReadVersion(o) \/ Begin(o) \/ BusyTimeout(o)
               \/ Recheck(o) \/ AddScopeColumns(o) \/ AddSkillColumns(o) \/ ClearSearch(o)
               \/ SearchFilled(o) \/ CreateCapabilities(o) \/ AlignCapabilities(o)
               \/ SetVersion(o) \/ CommitFails(o) \/ Fail(o)
        PROVE UNCHANGED U!vars
    <2>1. UNCHANGED db /\ pc[o] # "open"
      BY <1>6 DEF Start, SchemaDone, ReadVersion, Begin, BusyTimeout, Recheck, AddScopeColumns,
         AddSkillColumns, ClearSearch, SearchFilled, CreateCapabilities, AlignCapabilities,
         SetVersion, CommitFails, Fail
    <2>2. \E step \in Steps \ {"open"} : pc' = [pc EXCEPT ![o] = step]
      BY <1>6 DEF Start, SchemaDone, ReadVersion, Begin, BusyTimeout, Recheck, AddScopeColumns,
         AddSkillColumns, ClearSearch, SearchFilled, CreateCapabilities, AlignCapabilities,
         SetVersion, CommitFails, Fail, Steps, InTransaction
    <2> QED
      BY <1>2, <1>3, <1>4, <2>1, <2>2
  <1>7. ASSUME NEW o \in Openers, FillSearch(o)
        PROVE UNCHANGED U!vars
    BY <1>2, <1>3, <1>7 DEF FillSearch, OpenNow
  <1>8. ASSUME NEW o \in Openers, NEW table \in Tables, CreateTable(o, table)
        PROVE UNCHANGED U!vars
    <2>1. db'.ver = db.ver /\ db'.skills = db.skills /\ db'.caps = db.caps /\ pc' = pc
      BY <1>0, <1>8 DEF CreateTable, Database
    <2> QED
      BY <1>2, <2>1 DEF IsCurrent, RowsHeld, OpenNow
  <1>9. ASSUME NEW o \in Openers, Commit(o)
        PROVE U!UpgradeSchema
    <2>1. pc[o] = "commit" /\ db' = work /\ pc' = [pc EXCEPT ![o] = "current"]
      BY <1>9 DEF Commit
    <2>2. /\ work.ver = CurrentVersion /\ db.ver < CurrentVersion
          /\ work.skills = db.skills /\ work.caps = db.caps
      BY <2>1 DEF IInv, WorkInv, InTransaction
    <2>3. ~IsCurrent /\ IsCurrent' = TRUE /\ RowsHeld' = RowsHeld
      BY <2>1, <2>2 DEF IsCurrent, RowsHeld, CurrentVersion
    <2>4. UNCHANGED OpenNow
      BY <1>4, <2>1 DEF Steps
    <2> QED
      BY <1>1, <2>3, <2>4 DEF U!UpgradeSchema
  <1>10. ASSUME NEW o \in Openers, Opened(o)
         PROVE U!Open(o)
    <2>1. pc[o] = "current" /\ UNCHANGED db /\ pc' = [pc EXCEPT ![o] = "open"]
      BY <1>10 DEF Opened
    <2>2. IsCurrent
      BY <2>1 DEF IInv, DbInv, IsCurrent
    <2>3. OpenNow' = OpenNow \cup {o}
      BY <1>0, <2>1 DEF OpenNow
    <2> QED
      BY <1>1, <1>3, <2>1, <2>2, <2>3 DEF U!Open
  <1>11. ASSUME NEW o \in Openers, Exit(o)
         PROVE U!Close(o)
    <2>1. UNCHANGED db /\ pc' = [pc EXCEPT ![o] = "closed"]
      BY <1>11 DEF Exit
    <2>2. OpenNow' = OpenNow \ {o}
      BY <1>0, <2>1 DEF OpenNow
    <2> QED
      BY <1>1, <1>3, <2>1, <2>2 DEF U!Close
  <1>12. ASSUME NEW o \in Openers, Insert(o)
         PROVE \E r \in Skills \cup Caps : U!Add(o, r)
    <2>1. pc[o] = "open" /\ pc' = pc /\ UNCHANGED OpenNow /\ o \in OpenNow
      BY <1>12 DEF Insert, OpenNow
    <2>2. db.ver = CurrentVersion
      BY <2>1 DEF IInv, DbInv
    <2>3. \E r \in Skills \cup Caps : db'.ver = db.ver /\ RowsHeld' = RowsHeld \cup {r}
      <3>1. CASE \E s \in Skills \ db.skills : db' = [db EXCEPT !.skills = @ \cup {s}, !.hits[s] = 1]
        BY <1>0, <3>1 DEF Database, RowsHeld
      <3>2. CASE \E c \in Caps \ db.caps : db' = [db EXCEPT !.caps = @ \cup {c}, !.slot[c] = c]
        BY <1>0, <3>2 DEF Database, RowsHeld
      <3> QED
        BY <1>12, <3>1, <3>2 DEF Insert
    <2> QED
      BY <1>1, <2>1, <2>2, <2>3 DEF IsCurrent, U!Add
  <1> QED
    BY <1>5, <1>6, <1>7, <1>8, <1>9, <1>10, <1>11, <1>12 DEF Next, Advance, U!Next

(* Migrating implements upgrading: whoever looks at the committed database *)
(* sees one step to the current schema, before which nobody is connected   *)
(* and in which no row is lost.                                            *)
THEOREM Implements == Spec => UpgradesAtOnce
  BY Invariance, InitUpgrade, StepUpgrade, PTL DEF Spec, UpgradesAtOnce, U!Spec
=============================================================================
