------------------------------ MODULE Migrate ------------------------------
(***************************************************************************)
(* Opening the registry: internal/registry, Open and migrateSchema.        *)
(*                                                                         *)
(* Every process runs the CREATE statements, each committed by itself, and *)
(* then, unless user_version is current, migrates under BEGIN IMMEDIATE:   *)
(* read the version again, add what is missing, rebuild the full-text      *)
(* tables, set the version, COMMIT.  Any statement may fail and any        *)
(* process may stop; COMMIT may fail with the transaction still open.      *)
(***************************************************************************)
EXTENDS Integers, FiniteSets

CONSTANTS
  Openers,  \* connections, each of its own process
  Skills,   \* rows the skills table may have
  Caps,     \* rows the capability table may have
  None,
  MaxFails, \* bound: failures
  MaxOpens  \* bound: opens started

ASSUME MigrateAssumption ==
  /\ None \notin Openers \cup Caps
  /\ Skills \cap Caps = {}
  /\ MaxFails \in Nat /\ MaxOpens \in Nat

CurrentVersion == 6

ScopeColumns == {"path_prefix", "pattern_type"}
SkillColumns == {"name", "description"}
Tables == {"skills", "scopes", "search"}
Parts == Tables \cup ScopeColumns \cup SkillColumns \cup {"prefix index", "capabilities"}

(* hits counts the entries of each skill in skill_search; slot is the rowid *)
(* each capability has in mcp_capability_search, which a query takes for   *)
(* the capability's id.                                                    *)
Database == [ver : 0..CurrentVersion, parts : SUBSET Parts,
             skills : SUBSET Skills, hits : [Skills -> Nat],
             caps : SUBSET Caps, slot : [Caps -> Caps \cup {None}]]

SkillsFound(d) == \A s \in Skills : d.hits[s] = IF s \in d.skills THEN 1 ELSE 0
CapsFound(d) == \A c \in Caps : d.slot[c] = IF c \in d.caps THEN c ELSE None

Complete(d) == d.parts = Parts /\ SkillsFound(d) /\ CapsFound(d)

(* What releases left behind: version by version, and databases on which a *)
(* migration or the CREATE statements stopped half way.                    *)
Legacy(d) ==
  /\ ScopeColumns \cap d.parts # {} => "scopes" \in d.parts
  /\ SkillColumns \cap d.parts # {} => "skills" \in d.parts
  /\ "prefix index" \in d.parts => ScopeColumns \subseteq d.parts
  /\ d.skills # {} => "skills" \in d.parts
  /\ d.caps # {} => "capabilities" \in d.parts
  /\ d.ver >= 2 => ScopeColumns \cup {"skills", "prefix index"} \subseteq d.parts
  /\ d.ver >= 3 => SkillColumns \subseteq d.parts
  /\ IF d.ver >= 4 THEN "search" \in d.parts /\ SkillsFound(d)
                   ELSE \A s \in Skills : d.hits[s] = 0
  /\ d.ver >= 5 <=> "capabilities" \in d.parts
  /\ \A c \in Caps : d.slot[c] = None <=> c \notin d.caps
  /\ d.ver >= CurrentVersion => CapsFound(d)

VARIABLES
  db,     \* the committed database
  work,   \* the database inside the transaction
  lock,   \* the connection in a write transaction, or None
  pc,     \* what each connection is doing
  ver,    \* migrateSchema's ver
  todo,   \* skills its rebuild has still to insert
  fails,
  opens

vars == <<db, work, lock, pc, ver, todo, fails, opens>>
counts == <<fails, opens>>

InTransaction == {"recheck", "scopes", "skills", "clear", "fill", "capabilities", "align",
                  "stamp", "commit"}
Steps == {"closed", "schema", "version", "begin", "current", "open", "failed"} \cup InTransaction

Init ==
  /\ db \in [ver : 0..CurrentVersion, parts : SUBSET Parts, skills : SUBSET Skills,
             hits : [Skills -> 0..1], caps : SUBSET Caps, slot : [Caps -> Caps \cup {None}]]
  /\ Legacy(db)
  /\ work = db
  /\ lock = None
  /\ pc = [o \in Openers |-> "closed"]
  /\ ver = [o \in Openers |-> 0]
  /\ todo = {}
  /\ fails = 0 /\ opens = 0

Goto(o, step) == pc' = [pc EXCEPT ![o] = step]

---------------------------------------------------------------------------
(* Open. *)

Start(o) ==
  /\ pc[o] = "closed" /\ opens < MaxOpens
  /\ opens' = opens + 1
  /\ Goto(o, "schema")
  /\ UNCHANGED <<db, work, lock, ver, todo, fails>>

ColumnsOf(table) ==
  CASE table = "skills" -> SkillColumns [] table = "scopes" -> ScopeColumns
    [] table = "search" -> {}

(* CREATE TABLE IF NOT EXISTS writes, and so waits for the write lock, only *)
(* when there is no such table.                                            *)
CreateTable(o, table) ==
  /\ pc[o] = "schema" /\ lock = None
  /\ table \notin db.parts
  /\ db' = [db EXCEPT !.parts = @ \cup {table} \cup ColumnsOf(table)]
  /\ work' = db'
  /\ UNCHANGED <<lock, pc, ver, todo, counts>>

SchemaDone(o) ==
  /\ pc[o] = "schema"
  /\ Tables \subseteq db.parts
  /\ Goto(o, "version")
  /\ UNCHANGED <<db, work, lock, ver, todo, counts>>

ReadVersion(o) ==
  /\ pc[o] = "version"
  /\ ver' = [ver EXCEPT ![o] = db.ver]
  /\ Goto(o, IF db.ver >= CurrentVersion THEN "current" ELSE "begin")
  /\ UNCHANGED <<db, work, lock, todo, counts>>

Begin(o) ==
  /\ pc[o] = "begin" /\ lock = None
  /\ lock' = o /\ work' = db
  /\ Goto(o, "recheck")
  /\ UNCHANGED <<db, ver, todo, counts>>

(* mutant: wait for the lock for ever *)
BusyForever(o) == FALSE /\ UNCHANGED vars

(* busy_timeout ends every wait for the lock. *)
BusyTimeout(o) ==
  /\ pc[o] = "begin" \/ (pc[o] = "schema" /\ ~ Tables \subseteq db.parts)
  /\ lock # None
  /\ Goto(o, "failed")
  /\ UNCHANGED <<db, work, lock, ver, todo, counts>>

---------------------------------------------------------------------------
(* migrateSchema, inside the transaction. *)

Rollback == lock' = None /\ work' = db

(* mutant: the version read before the lock is believed *)
RecheckMissing(o) ==
  /\ pc[o] = "recheck"
  /\ Goto(o, "scopes")
  /\ UNCHANGED <<db, work, lock, ver, todo, counts>>

Recheck(o) ==
  /\ pc[o] = "recheck"
  /\ ver' = [ver EXCEPT ![o] = work.ver]
  /\ IF work.ver >= CurrentVersion
     THEN Rollback /\ Goto(o, "current")
     ELSE Goto(o, "scopes") /\ UNCHANGED <<work, lock>>
  /\ UNCHANGED <<db, todo, counts>>

AddParts(parts) == work' = [work EXCEPT !.parts = @ \cup parts]

(* mutant: one column stands for both *)
AddScopeColumnsAtOnce(o) ==
  /\ pc[o] = "scopes"
  /\ AddParts(IF "path_prefix" \in work.parts THEN {"prefix index"}
              ELSE ScopeColumns \cup {"prefix index"})
  /\ Goto(o, "skills")
  /\ UNCHANGED <<db, lock, ver, todo, counts>>

AddScopeColumns(o) ==
  /\ pc[o] = "scopes"
  /\ AddParts(ScopeColumns \cup {"prefix index"})
  /\ Goto(o, "skills")
  /\ UNCHANGED <<db, lock, ver, todo, counts>>

AddSkillColumns(o) ==
  /\ pc[o] = "skills"
  /\ AddParts(SkillColumns)
  /\ Goto(o, IF ver[o] < 4 THEN "clear" ELSE "capabilities")
  /\ UNCHANGED <<db, lock, ver, todo, counts>>

ClearSearch(o) ==
  /\ pc[o] = "clear"
  /\ work' = [work EXCEPT !.parts = @ \cup {"search"}, !.hits = [s \in Skills |-> 0]]
  /\ todo' = work.skills
  /\ Goto(o, "fill")
  /\ UNCHANGED <<db, lock, ver, counts>>

FillSearch(o) ==
  /\ pc[o] = "fill"
  /\ \E s \in todo :
       /\ work' = [work EXCEPT !.hits[s] = @ + 1]
       /\ todo' = todo \ {s}
  /\ UNCHANGED <<db, lock, pc, ver, counts>>

SearchFilled(o) ==
  /\ pc[o] = "fill" /\ todo = {}
  /\ Goto(o, "capabilities")
  /\ UNCHANGED <<db, work, lock, ver, todo, counts>>

CreateCapabilities(o) ==
  /\ pc[o] = "capabilities"
  /\ AddParts({"capabilities"})
  /\ Goto(o, "align")
  /\ UNCHANGED <<db, lock, ver, todo, counts>>

(* ver is below 6 here; the code tests it again. *)
AlignCapabilities(o) ==
  /\ pc[o] = "align"
  /\ work' = [work EXCEPT !.slot = [c \in Caps |-> IF c \in work.caps THEN c ELSE None]]
  /\ Goto(o, "stamp")
  /\ UNCHANGED <<db, lock, ver, todo, counts>>

(* mutant: the version is set on a connection outside the transaction *)
SetVersionOutside(o) ==
  /\ pc[o] = "stamp"
  /\ db' = [db EXCEPT !.ver = CurrentVersion]
  /\ work' = [work EXCEPT !.ver = CurrentVersion]
  /\ Goto(o, "commit")
  /\ UNCHANGED <<lock, ver, todo, counts>>

SetVersion(o) ==
  /\ pc[o] = "stamp"
  /\ work' = [work EXCEPT !.ver = CurrentVersion]
  /\ Goto(o, "commit")
  /\ UNCHANGED <<db, lock, ver, todo, counts>>

Commit(o) ==
  /\ pc[o] = "commit"
  /\ db' = work /\ lock' = None
  /\ Goto(o, "current")
  /\ UNCHANGED <<work, ver, todo, counts>>

Opened(o) ==
  /\ pc[o] = "current"
  /\ Goto(o, "open")
  /\ UNCHANGED <<db, work, lock, ver, todo, counts>>

(* The error path leaves the transaction to the end of the process. *)
CommitFails(o) ==
  /\ pc[o] = "commit" /\ fails < MaxFails
  /\ fails' = fails + 1
  /\ Goto(o, "failed")
  /\ UNCHANGED <<db, work, lock, ver, todo, opens>>

(* Every other error rolls back. *)
Fail(o) ==
  /\ pc[o] \in Steps \ {"closed", "current", "open", "failed", "commit"} /\ fails < MaxFails
  /\ fails' = fails + 1
  /\ IF lock = o THEN Rollback /\ todo' = {} ELSE UNCHANGED <<lock, work, todo>>
  /\ Goto(o, "failed")
  /\ UNCHANGED <<db, ver, opens>>

---------------------------------------------------------------------------
(* A process ends or is killed; SQLite rolls its transaction back. *)
Exit(o) ==
  /\ pc[o] # "closed"
  /\ pc[o] \notin {"open", "failed"} => fails < MaxFails
  /\ fails' = IF pc[o] \in {"open", "failed"} THEN fails ELSE fails + 1
  /\ IF lock = o THEN Rollback /\ todo' = {} ELSE UNCHANGED <<lock, work, todo>>
  /\ Goto(o, "closed")
  /\ UNCHANGED <<db, ver, opens>>

(* What connections do once open: InsertSkill and InsertCapability, which  *)
(* write a row and its full-text entry (one step here: SkillStore has the  *)
(* statements).                                                            *)
Insert(o) ==
  /\ pc[o] = "open" /\ lock = None
  /\ \/ \E s \in Skills \ db.skills :
          db' = [db EXCEPT !.skills = @ \cup {s}, !.hits[s] = 1]
     \/ \E c \in Caps \ db.caps :
          db' = [db EXCEPT !.caps = @ \cup {c}, !.slot[c] = c]
  /\ work' = db'
  /\ UNCHANGED <<lock, pc, ver, todo, counts>>

Advance(o) ==
  \/ \E table \in Tables : CreateTable(o, table)
  \/ SchemaDone(o) \/ ReadVersion(o) \/ Begin(o) \/ BusyTimeout(o)
  \/ Recheck(o) \/ AddScopeColumns(o) \/ AddSkillColumns(o)
  \/ ClearSearch(o) \/ FillSearch(o) \/ SearchFilled(o)
  \/ CreateCapabilities(o) \/ AlignCapabilities(o) \/ SetVersion(o) \/ Commit(o) \/ Opened(o)

Next ==
  \E o \in Openers :
    Start(o) \/ Advance(o) \/ CommitFails(o) \/ Fail(o) \/ Exit(o) \/ Insert(o)

Spec == Init /\ [][Next]_vars

(* A connection that can go on does.  Nothing makes processes open, fail,  *)
(* insert or end.                                                          *)
FairSpec == Spec /\ \A o \in Openers : WF_vars(Advance(o))

---------------------------------------------------------------------------
TypeOK ==
  /\ db \in Database /\ work \in Database
  /\ lock \in Openers \cup {None}
  /\ pc \in [Openers -> Steps]
  /\ ver \in [Openers -> 0..CurrentVersion]
  /\ todo \subseteq Skills
  /\ fails \in Nat /\ opens \in Nat

(* "BEGIN IMMEDIATE prevents two concurrent openers from both running the  *)
(* same migration": whoever is past the second check works on a database   *)
(* that still needs it, and is alone.                                      *)
MigratesOnce ==
  \A o \in Openers : pc[o] \in InTransaction \ {"recheck"} =>
    lock = o /\ db.ver < CurrentVersion

(* A connection that was opened, however many others opened, failed or     *)
(* stopped half way before, finds every table and column, each skill once  *)
(* in the full-text index and each capability at its own rowid.            *)
OpenIsComplete == \A o \in Openers : pc[o] \in {"current", "open"} => Complete(db)

(* Every open ends, in success or in failure. *)
OpenEnds ==
  \A o \in Openers : pc[o] \notin {"closed", "open", "failed"} ~> pc[o] \in {"closed", "open", "failed"}

IsCurrent == db.ver = CurrentVersion
RowsHeld == db.skills \cup db.caps
RowsFound ==
  IF IsCurrent THEN {s \in Skills : db.hits[s] = 1} \cup {c \in Caps : db.slot[c] = c} ELSE {}
OpenNow == {o \in Openers : pc[o] = "open"}

U == INSTANCE Upgrade WITH
  Users <- Openers, Rows <- Skills \cup Caps,
  current <- IsCurrent, rows <- RowsHeld, found <- RowsFound, using <- OpenNow

(* For everybody else the migration is one step of the database, which no  *)
(* open, failure or kill leaves half done and no row is lost in.           *)
UpgradesAtOnce == U!Spec
=============================================================================
