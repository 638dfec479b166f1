----------------------------- MODULE SkillStore -----------------------------
(***************************************************************************)
(* The skill tables of the registry, internal/registry, as several         *)
(* processes share them: MCP servers whose watchers insert and delete one  *)
(* skill at a time, skillex refresh, which clears and rebuilds, and        *)
(* queries.  Nothing groups their SQL statements into transactions, so the *)
(* unit of atomicity is one statement; any statement may fail on a busy    *)
(* database, and any process may stop between two.                         *)
(*                                                                         *)
(* Topics, tags and scopes are deleted and inserted alike and are one      *)
(* table here, labels, with one row for each time a skill was inserted.    *)
(***************************************************************************)
EXTENDS Integers, FiniteSets

CONSTANTS
  Paths,    \* skill files
  Writers,  \* processes that sync single skills and refresh
  Readers,  \* processes that query
  Vers,     \* contents a file may have
  None,
  MaxRuns,  \* bound: syncs and refreshes started
  MaxFails  \* bound: statements that fail, processes that stop

ASSUME StoreAssumption ==
  /\ None \notin Vers
  /\ MaxRuns \in Nat /\ MaxFails \in Nat

VARIABLES
  skills,   \* table skills, by its unique path
  lastId,   \* the AUTOINCREMENT counter of its ids
  search,   \* table skill_search: no foreign key
  labels,   \* tables skill_topics, skill_tags, skill_scopes: with foreign keys
  op,       \* what each writer is doing
  query,    \* what each reader is doing
  runs,     \* syncs and refreshes started
  fails,    \* failures so far
  settled   \* history: what the last insert stored, where no other writer of
            \* the skill ran at the same time

tables == <<skills, lastId, search, labels>>
ghosts == <<runs, fails, settled>>
vars == <<tables, op, query, ghosts>>

Content == Vers \cup {None}
Row == [id : Nat, ver : Content]
NoRow == [id |-> 0, ver |-> None]
Entry == [id : Nat, ver : Content, path : Paths, by : Writers]

Inserting == {"upsert", "id", "unsearch", "search", "unlabel", "label"}
Steps == Inserting \cup {"idle", "clear labels", "clear search", "clear skills", "next",
                         "find", "drop", "row"}
Op == [pc : Steps, path : Paths \cup {None}, ver : Content, id : Nat, full : BOOLEAN,
       alone : BOOLEAN, todo : SUBSET (Paths \X Vers)]
Query == [pc : {"idle", "meta", "done"}, path : Paths \cup {None}, row : Row,
          found : SUBSET Entry]

Idle == [pc |-> "idle", path |-> None, ver |-> None, id |-> 0, full |-> FALSE,
         alone |-> FALSE, todo |-> {}]
NoQuery == [pc |-> "idle", path |-> None, row |-> NoRow, found |-> {}]

Init ==
  /\ skills = [p \in Paths |-> NoRow]
  /\ lastId = 0 /\ search = {} /\ labels = {}
  /\ op = [w \in Writers |-> Idle]
  /\ query = [r \in Readers |-> NoQuery]
  /\ runs = 0 /\ fails = 0
  /\ settled = [p \in Paths |-> None]

Live(id) == \E p \in Paths : skills[p] # NoRow /\ skills[p].id = id
WithId(table, id) == {e \in table : e.id = id}

Goto(w, pc) == op' = [op EXCEPT ![w].pc = pc]

---------------------------------------------------------------------------
(* Two operations disturb each other if they write the same skill. *)
Touches(o, p) == o.pc # "idle" /\ (o.full \/ o.path = p)

Disturb(w, new, meets) ==
  op' = [x \in Writers |->
           IF x = w THEN [new EXCEPT !.alone = \A y \in Writers \ {w} : ~meets[y]]
           ELSE IF meets[x] THEN [op[x] EXCEPT !.alone = FALSE]
           ELSE op[x]]

(* A watcher's callback has read v in the file, or found no file.  Files    *)
(* change at will, so any content may be read.                             *)
StartSync(w, p, v) ==
  /\ op[w].pc = "idle" /\ runs < MaxRuns
  /\ runs' = runs + 1
  /\ Disturb(w, [Idle EXCEPT !.pc = IF v = None THEN "find" ELSE "upsert",
                             !.path = p, !.ver = v],
             [x \in Writers |-> Touches(op[x], p)])
  /\ settled' = [settled EXCEPT ![p] = None]
  /\ UNCHANGED <<tables, query, fails>>

(* Refresh: everything is scanned and parsed first. *)
StartRefresh(w, files) ==
  /\ op[w].pc = "idle" /\ runs < MaxRuns
  /\ runs' = runs + 1
  /\ Disturb(w, [Idle EXCEPT !.pc = "clear labels", !.full = TRUE,
                             !.todo = {<<p, files[p]>> : p \in {x \in Paths : files[x] # None}}],
             [x \in Writers |-> op[x].pc # "idle"])
  /\ settled' = [p \in Paths |-> None]
  /\ UNCHANGED <<tables, query, fails>>

---------------------------------------------------------------------------
(* Clear: one Exec of several statements, each committed by itself. *)
ClearLabels(w) ==
  /\ op[w].pc = "clear labels"
  /\ labels' = {}
  /\ Goto(w, "clear search")
  /\ UNCHANGED <<skills, lastId, search, query, ghosts>>

ClearSearch(w) ==
  /\ op[w].pc = "clear search"
  /\ search' = {}
  /\ Goto(w, "clear skills")
  /\ UNCHANGED <<skills, lastId, labels, query, ghosts>>

ClearSkills(w) ==
  /\ op[w].pc = "clear skills"
  /\ skills' = [p \in Paths |-> NoRow]
  /\ labels' = {}
  /\ Goto(w, "next")
  /\ UNCHANGED <<lastId, search, query, ghosts>>

NextSkill(w) ==
  /\ op[w].pc = "next"
  /\ \E t \in op[w].todo :
       op' = [op EXCEPT ![w].pc = "upsert", ![w].path = t[1], ![w].ver = t[2],
                        ![w].todo = @ \ {t}]
  /\ UNCHANGED <<tables, query, ghosts>>

RefreshDone(w) ==
  /\ op[w].pc = "next" /\ op[w].todo = {}
  /\ op' = [op EXCEPT ![w] = Idle]
  /\ UNCHANGED <<tables, query, ghosts>>

---------------------------------------------------------------------------
(* InsertSkill. *)

(* mutant: a rowid is free again as soon as its row is deleted *)
ReusedId == CHOOSE i \in 1..(lastId + 1) : ~Live(i) /\ \A j \in 1..(i - 1) : Live(j)

NextId == lastId + 1

(* INSERT ... ON CONFLICT(path) DO UPDATE keeps the id of the row. *)
Upsert(w) ==
  /\ op[w].pc = "upsert"
  /\ LET p == op[w].path
         id == IF skills[p] = NoRow THEN NextId ELSE skills[p].id
     IN  /\ skills' = [skills EXCEPT ![p] = [id |-> id, ver |-> op[w].ver]]
         /\ lastId' = IF id > lastId THEN id ELSE lastId
  /\ Goto(w, "id")
  /\ UNCHANGED <<search, labels, query, ghosts>>

(* mutant: the id is that of the row inserted last *)
LastInsertId(w) ==
  /\ op[w].pc = "id"
  /\ op' = [op EXCEPT ![w].id = lastId, ![w].pc = "unsearch"]
  /\ UNCHANGED <<tables, query, ghosts>>

(* getSkillIDByPath.  No row any more is an error: see Fail. *)
GetId(w) ==
  /\ op[w].pc = "id"
  /\ skills[op[w].path] # NoRow
  /\ op' = [op EXCEPT ![w].id = skills[op[w].path].id, ![w].pc = "unsearch"]
  /\ UNCHANGED <<tables, query, ghosts>>

Unsearch(w) ==
  /\ op[w].pc = "unsearch"
  /\ search' = search \ WithId(search, op[w].id)
  /\ Goto(w, "search")
  /\ UNCHANGED <<skills, lastId, labels, query, ghosts>>

NewEntry(w) == [id |-> op[w].id, ver |-> op[w].ver, path |-> op[w].path, by |-> w]

Search(w) ==
  /\ op[w].pc = "search"
  /\ search' = search \cup {NewEntry(w)}
  /\ Goto(w, "unlabel")
  /\ UNCHANGED <<skills, lastId, labels, query, ghosts>>

(* mutant: old labels are kept *)
KeepLabels(w) ==
  /\ op[w].pc = "unlabel"
  /\ Goto(w, "label")
  /\ UNCHANGED <<tables, query, ghosts>>

Unlabel(w) ==
  /\ op[w].pc = "unlabel"
  /\ labels' = labels \ WithId(labels, op[w].id)
  /\ Goto(w, "label")
  /\ UNCHANGED <<skills, lastId, search, query, ghosts>>

(* mutant: foreign keys are not enforced, as SQLite's default is *)
LabelOrphan(w) ==
  /\ op[w].pc = "label"
  /\ labels' = labels \cup {NewEntry(w)}
  /\ op' = [op EXCEPT ![w] = IF op[w].full THEN [@ EXCEPT !.pc = "next"] ELSE Idle]
  /\ settled' = [settled EXCEPT ![op[w].path] = IF op[w].alone THEN op[w].ver ELSE None]
  /\ UNCHANGED <<skills, lastId, search, query, runs, fails>>

(* The foreign key must hold; the insert is complete. *)
Label(w) ==
  /\ op[w].pc = "label"
  /\ Live(op[w].id)
  /\ labels' = labels \cup {NewEntry(w)}
  /\ op' = [op EXCEPT ![w] = IF op[w].full THEN [@ EXCEPT !.pc = "next"] ELSE Idle]
  /\ settled' = [settled EXCEPT ![op[w].path] = IF op[w].alone THEN op[w].ver ELSE None]
  /\ UNCHANGED <<skills, lastId, search, query, runs, fails>>

---------------------------------------------------------------------------
(* DeleteSkillByPath. *)

Find(w) ==
  /\ op[w].pc = "find"
  /\ op' = [op EXCEPT ![w] = IF skills[op[w].path] = NoRow THEN Idle
                             ELSE [@ EXCEPT !.id = skills[op[w].path].id, !.pc = "drop"]]
  /\ UNCHANGED <<tables, query, ghosts>>

Drop(w) ==
  /\ op[w].pc = "drop"
  /\ search' = search \ WithId(search, op[w].id)
  /\ Goto(w, "row")
  /\ UNCHANGED <<skills, lastId, labels, query, ghosts>>

(* The labels of the row go with it. *)
DropRow(w) ==
  /\ op[w].pc = "row"
  /\ skills' = [p \in Paths |-> IF skills[p].id = op[w].id THEN NoRow ELSE skills[p]]
  /\ labels' = labels \ WithId(labels, op[w].id)
  /\ op' = [op EXCEPT ![w] = Idle]
  /\ UNCHANGED <<lastId, search, query, ghosts>>

---------------------------------------------------------------------------
(* What was to be inserted next cannot be: the row, or its id, is gone. *)
Rejected(w) ==
  \/ op[w].pc = "id" /\ skills[op[w].path] = NoRow
  \/ op[w].pc = "label" /\ ~Live(op[w].id)

(* An error ends a sync or a Clear; a refresh goes on with the next skill. *)
Fail(w) ==
  /\ op[w].pc # "idle"
  /\ \/ Rejected(w) /\ UNCHANGED fails
     \/ fails < MaxFails /\ fails' = fails + 1
  /\ op' = [op EXCEPT ![w] = IF op[w].full /\ op[w].pc \in Inserting
                             THEN [@ EXCEPT !.pc = "next"] ELSE Idle]
  /\ UNCHANGED <<tables, query, runs, settled>>

Crash(w) ==
  /\ op[w].pc # "idle"
  /\ fails < MaxFails /\ fails' = fails + 1
  /\ op' = [op EXCEPT ![w] = Idle]
  /\ UNCHANGED <<tables, query, runs, settled>>

---------------------------------------------------------------------------
(* A query reads the rows, then populateMeta reads each one's labels. *)

QuerySearch(r, p) ==
  /\ query[r].pc = "idle"
  /\ skills[p] # NoRow
  /\ WithId(search, skills[p].id) # {}
  /\ query' = [query EXCEPT ![r] = [pc |-> "meta", path |-> p, row |-> skills[p],
                                    found |-> WithId(search, skills[p].id)]]
  /\ UNCHANGED <<tables, op, ghosts>>

PopulateMeta(r) ==
  /\ query[r].pc = "meta"
  /\ query' = [query EXCEPT ![r].pc = "done",
                            ![r].found = @ \cup WithId(labels, query[r].row.id)]
  /\ UNCHANGED <<tables, op, ghosts>>

Answer(r) ==
  /\ query[r].pc = "done"
  /\ query' = [query EXCEPT ![r] = NoQuery]
  /\ UNCHANGED <<tables, op, ghosts>>

---------------------------------------------------------------------------
Write(w) ==
  \/ \E p \in Paths, v \in Content : StartSync(w, p, v)
  \/ \E files \in [Paths -> Content] : StartRefresh(w, files)
  \/ ClearLabels(w) \/ ClearSearch(w) \/ ClearSkills(w)
  \/ NextSkill(w) \/ RefreshDone(w)
  \/ Upsert(w) \/ GetId(w) \/ Unsearch(w) \/ Search(w) \/ Unlabel(w) \/ Label(w)
  \/ Find(w) \/ Drop(w) \/ DropRow(w)
  \/ Fail(w) \/ Crash(w)

Next ==
  \/ \E w \in Writers : Write(w)
  \/ \E r \in Readers : (\E p \in Paths : QuerySearch(r, p)) \/ PopulateMeta(r) \/ Answer(r)

Spec == Init /\ [][Next]_vars

---------------------------------------------------------------------------
TypeOK ==
  /\ skills \in [Paths -> Row] /\ lastId \in Nat
  /\ search \subseteq Entry /\ labels \subseteq Entry
  /\ op \in [Writers -> Op]
  /\ query \in [Readers -> Query]
  /\ runs \in Nat /\ fails \in Nat
  /\ settled \in [Paths -> Content]

(* Who says that id is, or was, the id of the skill p.                     *)
Holding == {"unsearch", "search", "unlabel", "label", "drop", "row"}

Claims ==
  {<<skills[p].id, p>> : p \in {x \in Paths : skills[x] # NoRow}}
  \cup {<<e.id, e.path>> : e \in search \cup labels}
  \cup {<<op[w].id, op[w].path>> : w \in {x \in Writers : op[x].pc \in Holding}}
  \cup {<<query[r].row.id, query[r].path>> : r \in {x \in Readers : query[x].pc # "idle"}}

(* An id means one skill for good: the rows, the orphans in the search     *)
(* table, the ids writers took before a clear or a delete and the rows     *)
(* readers hold never disagree on it.                                      *)
OneMeaning ==
  \A c \in Claims :
    c[1] \in 1..lastId /\ \A d \in Claims : c[1] = d[1] => c[2] = d[2]

(* What a search hit or a label says is about the skill it is joined to,   *)
(* whatever orphans clears, deletes, failures and late inserts left behind *)
(* in the tables, and in every answer put together from two reads.         *)
AttachedToOwner ==
  /\ \A p \in Paths : skills[p] # NoRow =>
       \A e \in WithId(search \cup labels, skills[p].id) : e.path = p
  /\ \A r \in Readers : \A e \in query[r].found : e.path = query[r].path

(* A label belongs to a skill that exists, so a scope never matches a path *)
(* for a skill that is gone.                                               *)
NoOrphanLabel == \A e \in labels : Live(e.id)

Exactly(table, p) ==
  \E e \in table : e.ver = settled[p] /\ WithId(table, skills[p].id) = {e}

(* An insert that no other writer of the skill overlaps leaves one row, one *)
(* search entry and one set of labels, all of the content it was given,    *)
(* whatever half-finished inserts, deletes and refreshes went before.      *)
InsertRepairs ==
  \A p \in Paths : settled[p] # None =>
    /\ skills[p].ver = settled[p]
    /\ Exactly(search, p)
    /\ Exactly(labels, p)

(* Not kept by the code (it clears first): "Repository refresh builds into  *)
(* a transaction or temporary database and                                 *)
(* swaps": a skill that is indexed and will be again never disappears.     *)
RefreshSwaps ==
  [][\A w \in Writers, p \in Paths :
       /\ op[w].full /\ \E t \in op[w].todo : t[1] = p
       /\ skills[p] # NoRow
       => skills'[p] # NoRow]_vars

(* "Delete and re-insert topics, tags, scopes": once every writer is done,  *)
(* what a skill is found by and labelled with is of the content it has.    *)
LabelsOfContent ==
  (\A w \in Writers : op[w].pc = "idle") =>
    \A p \in Paths : skills[p] # NoRow =>
      \A e \in WithId(search \cup labels, skills[p].id) : e.ver = skills[p].ver

(* Not kept by the code (it reads in several statements): "Query uses read *)
(* snapshots", all parts of an answer are of one content.                  *)
SnapshotReads ==
  \A r \in Readers : query[r].pc = "done" =>
    \A e \in query[r].found : e.ver = query[r].row.ver
=============================================================================
