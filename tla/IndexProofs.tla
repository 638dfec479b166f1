------------------------------ MODULE IndexProofs ------------------------------
(***************************************************************************)
(* The index, as the tables of the skills and as what a query finds in it. *)
(* SkillStore: type correctness, and that no orphan in the tables is ever  *)
(* read as part of another skill, for any number of skills, writers and    *)
(* readers (the argument: an id means one skill for good); and that an     *)
(* insert nobody disturbs repairs what was left half-done. Discovery: a    *)
(* refresh makes the index what it linked, and a listing is exact. Scopes: *)
(* the matchers agree, and mean what was said of rules, packs, agents and  *)
(* dependencies, for every scope, path and project of names.               *)
(***************************************************************************)
EXTENDS SkillStore, Discovery, SequenceTheorems, FiniteSetTheorems, WellFoundedInduction, NaturalsInduction, TLAPS

(* A writer at work on one skill names it. *)
AtSkill == Inserting \cup {"find", "drop", "row"}
OpsNamed == \A w \in Writers : op[w].pc \in AtSkill => op[w].path \in Paths

Typed == TypeOK /\ OpsNamed

LEMMA RowTypes ==
  NoRow \in Row /\ Idle \in Op /\ NoQuery \in Query
BY DEF NoRow, Row, Content, Idle, Op, NoQuery, Query, Steps, Inserting, Entry

LEMMA TypedInit == Init => Typed
<1>1. SUFFICES ASSUME Init PROVE Typed
  OBVIOUS
<1>2. TypeOK
  BY <1>1, RowTypes DEF Init, TypeOK, Content
<1>3. OpsNamed
  BY <1>1 DEF Init, OpsNamed, AtSkill, Idle, Inserting
<1>4. QED
  BY <1>2, <1>3 DEF Typed

(* Starting an operation touches the writers only. *)
LEMMA DisturbTyped ==
  ASSUME Typed, NEW w \in Writers, NEW new \in Op, NEW meets,
         new.pc \in AtSkill => new.path \in Paths,
         Disturb(w, new, meets)
  PROVE  op' \in [Writers -> Op] /\ OpsNamed'
<1>1. \A x \in Writers : op[x] \in Op
  BY DEF Typed, TypeOK
<1>2. \A x \in Writers, v \in BOOLEAN : [op[x] EXCEPT !.alone = v] \in Op
  BY <1>1 DEF Op
<1>3. \A v \in BOOLEAN : [new EXCEPT !.alone = v] \in Op
  BY DEF Op
<1>4. \A x \in Writers : op'[x] \in Op
  BY <1>1, <1>2, <1>3 DEF Disturb
<1>5. ASSUME NEW x \in Writers, op'[x].pc \in AtSkill
      PROVE  op'[x].path \in Paths
  <2>1. CASE x = w
    BY <1>5, <2>1 DEF Disturb, Op
  <2>2. CASE x # w
    <3>1. op'[x].pc = op[x].pc /\ op'[x].path = op[x].path
      BY <1>1, <2>2 DEF Disturb, Op
    <3>2. QED
      BY <1>5, <3>1 DEF Typed, OpsNamed
  <2>3. QED
    BY <2>1, <2>2
<1>6. QED
  BY <1>4, <1>5 DEF Disturb, OpsNamed

(* A writer's own step leaves the other writers where they are. *)
LEMMA OwnStep ==
  ASSUME Typed, NEW w \in Writers, NEW o \in Op,
         o.pc \in AtSkill => o.path \in Paths,
         op' = [op EXCEPT ![w] = o]
  PROVE  op' \in [Writers -> Op] /\ OpsNamed'
BY DEF Typed, TypeOK, OpsNamed

LEMMA GotoTyped ==
  ASSUME Typed, NEW w \in Writers, NEW pc \in Steps,
         pc \in AtSkill => op[w].path \in Paths,
         Goto(w, pc)
  PROVE  op' \in [Writers -> Op] /\ OpsNamed'
<1>1. op[w] \in Op
  BY DEF Typed, TypeOK
<1>2. [op[w] EXCEPT !.pc = pc] \in Op
  BY <1>1 DEF Op
<1>3. [op[w] EXCEPT !.pc = pc].pc = pc /\ [op[w] EXCEPT !.pc = pc].path = op[w].path
  BY <1>1 DEF Op
<1>4. op' = [op EXCEPT ![w] = [op[w] EXCEPT !.pc = pc]]
  BY DEF Goto
<1>5. QED
  BY <1>2, <1>3, <1>4, OwnStep

LEMMA NewEntryTyped ==
  ASSUME Typed, NEW w \in Writers, op[w].path \in Paths
  PROVE  NewEntry(w) \in Entry
BY DEF Typed, TypeOK, NewEntry, Entry, Op

LEMMA TypedNext == Typed /\ [Next]_vars => Typed'
<1> SUFFICES ASSUME Typed, [Next]_vars PROVE Typed'
  OBVIOUS
<1> USE DEF Typed
<1>0. \A w \in Writers : op[w] \in Op
  BY DEF TypeOK
<1>1. ASSUME NEW w \in Writers, NEW p \in Paths, NEW v \in Content, StartSync(w, p, v)
      PROVE  Typed'
  <2> DEFINE new == [Idle EXCEPT !.pc = IF v = None THEN "find" ELSE "upsert",
                                 !.path = p, !.ver = v]
  <2>1. new \in Op /\ new.path \in Paths
    BY RowTypes DEF Op, Idle, Steps, Inserting
  <2>2. op' \in [Writers -> Op] /\ OpsNamed'
    BY <1>1, <2>1, DisturbTyped DEF StartSync
  <2>3. settled' \in [Paths -> Content] /\ runs' \in Nat
    BY <1>1 DEF StartSync, TypeOK, Content
  <2>4. QED
    BY <1>1, <2>2, <2>3 DEF StartSync, TypeOK, tables
<1>2. ASSUME NEW w \in Writers, NEW files \in [Paths -> Content], StartRefresh(w, files)
      PROVE  Typed'
  <2> DEFINE new == [Idle EXCEPT !.pc = "clear labels", !.full = TRUE,
                       !.todo = {<<p, files[p]>> : p \in {x \in Paths : files[x] # None}}]
  <2>1. {<<p, files[p]>> : p \in {x \in Paths : files[x] # None}} \in SUBSET (Paths \X Vers)
    BY DEF Content
  <2>2. new \in Op
    BY <2>1, RowTypes DEF Op, Idle, Steps
  <2>3. new.pc \notin AtSkill
    BY DEF Idle, AtSkill, Inserting
  <2>4. op' \in [Writers -> Op] /\ OpsNamed'
    BY <1>2, <2>2, <2>3, DisturbTyped DEF StartRefresh
  <2>5. settled' \in [Paths -> Content] /\ runs' \in Nat
    BY <1>2 DEF StartRefresh, TypeOK, Content
  <2>6. QED
    BY <1>2, <2>4, <2>5 DEF StartRefresh, TypeOK, tables
<1>3. ASSUME NEW w \in Writers,
             ClearLabels(w) \/ ClearSearch(w) \/ ClearSkills(w)
      PROVE  Typed'
  <2>1. \E pc \in {"clear search", "clear skills", "next"} : Goto(w, pc)
    BY <1>3 DEF ClearLabels, ClearSearch, ClearSkills
  <2>2. op' \in [Writers -> Op] /\ OpsNamed'
    BY <2>1, GotoTyped DEF Steps, AtSkill, Inserting
  <2>3. skills' \in [Paths -> Row] /\ search' \subseteq Entry /\ labels' \subseteq Entry
    BY <1>3, RowTypes DEF ClearLabels, ClearSearch, ClearSkills, TypeOK
  <2>4. QED
    BY <1>3, <2>2, <2>3 DEF ClearLabels, ClearSearch, ClearSkills, TypeOK, ghosts
<1>4. ASSUME NEW w \in Writers, NextSkill(w) PROVE Typed'
  <2>1. PICK t \in op[w].todo :
          op' = [op EXCEPT ![w].pc = "upsert", ![w].path = t[1], ![w].ver = t[2],
                           ![w].todo = @ \ {t}]
    BY <1>4 DEF NextSkill
  <2>2. t \in Paths \X Vers
    BY <1>0, <2>1 DEF Op
  <2> DEFINE o == [op[w] EXCEPT !.pc = "upsert", !.path = t[1], !.ver = t[2],
                                !.todo = @ \ {t}]
  <2>3. o \in Op /\ o.path \in Paths
    BY <1>0, <2>2 DEF Op, Steps, Inserting, Content
  <2>4. op' = [op EXCEPT ![w] = o]
    BY <2>1
  <2>5. op' \in [Writers -> Op] /\ OpsNamed'
    BY <2>3, <2>4, OwnStep
  <2>6. QED
    BY <1>4, <2>5 DEF NextSkill, TypeOK, tables, ghosts
<1>5. ASSUME NEW w \in Writers,
             RefreshDone(w) \/ Crash(w)
      PROVE  Typed'
  <2>1. op' = [op EXCEPT ![w] = Idle] /\ fails' \in Nat
    BY <1>5 DEF RefreshDone, Crash, TypeOK, ghosts
  <2>2. op' \in [Writers -> Op] /\ OpsNamed'
    BY <2>1, RowTypes, OwnStep DEF Idle, AtSkill, Inserting
  <2>3. QED
    BY <1>5, <2>1, <2>2 DEF RefreshDone, Crash, TypeOK, tables, ghosts
<1>6. ASSUME NEW w \in Writers, Upsert(w) PROVE Typed'
  <2>1. op[w].path \in Paths /\ op[w].ver \in Content
    BY <1>0, <1>6 DEF Upsert, OpsNamed, AtSkill, Inserting, Op
  <2>2. op' \in [Writers -> Op] /\ OpsNamed'
    BY <1>6, <2>1, GotoTyped DEF Upsert, Steps, Inserting
  <2>3. skills' \in [Paths -> Row] /\ lastId' \in Nat
    BY <1>6, <2>1 DEF Upsert, TypeOK, Row, NextId
  <2>4. QED
    BY <1>6, <2>2, <2>3 DEF Upsert, TypeOK, ghosts
<1>7. ASSUME NEW w \in Writers, GetId(w) PROVE Typed'
  <2>1. op[w].path \in Paths
    BY <1>7 DEF GetId, OpsNamed, AtSkill, Inserting
  <2> DEFINE o == [op[w] EXCEPT !.id = skills[op[w].path].id, !.pc = "unsearch"]
  <2>2. o \in Op /\ o.path \in Paths
    BY <1>0, <2>1 DEF Op, TypeOK, Row, Steps, Inserting
  <2>3. op' = [op EXCEPT ![w] = o]
    BY <1>7 DEF GetId
  <2>4. op' \in [Writers -> Op] /\ OpsNamed'
    BY <2>2, <2>3, OwnStep
  <2>5. QED
    BY <1>7, <2>4 DEF GetId, TypeOK, tables, ghosts
<1>8. ASSUME NEW w \in Writers,
             Unsearch(w) \/ Search(w) \/ Unlabel(w) \/ Drop(w)
      PROVE  Typed'
  <2>1. op[w].path \in Paths
    BY <1>8 DEF Unsearch, Search, Unlabel, Drop, OpsNamed, AtSkill, Inserting
  <2>2. \E pc \in {"search", "unlabel", "label", "row"} : Goto(w, pc)
    BY <1>8 DEF Unsearch, Search, Unlabel, Drop
  <2>3. op' \in [Writers -> Op] /\ OpsNamed'
    BY <2>1, <2>2, GotoTyped DEF Steps, Inserting
  <2>4. search' \subseteq Entry /\ labels' \subseteq Entry
    BY <1>8, <2>1, NewEntryTyped DEF Unsearch, Search, Unlabel, Drop, TypeOK
  <2>5. QED
    BY <1>8, <2>3, <2>4 DEF Unsearch, Search, Unlabel, Drop, TypeOK, ghosts
<1>9. ASSUME NEW w \in Writers, Label(w) PROVE Typed'
  <2>1. op[w].path \in Paths /\ op[w].ver \in Content
    BY <1>0, <1>9 DEF Label, OpsNamed, AtSkill, Inserting, Op
  <2> DEFINE o == IF op[w].full THEN [op[w] EXCEPT !.pc = "next"] ELSE Idle
  <2>2. o \in Op /\ o.pc \notin AtSkill
    BY <1>0, RowTypes DEF Op, Steps, Idle, AtSkill, Inserting
  <2>3. op' = [op EXCEPT ![w] = o]
    BY <1>9 DEF Label
  <2>4. op' \in [Writers -> Op] /\ OpsNamed'
    BY <2>2, <2>3, OwnStep
  <2>5. labels' \subseteq Entry /\ settled' \in [Paths -> Content]
    BY <1>9, <2>1, NewEntryTyped DEF Label, TypeOK, Content
  <2>6. QED
    BY <1>9, <2>4, <2>5 DEF Label, TypeOK
<1>10. ASSUME NEW w \in Writers, Find(w) PROVE Typed'
  <2>1. op[w].path \in Paths
    BY <1>10 DEF Find, OpsNamed, AtSkill
  <2> DEFINE o == IF skills[op[w].path] = NoRow THEN Idle
                  ELSE [op[w] EXCEPT !.id = skills[op[w].path].id, !.pc = "drop"]
  <2>2. o \in Op
    BY <1>0, <2>1, RowTypes DEF Op, TypeOK, Row, Steps
  <2>3. o.pc \in AtSkill => o.path \in Paths
    BY <1>0, <2>1 DEF Op, Idle, AtSkill, Inserting
  <2>4. op' = [op EXCEPT ![w] = o]
    BY <1>10 DEF Find
  <2>5. op' \in [Writers -> Op] /\ OpsNamed'
    BY <2>2, <2>3, <2>4, OwnStep
  <2>6. QED
    BY <1>10, <2>5 DEF Find, TypeOK, tables, ghosts
<1>11. ASSUME NEW w \in Writers, DropRow(w) PROVE Typed'
  <2>1. op' \in [Writers -> Op] /\ OpsNamed'
    BY <1>11, RowTypes, OwnStep DEF DropRow, Idle, AtSkill, Inserting
  <2>2. skills' \in [Paths -> Row] /\ labels' \subseteq Entry
    BY <1>11, RowTypes DEF DropRow, TypeOK
  <2>3. QED
    BY <1>11, <2>1, <2>2 DEF DropRow, TypeOK, ghosts
<1>12. ASSUME NEW w \in Writers, Fail(w) PROVE Typed'
  <2> DEFINE o == IF op[w].full /\ op[w].pc \in Inserting
                  THEN [op[w] EXCEPT !.pc = "next"] ELSE Idle
  <2>1. o \in Op /\ o.pc \notin AtSkill
    BY <1>0, RowTypes DEF Op, Steps, Idle, AtSkill, Inserting
  <2>2. op' = [op EXCEPT ![w] = o] /\ fails' \in Nat
    BY <1>12 DEF Fail, TypeOK
  <2>3. op' \in [Writers -> Op] /\ OpsNamed'
    BY <2>1, <2>2, OwnStep
  <2>4. QED
    BY <1>12, <2>2, <2>3 DEF Fail, TypeOK, tables
<1>13. ASSUME NEW r \in Readers, NEW p \in Paths, QuerySearch(r, p) PROVE Typed'
  <2>1. [pc |-> "meta", path |-> p, row |-> skills[p],
         found |-> WithId(search, skills[p].id)] \in Query
    BY DEF Query, TypeOK, WithId
  <2>2. query' \in [Readers -> Query]
    BY <1>13, <2>1 DEF QuerySearch, TypeOK
  <2>3. QED
    BY <1>13, <2>2 DEF QuerySearch, TypeOK, tables, ghosts, OpsNamed
<1>14. ASSUME NEW r \in Readers, PopulateMeta(r) \/ Answer(r) PROVE Typed'
  <2>1. query[r] \in Query
    BY DEF TypeOK
  <2>2. [query[r] EXCEPT !.pc = "done",
                         !.found = @ \cup WithId(labels, query[r].row.id)] \in Query
    BY <2>1 DEF Query, TypeOK, WithId
  <2>3. query' \in [Readers -> Query]
    BY <1>14, <2>2, RowTypes DEF PopulateMeta, Answer, TypeOK
  <2>4. QED
    BY <1>14, <2>3 DEF PopulateMeta, Answer, TypeOK, tables, ghosts, OpsNamed
<1>15. CASE UNCHANGED vars
  BY <1>15 DEF vars, tables, ghosts, TypeOK, OpsNamed
<1>16. QED
  BY <1>1, <1>2, <1>3, <1>4, <1>5, <1>6, <1>7, <1>8, <1>9, <1>10, <1>11, <1>12, <1>13,
     <1>14, <1>15 DEF Next, Write

(* Every value of the tables and of the processes' locals stays in its     *)
(* type.                                                                   *)
THEOREM TypeCorrect == Spec => []TypeOK
<1>1. Init => Typed
  BY TypedInit
<1>2. Typed /\ [Next]_vars => Typed'
  BY TypedNext
<1>3. Typed => TypeOK
  BY DEF Typed
<1>4. QED
  BY <1>1, <1>2, <1>3, PTL DEF Spec

---------------------------------------------------------------------------
(* Ids.  Claims only shrinks, but for the id a new row is given.           *)

LEMMA ClaimParts ==
  /\ \A p \in Paths : skills[p] # NoRow => <<skills[p].id, p>> \in Claims
  /\ \A e \in search \cup labels : <<e.id, e.path>> \in Claims
  /\ \A w \in Writers : op[w].pc \in Holding => <<op[w].id, op[w].path>> \in Claims
  /\ \A r \in Readers : query[r].pc # "idle" => <<query[r].row.id, query[r].path>> \in Claims
BY DEF Claims

(* What has to be shown of a step for its claims to be old ones, but c. *)
LEMMA ClaimsFrom ==
  ASSUME NEW c,
         \A p \in Paths : skills'[p] # NoRow => <<skills'[p].id, p>> \in Claims \cup {c},
         \A e \in search' \cup labels' : <<e.id, e.path>> \in Claims \cup {c},
         \A w \in Writers : op'[w].pc \in Holding =>
            <<op'[w].id, op'[w].path>> \in Claims \cup {c},
         \A r \in Readers : query'[r].pc # "idle" =>
            <<query'[r].row.id, query'[r].path>> \in Claims \cup {c}
  PROVE  Claims' \subseteq Claims \cup {c}
BY DEF Claims

LEMMA ClaimsShrink ==
  ASSUME Typed, OneMeaning, lastId' = lastId, Claims' \subseteq Claims
  PROVE  OneMeaning'
BY DEF OneMeaning

LEMMA ClaimsGrow ==
  ASSUME Typed, OneMeaning, NEW p,
         lastId' = lastId + 1, Claims' \subseteq Claims \cup {<<lastId + 1, p>>}
  PROVE  OneMeaning'
<1>1. lastId \in Nat
  BY DEF Typed, TypeOK
<1>2. \A c \in Claims : c[1] \in 1..lastId /\ c[1] # lastId + 1
  BY <1>1 DEF OneMeaning
<1>3. \A c \in Claims' : c[1] \in 1..lastId'
  BY <1>1, <1>2
<1>4. \A c, d \in Claims' : c[1] = d[1] => c[2] = d[2]
  BY <1>2 DEF OneMeaning
<1>5. QED
  BY <1>3, <1>4 DEF OneMeaning

(* A step that leaves the tables and the queries alone, and after which    *)
(* writer w holds no id but one it held or one that was claimed.           *)
LEMMA LocalStep ==
  ASSUME Typed, OneMeaning, UNCHANGED <<tables, query>>,
         \A w \in Writers : op'[w].pc \in Holding => <<op'[w].id, op'[w].path>> \in Claims
  PROVE  OneMeaning'
<1>1. Claims' \subseteq Claims
  BY DEF Claims, tables
<1>2. QED
  BY <1>1, ClaimsShrink DEF tables

(* A step of writer w that deletes or inserts claimed entries only. *)
LEMMA TableStep ==
  ASSUME Typed, OneMeaning, UNCHANGED <<lastId, query>>,
         \A p \in Paths : skills'[p] \in {skills[p], NoRow},
         \A e \in search' \cup labels' : <<e.id, e.path>> \in Claims,
         \A w \in Writers : op'[w].pc \in Holding => <<op'[w].id, op'[w].path>> \in Claims
  PROVE  OneMeaning'
<1>1. Claims' \subseteq Claims
  BY DEF Claims
<1>2. QED
  BY <1>1, ClaimsShrink

(* A writer that now holds no id adds no claim. *)
LEMMA Releases ==
  ASSUME Typed, NEW w \in Writers, NEW o, o.pc \notin Holding, op' = [op EXCEPT ![w] = o]
  PROVE  \A x \in Writers : op'[x].pc \in Holding => <<op'[x].id, op'[x].path>> \in Claims
<1>1. op \in [Writers -> Op]
  BY DEF Typed, TypeOK
<1>2. \A x \in Writers : op'[x] = IF x = w THEN o ELSE op[x]
  BY <1>1
<1>3. QED
  BY <1>2, ClaimParts

LEMMA MeaningInit == Init => OneMeaning
BY DEF Init, OneMeaning, Claims, Idle, NoQuery, Holding

LEMMA MeaningNext == Typed /\ OneMeaning /\ [Next]_vars => OneMeaning'
<1> SUFFICES ASSUME Typed, OneMeaning, [Next]_vars PROVE OneMeaning'
  OBVIOUS
<1>0. \A w \in Writers : op[w] \in Op
  BY DEF Typed, TypeOK
<1>00. op \in [Writers -> Op] /\ query \in [Readers -> Query] /\ skills \in [Paths -> Row]
       /\ lastId \in Nat
  BY DEF Typed, TypeOK
<1>1. ASSUME NEW w \in Writers, NEW new \in Op, NEW meets, new.pc \notin Holding,
             Disturb(w, new, meets), UNCHANGED <<tables, query>>
      PROVE  OneMeaning'
  <2>1. ASSUME NEW x \in Writers, op'[x].pc \in Holding
        PROVE  <<op'[x].id, op'[x].path>> \in Claims
    <3>1. CASE x = w
      BY <1>1, <2>1, <3>1 DEF Disturb, Op
    <3>2. CASE x # w
      <4>1. op'[x].pc = op[x].pc /\ op'[x].path = op[x].path /\ op'[x].id = op[x].id
        BY <1>0, <1>1, <3>2 DEF Disturb, Op
      <4>2. QED
        BY <2>1, <4>1, ClaimParts
    <3>3. QED
      BY <3>1, <3>2
  <2>2. QED
    BY <1>1, <2>1, LocalStep
<1>2. ASSUME NEW w \in Writers, NEW p \in Paths, NEW v \in Content, StartSync(w, p, v)
      PROVE  OneMeaning'
  <2> DEFINE new == [Idle EXCEPT !.pc = IF v = None THEN "find" ELSE "upsert",
                                 !.path = p, !.ver = v]
  <2>1. new \in Op /\ new.pc \notin Holding
    BY RowTypes DEF Op, Idle, Steps, Inserting, Holding
  <2>2. QED
    BY <1>1, <1>2, <2>1 DEF StartSync
<1>3. ASSUME NEW w \in Writers, NEW files \in [Paths -> Content], StartRefresh(w, files)
      PROVE  OneMeaning'
  <2> DEFINE new == [Idle EXCEPT !.pc = "clear labels", !.full = TRUE,
                       !.todo = {<<p, files[p]>> : p \in {x \in Paths : files[x] # None}}]
  <2>1. {<<p, files[p]>> : p \in {x \in Paths : files[x] # None}} \in SUBSET (Paths \X Vers)
    BY DEF Content
  <2>2. new \in Op /\ new.pc \notin Holding
    BY <2>1, RowTypes DEF Op, Idle, Steps, Holding
  <2>3. QED
    BY <1>1, <1>3, <2>2 DEF StartRefresh
<1>4. ASSUME NEW w \in Writers, ClearLabels(w) \/ ClearSearch(w) \/ ClearSkills(w)
      PROVE  OneMeaning'
  <2>1. \A x \in Writers : op'[x].pc \in Holding => <<op'[x].id, op'[x].path>> \in Claims
    <3>1. PICK pc \in {"clear search", "clear skills", "next"} : Goto(w, pc)
      BY <1>4 DEF ClearLabels, ClearSearch, ClearSkills
    <3>2. [op[w] EXCEPT !.pc = pc].pc \notin Holding
      BY <1>0, <3>1 DEF Holding, Op
    <3>3. QED
      BY <3>1, <3>2, Releases DEF Goto
  <2>2. \A e \in search' \cup labels' : <<e.id, e.path>> \in Claims
    BY <1>4, ClaimParts DEF ClearLabels, ClearSearch, ClearSkills
  <2>3. QED
    BY <1>4, <2>1, <2>2, TableStep DEF ClearLabels, ClearSearch, ClearSkills
<1>5. ASSUME NEW w \in Writers,
             NextSkill(w) \/ RefreshDone(w) \/ Crash(w) \/ Fail(w)
      PROVE  OneMeaning'
  <2>1. \A x \in Writers : op'[x].pc \in Holding => <<op'[x].id, op'[x].path>> \in Claims
    <3>1. CASE NextSkill(w)
      <4>1. PICK t \in op[w].todo :
              op' = [op EXCEPT ![w].pc = "upsert", ![w].path = t[1], ![w].ver = t[2],
                               ![w].todo = @ \ {t}]
        BY <3>1 DEF NextSkill
      <4> DEFINE o == [op[w] EXCEPT !.pc = "upsert", !.path = t[1], !.ver = t[2],
                                    !.todo = @ \ {t}]
      <4>2. o.pc \notin Holding /\ op' = [op EXCEPT ![w] = o]
        BY <1>0, <4>1 DEF Holding, Op
      <4>3. QED
        BY <4>2, Releases
    <3>2. CASE RefreshDone(w) \/ Crash(w)
      <4>1. Idle.pc \notin Holding /\ op' = [op EXCEPT ![w] = Idle]
        BY <3>2 DEF RefreshDone, Crash, Idle, Holding
      <4>2. QED
        BY <4>1, Releases
    <3>3. CASE Fail(w)
      <4> DEFINE o == IF op[w].full /\ op[w].pc \in Inserting
                      THEN [op[w] EXCEPT !.pc = "next"] ELSE Idle
      <4>1. o.pc \notin Holding
        BY <1>0 DEF Holding, Op, Idle
      <4>2. op' = [op EXCEPT ![w] = o]
        BY <3>3 DEF Fail
      <4>3. QED
        BY <4>1, <4>2, Releases
    <3>4. QED
      BY <1>5, <3>1, <3>2, <3>3
  <2>2. QED
    BY <1>5, <2>1, LocalStep DEF NextSkill, RefreshDone, Crash, Fail
<1>6. ASSUME NEW w \in Writers, Upsert(w) PROVE OneMeaning'
  <2> DEFINE p == op[w].path
             c == <<lastId + 1, p>>
  <2>1. p \in Paths
    BY <1>6 DEF Upsert, Typed, OpsNamed, AtSkill, Inserting
  <2>2. \A x \in Writers : op'[x].pc \in Holding => <<op'[x].id, op'[x].path>> \in Claims
    BY <1>0, <1>00, <1>6, ClaimParts DEF Upsert, Goto, Holding, Op
  <2>3. CASE skills[p] = NoRow
    <3>1. lastId' = lastId + 1 /\ skills'[p].id = lastId + 1
      BY <1>00, <1>6, <2>1, <2>3 DEF Upsert, NextId
    <3>2. \A q \in Paths : skills'[q] # NoRow => <<skills'[q].id, q>> \in Claims \cup {c}
      BY <1>00, <1>6, <2>1, <3>1, ClaimParts DEF Upsert
    <3>3. Claims' \subseteq Claims \cup {c}
      BY <1>6, <2>2, <3>2, ClaimParts, ClaimsFrom DEF Upsert
    <3>4. QED
      BY <3>1, <3>3, ClaimsGrow
  <2>4. CASE skills[p] # NoRow
    <3>1. skills[p].id \in 1..lastId
      BY <2>1, <2>4, ClaimParts DEF OneMeaning
    <3>2. lastId' = lastId /\ skills'[p].id = skills[p].id
      BY <1>00, <1>6, <2>1, <2>4, <3>1 DEF Upsert
    <3>3. \A q \in Paths : skills'[q] # NoRow => <<skills'[q].id, q>> \in Claims
      BY <1>00, <1>6, <2>1, <2>4, <3>2, ClaimParts DEF Upsert
    <3>4. Claims' \subseteq Claims
      BY <1>6, <2>2, <3>3, ClaimParts DEF Upsert, Claims
    <3>5. QED
      BY <3>2, <3>4, ClaimsShrink
  <2>5. QED
    BY <2>3, <2>4
<1>7. ASSUME NEW w \in Writers, GetId(w) \/ Find(w) PROVE OneMeaning'
  <2>1. op[w].path \in Paths
    BY <1>7 DEF GetId, Find, Typed, OpsNamed, AtSkill, Inserting
  <2>2. ASSUME NEW x \in Writers, op'[x].pc \in Holding
        PROVE  <<op'[x].id, op'[x].path>> \in Claims
    <3>1. CASE x # w
      <4>1. op'[x] = op[x]
        BY <1>00, <1>7, <3>1 DEF GetId, Find
      <4>2. QED
        BY <2>2, <4>1, ClaimParts
    <3>2. CASE x = w
      <4>1. /\ skills[op[w].path] # NoRow
            /\ op'[w].id = skills[op[w].path].id /\ op'[w].path = op[w].path
        <5>1. CASE GetId(w)
          BY <1>0, <1>00, <5>1 DEF GetId, Op
        <5>2. CASE Find(w)
          <6>1. op'[w] = IF skills[op[w].path] = NoRow THEN Idle
                         ELSE [op[w] EXCEPT !.id = skills[op[w].path].id, !.pc = "drop"]
            BY <1>00, <5>2 DEF Find
          <6>2. op'[w].pc # "idle"
            BY <2>2, <3>2 DEF Holding
          <6>3. QED
            BY <1>0, <6>1, <6>2 DEF Idle, Op
        <5>3. QED
          BY <1>7, <5>1, <5>2
      <4>2. QED
        BY <2>1, <3>2, <4>1, ClaimParts
    <3>3. QED
      BY <3>1, <3>2
  <2>3. QED
    BY <1>7, <2>2, LocalStep DEF GetId, Find
<1>8. ASSUME NEW w \in Writers,
             Unsearch(w) \/ Search(w) \/ Unlabel(w) \/ Label(w) \/ Drop(w) \/ DropRow(w)
      PROVE  OneMeaning'
  <2>1. <<op[w].id, op[w].path>> \in Claims
    BY <1>8, ClaimParts DEF Unsearch, Search, Unlabel, Label, Drop, DropRow, Holding
  <2>2. ASSUME NEW x \in Writers, op'[x].pc \in Holding
        PROVE  <<op'[x].id, op'[x].path>> \in Claims
    <3>1. CASE x # w
      <4>1. op'[x] = op[x]
        BY <1>00, <1>8, <3>1 DEF Unsearch, Search, Unlabel, Label, Drop, DropRow, Goto
      <4>2. QED
        BY <2>2, <4>1, ClaimParts
    <3>2. CASE x = w
      <4>1. op'[w].id = op[w].id /\ op'[w].path = op[w].path
        BY <1>0, <1>00, <1>8, <2>2, <3>2
           DEF Unsearch, Search, Unlabel, Label, Drop, DropRow, Goto, Idle, Holding, Op
      <4>2. QED
        BY <2>1, <3>2, <4>1
    <3>3. QED
      BY <3>1, <3>2
  <2>3. \A e \in search' \cup labels' : <<e.id, e.path>> \in Claims
    <3>1. search' \cup labels' \subseteq (search \cup labels) \cup {NewEntry(w)}
      BY <1>8 DEF Unsearch, Search, Unlabel, Label, Drop, DropRow
    <3>2. NewEntry(w).id = op[w].id /\ NewEntry(w).path = op[w].path
      BY DEF NewEntry
    <3>3. QED
      BY <2>1, <3>1, <3>2, ClaimParts
  <2>4. \A p \in Paths : skills'[p] \in {skills[p], NoRow}
    BY <1>8 DEF Unsearch, Search, Unlabel, Label, Drop, DropRow
  <2>5. QED
    BY <1>8, <2>2, <2>3, <2>4, TableStep
       DEF Unsearch, Search, Unlabel, Label, Drop, DropRow
<1>9. ASSUME NEW r \in Readers, (\E p \in Paths : QuerySearch(r, p)) \/ PopulateMeta(r) \/ Answer(r)
      PROVE  OneMeaning'
  <2>0. \A s \in Readers : query[s] \in Query
    BY <1>00
  <2>1. ASSUME NEW s \in Readers, query'[s].pc # "idle"
        PROVE  <<query'[s].row.id, query'[s].path>> \in Claims
    <3>1. CASE s # r
      <4>1. query'[s] = query[s]
        BY <1>00, <1>9, <3>1 DEF QuerySearch, PopulateMeta, Answer
      <4>2. QED
        BY <2>1, <4>1, ClaimParts
    <3>2. CASE s = r /\ \E p \in Paths : QuerySearch(r, p)
      BY <1>00, <3>2, ClaimParts DEF QuerySearch
    <3>3. CASE s = r /\ PopulateMeta(r)
      <4>1. query[r].pc # "idle" /\ query'[r].row = query[r].row /\ query'[r].path = query[r].path
        BY <1>00, <2>0, <3>3 DEF PopulateMeta, Query
      <4>2. QED
        BY <3>3, <4>1, ClaimParts
    <3>4. CASE s = r /\ Answer(r)
      BY <1>00, <2>1, <3>4 DEF Answer, NoQuery
    <3>5. QED
      BY <1>9, <3>1, <3>2, <3>3, <3>4
  <2>2. UNCHANGED <<tables, op>>
    BY <1>9 DEF QuerySearch, PopulateMeta, Answer
  <2>3. Claims' \subseteq Claims
    BY <2>1, <2>2 DEF Claims, tables
  <2>4. QED
    BY <2>2, <2>3, ClaimsShrink DEF tables
<1>10. CASE UNCHANGED vars
  BY <1>10 DEF vars, tables, ghosts, OneMeaning, Claims
<1>11. QED
  BY <1>2, <1>3, <1>4, <1>5, <1>6, <1>7, <1>8, <1>9, <1>10 DEF Next, Write

(* No id ever stands for two skills, not even in what clears, deletes and  *)
(* failures left behind or a process still remembers.                      *)
THEOREM IdsMeanOneSkill == Spec => []OneMeaning
<1>1. Init => Typed /\ OneMeaning
  BY TypedInit, MeaningInit
<1>2. Typed /\ OneMeaning /\ [Next]_vars => (Typed /\ OneMeaning)'
  BY TypedNext, MeaningNext
<1>3. QED
  BY <1>1, <1>2, PTL DEF Spec
---------------------------------------------------------------------------
(* What readers put together.                                              *)

FoundOwn == \A r \in Readers : \A e \in query[r].found : e.path = query[r].path

LEMMA SameMeaning ==
  ASSUME OneMeaning, NEW id, NEW p, <<id, p>> \in Claims,
         NEW e \in search \cup labels, e.id = id
  PROVE  e.path = p
<1>1. <<id, e.path>> \in Claims
  BY ClaimParts
<1>2. <<id, e.path>>[1] = <<id, p>>[1]
  OBVIOUS
<1>3. <<id, e.path>>[2] = <<id, p>>[2]
  BY <1>1, <1>2 DEF OneMeaning
<1>4. QED
  BY <1>3

LEMMA FoundNext == Typed /\ OneMeaning /\ FoundOwn /\ [Next]_vars => FoundOwn'
<1> SUFFICES ASSUME Typed, OneMeaning, FoundOwn, [Next]_vars PROVE FoundOwn'
  OBVIOUS
<1>0. query \in [Readers -> Query] /\ \A s \in Readers : query[s] \in Query
  BY DEF Typed, TypeOK
<1>1. ASSUME NEW r \in Readers, NEW p \in Paths, QuerySearch(r, p) PROVE FoundOwn'
  <2>1. \A e \in WithId(search, skills[p].id) : e.path = p
    <3>1. <<skills[p].id, p>> \in Claims
      BY <1>1, ClaimParts DEF QuerySearch
    <3>2. QED
      BY <3>1, SameMeaning DEF WithId
  <2>2. QED
    BY <1>0, <1>1, <2>1 DEF QuerySearch, FoundOwn
<1>2. ASSUME NEW r \in Readers, PopulateMeta(r) PROVE FoundOwn'
  <2>1. \A e \in WithId(labels, query[r].row.id) : e.path = query[r].path
    <3>1. <<query[r].row.id, query[r].path>> \in Claims
      BY <1>2, ClaimParts DEF PopulateMeta
    <3>2. QED
      BY <3>1, SameMeaning DEF WithId
  <2>2. /\ query'[r].found = query[r].found \cup WithId(labels, query[r].row.id)
        /\ query'[r].path = query[r].path
    BY <1>0, <1>2 DEF PopulateMeta, Query
  <2>3. \A s \in Readers : s # r => query'[s] = query[s]
    BY <1>0, <1>2 DEF PopulateMeta
  <2>4. QED
    BY <2>1, <2>2, <2>3 DEF FoundOwn
<1>3. ASSUME NEW r \in Readers, Answer(r) PROVE FoundOwn'
  BY <1>0, <1>3 DEF Answer, NoQuery, FoundOwn
<1>4. ASSUME NEW w \in Writers, Write(w) PROVE FoundOwn'
  <2>1. UNCHANGED query
    BY <1>4 DEF Write, StartSync, StartRefresh, ClearLabels, ClearSearch, ClearSkills,
                NextSkill, RefreshDone, Upsert, GetId, Unsearch, Search, Unlabel, Label,
                Find, Drop, DropRow, Fail, Crash
  <2>2. QED
    BY <2>1 DEF FoundOwn
<1>5. CASE UNCHANGED vars
  BY <1>5 DEF vars, FoundOwn
<1>6. QED
  BY <1>1, <1>2, <1>3, <1>4, <1>5 DEF Next

(* A hit or a label is never read as part of another skill.                *)
THEOREM ReadsOwn == Spec => []AttachedToOwner
<1>1. Init => Typed /\ OneMeaning /\ FoundOwn
  <2>1. Init => FoundOwn
    BY DEF Init, FoundOwn, NoQuery
  <2>2. QED
    BY <2>1, TypedInit, MeaningInit
<1>2. Typed /\ OneMeaning /\ FoundOwn /\ [Next]_vars => (Typed /\ OneMeaning /\ FoundOwn)'
  BY TypedNext, MeaningNext, FoundNext
<1>3. OneMeaning /\ FoundOwn => AttachedToOwner
  <2>1. ASSUME OneMeaning, NEW p \in Paths, skills[p] # NoRow,
               NEW e \in WithId(search \cup labels, skills[p].id)
        PROVE  e.path = p
    BY <2>1, ClaimParts, SameMeaning DEF WithId
  <2>2. QED
    BY <2>1 DEF FoundOwn, AttachedToOwner
<1>4. QED
  BY <1>1, <1>2, <1>3, PTL DEF Spec

---------------------------------------------------------------------------
LEMMA OrphanNext == Typed /\ OneMeaning /\ NoOrphanLabel /\ [Next]_vars => NoOrphanLabel'
<1> SUFFICES ASSUME Typed, OneMeaning, NoOrphanLabel, [Next]_vars PROVE NoOrphanLabel'
  OBVIOUS
<1>0. skills \in [Paths -> Row]
  BY DEF Typed, TypeOK
<1>1. ASSUME skills' = skills, labels' \subseteq labels PROVE NoOrphanLabel'
  BY <1>1 DEF NoOrphanLabel, Live
<1>2. ASSUME NEW w \in Writers, Upsert(w) PROVE NoOrphanLabel'
  <2>1. ASSUME NEW p \in Paths, skills[p] # NoRow
        PROVE  skills'[p] # NoRow /\ skills'[p].id = skills[p].id
    <3>1. CASE op[w].path = p
      <4>1. skills'[p] = [id |-> skills[p].id, ver |-> op[w].ver]
        BY <1>0, <1>2, <2>1, <3>1 DEF Upsert
      <4>2. skills[p].id \in 1..lastId
        BY <2>1, ClaimParts DEF OneMeaning
      <4>3. QED
        BY <4>1, <4>2 DEF NoRow, Typed, TypeOK
    <3>2. CASE op[w].path # p
      BY <1>0, <1>2, <2>1, <3>2 DEF Upsert
    <3>3. QED
      BY <3>1, <3>2
  <2>2. QED
    BY <1>2, <2>1 DEF Upsert, NoOrphanLabel, Live
<1>3. ASSUME NEW w \in Writers, DropRow(w) PROVE NoOrphanLabel'
  BY <1>0, <1>3 DEF DropRow, NoOrphanLabel, Live, WithId
<1>4. ASSUME NEW w \in Writers, ClearSkills(w) PROVE NoOrphanLabel'
  BY <1>4 DEF ClearSkills, NoOrphanLabel
<1>5. ASSUME NEW w \in Writers, Label(w) PROVE NoOrphanLabel'
  BY <1>5 DEF Label, NoOrphanLabel, Live, NewEntry
<1>6. ASSUME NEW w \in Writers, Write(w) PROVE NoOrphanLabel'
  <2>1. \/ Upsert(w) \/ DropRow(w) \/ ClearSkills(w) \/ Label(w)
        \/ skills' = skills /\ labels' \subseteq labels
    BY <1>6 DEF Write, StartSync, StartRefresh, ClearLabels, ClearSearch, NextSkill,
                RefreshDone, GetId, Unsearch, Search, Unlabel, Find, Drop, Fail, Crash, tables
  <2>2. QED
    BY <1>1, <1>2, <1>3, <1>4, <1>5, <2>1
<1>7. CASE (\E r \in Readers : (\E p \in Paths : QuerySearch(r, p)) \/ PopulateMeta(r) \/ Answer(r))
           \/ UNCHANGED vars
  BY <1>1, <1>7 DEF QuerySearch, PopulateMeta, Answer, vars, tables
<1>8. QED
  BY <1>6, <1>7 DEF Next

(* A topic, tag or scope never outlives its skill.                         *)
THEOREM LabelsHaveSkills == Spec => []NoOrphanLabel
<1>1. Init => Typed /\ OneMeaning /\ NoOrphanLabel
  <2>1. Init => NoOrphanLabel
    BY DEF Init, NoOrphanLabel
  <2>2. QED
    BY <2>1, TypedInit, MeaningInit
<1>2. Typed /\ OneMeaning /\ NoOrphanLabel /\ [Next]_vars
        => (Typed /\ OneMeaning /\ NoOrphanLabel)'
  BY TypedNext, MeaningNext, OrphanNext
<1>3. QED
  BY <1>1, <1>2, PTL DEF Spec

---------------------------------------------------------------------------
(* Inserts that nobody disturbs.                                           *)

Clearing == {"clear labels", "clear search", "clear skills"}

(* What an operation does by its kind, and that a refresh has each skill   *)
(* once.                                                                   *)
ShapeOf(w) ==
  /\ op[w].full => op[w].pc \in Clearing \cup Inserting \cup {"next", "idle"}
  /\ ~op[w].full => op[w].pc \in AtSkill \cup {"idle"}
  /\ \A t, u \in op[w].todo : t[1] = u[1] => t = u
  /\ op[w].full /\ op[w].pc \in Inserting => \A t \in op[w].todo : t[1] # op[w].path

(* An operation that is alone has nobody else on its skills.               *)
Apart(w, x) ==
  op[w].alone /\ op[w].pc # "idle" /\ op[x].pc # "idle" =>
    ~op[w].full /\ ~op[x].full /\ op[w].path # op[x].path

(* A writer has nothing to write for the skill p any more.                 *)
Past(x, p) ==
  op[x].pc # "idle" =>
    /\ op[x].pc \notin Clearing
    /\ op[x].pc \in AtSkill => op[x].path # p
    /\ op[x].full => \A t \in op[x].todo : t[1] # p

(* What an insert that is alone has done so far.                           *)
DoneOf(w) ==
  LET row == skills[op[w].path] IN
  op[w].alone =>
    /\ op[w].pc \in Inserting \ {"upsert"} => row # NoRow /\ row.ver = op[w].ver
    /\ op[w].pc \in Inserting \ {"upsert", "id"} => op[w].id = row.id
    /\ op[w].pc = "search" => WithId(search, op[w].id) = {}
    /\ op[w].pc \in {"unlabel", "label"} => WithId(search, op[w].id) = {NewEntry(w)}
    /\ op[w].pc = "label" => WithId(labels, op[w].id) = {}

Shapes == \A w \in Writers : ShapeOf(w)
AllApart == \A w, x \in Writers : w # x => Apart(w, x)
AllDone == \A w \in Writers : DoneOf(w)
AllPast == \A p \in Paths : settled[p] # None => \A x \in Writers : Past(x, p)

Starts(w) ==
  \/ \E p \in Paths, v \in Content : StartSync(w, p, v)
  \/ \E files \in [Paths -> Content] : StartRefresh(w, files)
Continues(w) ==
  \/ ClearLabels(w) \/ ClearSearch(w) \/ ClearSkills(w)
  \/ NextSkill(w) \/ RefreshDone(w)
  \/ Upsert(w) \/ GetId(w) \/ Unsearch(w) \/ Search(w) \/ Unlabel(w) \/ Label(w)
  \/ Find(w) \/ Drop(w) \/ DropRow(w)
  \/ Fail(w) \/ Crash(w)

(* What starts disturbs others and leaves them where they are.             *)
LEMMA Started ==
  ASSUME Typed, NEW w \in Writers, NEW new \in Op, NEW meets, Disturb(w, new, meets)
  PROVE  /\ \A x \in Writers \ {w} :
              /\ op'[x].pc = op[x].pc /\ op'[x].full = op[x].full /\ op'[x].path = op[x].path
              /\ op'[x].ver = op[x].ver /\ op'[x].id = op[x].id /\ op'[x].todo = op[x].todo
              /\ op'[x].alone => op[x].alone /\ ~meets[x]
         /\ op'[w].pc = new.pc /\ op'[w].full = new.full /\ op'[w].path = new.path
         /\ op'[w].ver = new.ver /\ op'[w].todo = new.todo
         /\ op'[w].alone => \A y \in Writers \ {w} : ~meets[y]
<1>1. \A x \in Writers : op[x] \in Op
  BY DEF Typed, TypeOK
<1>2. ASSUME NEW x \in Writers \ {w}
      PROVE  /\ op'[x].pc = op[x].pc /\ op'[x].full = op[x].full /\ op'[x].path = op[x].path
             /\ op'[x].ver = op[x].ver /\ op'[x].id = op[x].id /\ op'[x].todo = op[x].todo
             /\ op'[x].alone => op[x].alone /\ ~meets[x]
  <2>1. CASE meets[x]
    <3>1. op'[x] = [op[x] EXCEPT !.alone = FALSE]
      BY <2>1 DEF Disturb
    <3>2. QED
      BY <1>1, <3>1 DEF Op
  <2>2. CASE ~meets[x]
    <3>1. op'[x] = op[x]
      BY <2>2 DEF Disturb
    <3>2. QED
      BY <2>2, <3>1
  <2>3. QED
    BY <2>1, <2>2
<1>3. op'[w] = [new EXCEPT !.alone = \A y \in Writers \ {w} : ~meets[y]]
  BY DEF Disturb
<1>4. PICK b : b = (\A y \in Writers \ {w} : ~meets[y])
  OBVIOUS
<1>5. op'[w] = [new EXCEPT !.alone = b]
  BY <1>3, <1>4
<1>6. /\ op'[w].pc = new.pc /\ op'[w].full = new.full /\ op'[w].path = new.path
      /\ op'[w].ver = new.ver /\ op'[w].todo = new.todo /\ op'[w].alone = b
  BY <1>5 DEF Op
<1>7. QED
  BY <1>2, <1>4, <1>6

(* What the next step of an operation may be.                              *)
Ends(w) == op'[w] = Idle
GoesOn(w) ==
  /\ op'[w].full = op[w].full /\ op'[w].alone = op[w].alone /\ op'[w].path = op[w].path
  /\ op'[w].ver = op[w].ver /\ op'[w].todo = op[w].todo
  /\ op'[w].pc \in Clearing => op[w].pc \in Clearing
  /\ op'[w].pc \in Inserting => op[w].pc \in Inserting
  /\ op'[w].pc \in {"drop", "row"} => op[w].pc \in {"find", "drop"}
  /\ op'[w].pc = "next" => op[w].full
  /\ op'[w].pc # "find" /\ op'[w].pc # "upsert" /\ op'[w].pc # "idle" /\ op'[w].pc \in Steps
TakesNext(w) ==
  /\ op[w].pc = "next"
  /\ \E t \in op[w].todo :
       /\ op'[w].full = op[w].full /\ op'[w].alone = op[w].alone
       /\ op'[w].pc = "upsert" /\ op'[w].path = t[1] /\ op'[w].ver = t[2]
       /\ op'[w].todo = op[w].todo \ {t}

LEMMA Continued ==
  ASSUME Typed, Shapes, NEW w \in Writers, Continues(w)
  PROVE  /\ \A x \in Writers \ {w} : op'[x] = op[x]
         /\ op[w].pc # "idle"
         /\ Ends(w) \/ GoesOn(w) \/ TakesNext(w)
<1>0. op \in [Writers -> Op] /\ op[w] \in Op /\ ShapeOf(w)
  BY DEF Typed, TypeOK, Shapes
<1>1. \A x \in Writers \ {w} : op'[x] = op[x]
  BY <1>0 DEF Continues, ClearLabels, ClearSearch, ClearSkills, NextSkill, RefreshDone, Upsert, GetId,
              Unsearch, Search, Unlabel, Label, Find, Drop, DropRow, Fail, Crash, Goto
<1>2. op[w].pc # "idle"
  BY DEF Continues, ClearLabels, ClearSearch, ClearSkills, NextSkill, RefreshDone, Upsert, GetId,
         Unsearch, Search, Unlabel, Label, Find, Drop, DropRow, Fail, Crash
<1>3. ASSUME NEW pc \in Steps, NEW id \in Nat, op'[w] = [op[w] EXCEPT !.pc = pc, !.id = id],
             pc \in Clearing => op[w].pc \in Clearing,
             pc \in Inserting => op[w].pc \in Inserting,
             pc \in {"drop", "row"} => op[w].pc \in {"find", "drop"},
             pc = "next" => op[w].full,
             pc # "find", pc # "upsert", pc # "idle"
      PROVE  GoesOn(w)
  <2>1. /\ op'[w].full = op[w].full /\ op'[w].alone = op[w].alone /\ op'[w].path = op[w].path
        /\ op'[w].ver = op[w].ver /\ op'[w].todo = op[w].todo /\ op'[w].pc = pc
    BY <1>0, <1>3 DEF Op
  <2>2. QED
    BY <1>3, <2>1 DEF GoesOn
<1>4. ASSUME NEW pc \in Steps, op'[w] = [op[w] EXCEPT !.pc = pc],
             pc \in Clearing => op[w].pc \in Clearing,
             pc \in Inserting => op[w].pc \in Inserting,
             pc \in {"drop", "row"} => op[w].pc \in {"find", "drop"},
             pc = "next" => op[w].full,
             pc # "find", pc # "upsert", pc # "idle"
      PROVE  GoesOn(w)
  <2>1. op[w].id \in Nat /\ [op[w] EXCEPT !.pc = pc] = [op[w] EXCEPT !.pc = pc, !.id = op[w].id]
    BY <1>0 DEF Op
  <2>2. QED
    BY <1>3, <1>4, <2>1
<1>5. op[w].pc \in Clearing => op[w].full
  BY <1>0 DEF ShapeOf, Clearing, AtSkill, Inserting
<1>6. CASE ClearLabels(w) \/ ClearSearch(w) \/ ClearSkills(w)
  <2>1. PICK pc \in {"clear search", "clear skills", "next"} : op'[w] = [op[w] EXCEPT !.pc = pc]
    BY <1>0, <1>6 DEF ClearLabels, ClearSearch, ClearSkills, Goto
  <2>2. op[w].pc \in Clearing
    BY <1>6 DEF ClearLabels, ClearSearch, ClearSkills, Clearing
  <2>3. GoesOn(w)
    BY <1>4, <1>5, <2>1, <2>2 DEF Clearing, Inserting, Steps
  <2>4. QED
    BY <1>1, <1>2, <2>3
<1>7. CASE NextSkill(w)
  <2>1. PICK t \in op[w].todo : op'[w] = [op[w] EXCEPT !.pc = "upsert", !.path = t[1], !.ver = t[2],
                                                       !.todo = op[w].todo \ {t}]
    BY <1>0, <1>7 DEF NextSkill
  <2>2. /\ op'[w].full = op[w].full /\ op'[w].alone = op[w].alone
        /\ op'[w].pc = "upsert" /\ op'[w].path = t[1] /\ op'[w].ver = t[2]
        /\ op'[w].todo = op[w].todo \ {t}
    BY <1>0, <2>1 DEF Op
  <2>3. TakesNext(w)
    BY <1>7, <2>2 DEF NextSkill, TakesNext
  <2>4. QED
    BY <1>1, <1>2, <2>3
<1>8. CASE RefreshDone(w) \/ DropRow(w) \/ Crash(w)
  BY <1>0, <1>1, <1>2, <1>8 DEF RefreshDone, DropRow, Crash, Ends
<1>9. CASE Upsert(w) \/ Unsearch(w) \/ Search(w) \/ Unlabel(w) \/ Drop(w)
  <2>1. PICK pc \in {"id", "search", "unlabel", "label", "row"} :
          /\ op'[w] = [op[w] EXCEPT !.pc = pc]
          /\ pc = "row" => op[w].pc = "drop"
          /\ pc # "row" => op[w].pc \in Inserting
    BY <1>0, <1>9 DEF Upsert, Unsearch, Search, Unlabel, Drop, Goto, Inserting
  <2>2. GoesOn(w)
    BY <1>4, <2>1 DEF Clearing, Inserting, Steps
  <2>3. QED
    BY <1>1, <1>2, <2>2
<1>10. CASE GetId(w)
  <2>1. op[w].path \in Paths /\ skills[op[w].path].id \in Nat
    BY <1>10 DEF GetId, Typed, OpsNamed, AtSkill, Inserting, TypeOK, Row
  <2>2. op'[w] = [op[w] EXCEPT !.pc = "unsearch", !.id = skills[op[w].path].id]
    BY <1>0, <1>10 DEF GetId, Op
  <2>3. op[w].pc \in Inserting
    BY <1>10 DEF GetId, Inserting
  <2>4. PICK pc \in Steps, id \in Nat : pc = "unsearch" /\ id = skills[op[w].path].id
    BY <2>1 DEF Steps, Inserting
  <2>5. op'[w] = [op[w] EXCEPT !.pc = pc, !.id = id]
    BY <2>2, <2>4
  <2>6. GoesOn(w)
    BY <1>3, <2>3, <2>4, <2>5 DEF Clearing, Inserting
  <2>7. QED
    BY <1>1, <1>2, <2>6
<1>11. CASE Find(w)
  <2>1. op[w].path \in Paths /\ skills[op[w].path].id \in Nat /\ op[w].pc = "find"
    BY <1>11 DEF Find, Typed, OpsNamed, AtSkill, TypeOK, Row
  <2>2. \/ op'[w] = Idle
        \/ op'[w] = [op[w] EXCEPT !.pc = "drop", !.id = skills[op[w].path].id]
    BY <1>0, <1>11 DEF Find, Op
  <2>3. CASE op'[w] = [op[w] EXCEPT !.pc = "drop", !.id = skills[op[w].path].id]
    <3>1. PICK pc \in Steps, id \in Nat : pc = "drop" /\ id = skills[op[w].path].id
      BY <2>1 DEF Steps, Inserting
    <3>2. op'[w] = [op[w] EXCEPT !.pc = pc, !.id = id]
      BY <2>3, <3>1
    <3>3. GoesOn(w)
      BY <1>3, <2>1, <3>1, <3>2 DEF Clearing, Inserting
    <3>4. QED
      BY <1>1, <1>2, <3>3
  <2>4. QED
    BY <1>1, <1>2, <2>2, <2>3 DEF Ends
<1>12. CASE Label(w) \/ Fail(w)
  <2>1. \/ op'[w] = Idle
        \/ op'[w] = [op[w] EXCEPT !.pc = "next"] /\ op[w].full
    BY <1>0, <1>12 DEF Label, Fail
  <2>2. CASE op'[w] = [op[w] EXCEPT !.pc = "next"] /\ op[w].full
    <3>1. GoesOn(w)
      BY <1>4, <2>2 DEF Clearing, Inserting, Steps
    <3>2. QED
      BY <1>1, <1>2, <3>1
  <2>3. QED
    BY <1>1, <1>2, <2>1, <2>2 DEF Ends
<1>13. QED
  BY <1>6, <1>7, <1>8, <1>9, <1>10, <1>11, <1>12 DEF Continues

LEMMA ShapeNext == Typed /\ Shapes /\ [Next]_vars => Shapes'
<1> SUFFICES ASSUME Typed, Shapes, [Next]_vars PROVE Shapes'
  OBVIOUS
<1>0. \A w \in Writers : op[w] \in Op /\ ShapeOf(w)
  BY DEF Typed, TypeOK, Shapes
<1>1. ASSUME NEW x \in Writers, op'[x].pc = op[x].pc, op'[x].full = op[x].full,
             op'[x].path = op[x].path, op'[x].todo = op[x].todo
      PROVE  ShapeOf(x)'
  BY <1>0, <1>1 DEF ShapeOf
<1>2. CASE UNCHANGED op
  BY <1>1, <1>2 DEF Shapes
<1>3. ASSUME NEW w \in Writers, NEW p \in Paths, NEW v \in Content, StartSync(w, p, v) PROVE Shapes'
  <2>1. PICK new \in Op : /\ new.pc \in {"find", "upsert"} /\ new.full = FALSE /\ new.todo = {}
                          /\ Disturb(w, new, [x \in Writers |-> Touches(op[x], p)])
    <3>1. PICK new : new = [Idle EXCEPT !.pc = IF v = None THEN "find" ELSE "upsert", !.path = p, !.ver = v]
      OBVIOUS
    <3>2. new \in Op /\ new.pc \in {"find", "upsert"} /\ new.full = FALSE /\ new.todo = {}
      BY <3>1 DEF Op, Idle, Steps, Inserting
    <3>3. QED
      BY <1>3, <3>1, <3>2 DEF StartSync
  <2>2. op'[w].pc \in {"find", "upsert"} /\ op'[w].full = FALSE /\ op'[w].todo = {}
    BY <2>1, Started
  <2>3. ShapeOf(w)'
    BY <2>2 DEF ShapeOf, AtSkill, Inserting
  <2>4. \A x \in Writers \ {w} : ShapeOf(x)'
    BY <1>1, <2>1, Started
  <2>5. QED
    BY <2>3, <2>4 DEF Shapes
<1>4. ASSUME NEW w \in Writers, NEW files \in [Paths -> Content], StartRefresh(w, files) PROVE Shapes'
  <2>1. PICK todo : todo = {<<p, files[p]>> : p \in {x \in Paths : files[x] # None}}
    OBVIOUS
  <2>2. todo \in SUBSET (Paths \X Vers) /\ \A t, u \in todo : t[1] = u[1] => t = u
    BY <2>1 DEF Content
  <2>3. PICK new \in Op : /\ new.pc = "clear labels" /\ new.todo = todo /\ new.full = TRUE
                          /\ Disturb(w, new, [x \in Writers |-> op[x].pc # "idle"])
    <3>1. PICK new : new = [Idle EXCEPT !.pc = "clear labels", !.full = TRUE, !.todo = todo]
      OBVIOUS
    <3>2. new \in Op /\ new.pc = "clear labels" /\ new.todo = todo
      BY <2>2, <3>1 DEF Op, Idle, Steps, Content
    <3>3. new.full = TRUE
      BY <3>1 DEF Idle
    <3>4. QED
      BY <1>4, <2>1, <3>1, <3>2, <3>3 DEF StartRefresh
  <2>4. PICK meets : Disturb(w, new, meets)
    BY <2>3
  <2>5. op'[w].pc = "clear labels" /\ op'[w].todo = todo
    BY <2>3, <2>4, Started
  <2>6. op'[w].full = TRUE
    BY <2>3, <2>4, Started
  <2>7. ShapeOf(w)'
    BY <2>2, <2>5, <2>6 DEF ShapeOf, Clearing, Inserting
  <2>8. ASSUME NEW x \in Writers \ {w} PROVE ShapeOf(x)'
    <3>1. op'[x].pc = op[x].pc /\ op'[x].path = op[x].path /\ op'[x].todo = op[x].todo
      BY <2>4, Started
    <3>2. op'[x].full = op[x].full
      BY <2>4, Started
    <3>3. QED
      BY <1>1, <3>1, <3>2
  <2>9. QED
    BY <2>7, <2>8 DEF Shapes
<1>5. ASSUME NEW w \in Writers, Continues(w) PROVE Shapes'
  <2>1. /\ \A x \in Writers \ {w} : op'[x] = op[x]
        /\ op[w].pc # "idle"
        /\ Ends(w) \/ GoesOn(w) \/ TakesNext(w)
    BY <1>5, Continued
  <2> SUFFICES ShapeOf(w)'
    BY <1>1, <2>1 DEF Shapes
  <2>2. CASE Ends(w)
    <3>1. ~Idle.full /\ Idle.todo = {} /\ Idle.pc = "idle"
      BY DEF Idle
    <3>2. QED
      BY <2>2, <3>1 DEF Ends, ShapeOf
  <2>3. CASE GoesOn(w)
    <3>1. op[w].full => op'[w].pc \in Clearing \cup Inserting \cup {"next", "idle"}
      BY <1>0, <2>3 DEF GoesOn, ShapeOf, Steps, Inserting, Clearing
    <3>2. ~op[w].full => op'[w].pc \in AtSkill \cup {"idle"}
      BY <1>0, <2>3 DEF GoesOn, ShapeOf, Steps, Inserting, Clearing, AtSkill
    <3>3. QED
      BY <1>0, <2>3, <3>1, <3>2 DEF GoesOn, ShapeOf
  <2>4. CASE TakesNext(w)
    <3>1. PICK t \in op[w].todo :
            /\ op'[w].full = op[w].full /\ op'[w].pc = "upsert" /\ op'[w].path = t[1]
            /\ op'[w].todo = op[w].todo \ {t}
      BY <2>4 DEF TakesNext
    <3>2. ShapeOf(w)
      BY <1>0
    <3>3. QED
      BY <3>1, <3>2 DEF ShapeOf, Inserting, AtSkill
  <2>5. QED
    BY <2>1, <2>2, <2>3, <2>4
<1>6. QED
  <2>1. Next => UNCHANGED op \/ \E w \in Writers : Starts(w) \/ Continues(w)
    BY DEF Next, Write, Starts, Continues, QuerySearch, PopulateMeta, Answer
  <2>2. QED
    BY <1>2, <1>3, <1>4, <1>5, <2>1 DEF vars, Starts

LEMMA ApartNext == Typed /\ Shapes /\ AllApart /\ [Next]_vars => AllApart'
<1> SUFFICES ASSUME Typed, Shapes, AllApart, [Next]_vars PROVE AllApart'
  OBVIOUS
<1>1. CASE UNCHANGED op
  BY <1>1 DEF AllApart, Apart
<1>2. ASSUME NEW w \in Writers, NEW new \in Op, NEW meets, Disturb(w, new, meets),
             \A x \in Writers \ {w} : ~meets[x] =>
               op[x].pc = "idle" \/ (~op[x].full /\ ~new.full /\ op[x].path # new.path)
      PROVE  AllApart'
  <2>1. SUFFICES ASSUME NEW x \in Writers, NEW y \in Writers, x # y, op'[x].alone,
                        op'[x].pc # "idle", op'[y].pc # "idle"
                 PROVE  ~op'[x].full /\ ~op'[y].full /\ op'[x].path # op'[y].path
    BY DEF AllApart, Apart
  <2>2. /\ \A z \in Writers \ {w} :
             /\ op'[z].pc = op[z].pc /\ op'[z].full = op[z].full /\ op'[z].path = op[z].path
             /\ op'[z].alone => op[z].alone /\ ~meets[z]
        /\ op'[w].full = new.full /\ op'[w].path = new.path
        /\ op'[w].alone => \A z \in Writers \ {w} : ~meets[z]
    BY <1>2, Started
  <2>3. CASE x = w
    BY <1>2, <2>1, <2>2, <2>3
  <2>4. CASE y = w
    BY <1>2, <2>1, <2>2, <2>4
  <2>5. CASE x # w /\ y # w
    <3>1. Apart(x, y)
      BY <2>1 DEF AllApart
    <3>2. QED
      BY <2>1, <2>2, <2>5, <3>1 DEF Apart
  <2>6. QED
    BY <2>3, <2>4, <2>5
<1>3. ASSUME NEW w \in Writers, NEW p \in Paths, NEW v \in Content, StartSync(w, p, v) PROVE AllApart'
  <2>1. PICK new : new = [Idle EXCEPT !.pc = IF v = None THEN "find" ELSE "upsert", !.path = p, !.ver = v]
    OBVIOUS
  <2>2. new \in Op /\ new.path = p
    BY <2>1 DEF Op, Idle, Steps, Inserting
  <2>3. ~new.full
    BY <2>1 DEF Idle
  <2>4. PICK meets : meets = [x \in Writers |-> Touches(op[x], p)]
    OBVIOUS
  <2>5. Disturb(w, new, meets)
    BY <1>3, <2>1, <2>4 DEF StartSync
  <2>6. \A x \in Writers \ {w} : ~meets[x] =>
          op[x].pc = "idle" \/ (~op[x].full /\ ~new.full /\ op[x].path # new.path)
    BY <2>2, <2>3, <2>4 DEF Touches
  <2>7. QED
    BY <1>2, <2>2, <2>5, <2>6
<1>4. ASSUME NEW w \in Writers, NEW files \in [Paths -> Content], StartRefresh(w, files) PROVE AllApart'
  <2>1. PICK new \in Op : Disturb(w, new, [x \in Writers |-> op[x].pc # "idle"])
    <3>1. PICK todo : todo = {<<p, files[p]>> : p \in {x \in Paths : files[x] # None}}
      OBVIOUS
    <3>2. todo \in SUBSET (Paths \X Vers)
      BY <3>1 DEF Content
    <3>3. PICK new : new = [Idle EXCEPT !.pc = "clear labels", !.full = TRUE, !.todo = todo]
      OBVIOUS
    <3>4. new \in Op
      BY <3>2, <3>3 DEF Op, Idle, Steps, Content
    <3>5. QED
      BY <1>4, <3>1, <3>3, <3>4 DEF StartRefresh
  <2>3. PICK meets : meets = [x \in Writers |-> op[x].pc # "idle"]
    OBVIOUS
  <2>4. Disturb(w, new, meets)
    BY <2>1, <2>3
  <2>5. \A x \in Writers \ {w} : ~meets[x] => op[x].pc = "idle"
    BY <2>3
  <2>6. QED
    BY <1>2, <2>4, <2>5
<1>5. ASSUME NEW w \in Writers, Continues(w) PROVE AllApart'
  <2>1. /\ \A x \in Writers \ {w} : op'[x] = op[x]
        /\ op[w].pc # "idle"
        /\ Ends(w) \/ GoesOn(w) \/ TakesNext(w)
    BY <1>5, Continued
  <2>2. ShapeOf(w)
    BY DEF Shapes
  <2>3. \/ op'[w].pc = "idle"
        \/ /\ op'[w].full = op[w].full /\ op'[w].alone = op[w].alone
           /\ op'[w].path = op[w].path \/ op[w].full
    <3>1. CASE Ends(w)
      BY <3>1 DEF Ends, Idle
    <3>2. CASE GoesOn(w)
      BY <3>2 DEF GoesOn
    <3>3. CASE TakesNext(w)
      <4>1. op[w].full
        BY <2>2, <3>3 DEF TakesNext, ShapeOf, AtSkill, Inserting
      <4>2. op'[w].full = op[w].full /\ op'[w].alone = op[w].alone
        BY <3>3 DEF TakesNext
      <4>3. QED
        BY <4>1, <4>2
    <3>4. QED
      BY <2>1, <3>1, <3>2, <3>3
  <2>4. ASSUME NEW x \in Writers, NEW y \in Writers, x # y PROVE Apart(x, y)'
    <3>1. Apart(x, y)
      BY <2>4 DEF AllApart
    <3>2. CASE x = w
      BY <2>1, <2>3, <2>4, <3>1, <3>2 DEF Apart
    <3>3. CASE y = w
      BY <2>1, <2>3, <2>4, <3>1, <3>3 DEF Apart
    <3>4. CASE x # w /\ y # w
      BY <2>1, <3>1, <3>4 DEF Apart
    <3>5. QED
      BY <3>2, <3>3, <3>4
  <2>5. QED
    BY <2>4 DEF AllApart
<1>6. QED
  <2>1. Next => UNCHANGED op \/ \E w \in Writers : Starts(w) \/ Continues(w)
    BY DEF Next, Write, Starts, Continues, QuerySearch, PopulateMeta, Answer
  <2>2. QED
    BY <1>1, <1>3, <1>4, <1>5, <2>1 DEF vars, Starts

---------------------------------------------------------------------------
(* A step of a writer that has nothing to do with a skill now leaves what  *)
(* is stored for it.                                                       *)
Elsewhere(x, p) == op[x].pc \notin Clearing /\ (op[x].pc \in AtSkill => op[x].path # p)

LEMMA OtherId ==
  ASSUME Typed, OneMeaning, NEW x \in Writers, NEW p \in Paths, skills[p] # NoRow,
         op[x].pc \in Holding, op[x].path # p
  PROVE  op[x].id # skills[p].id
<1>1. <<op[x].id, op[x].path>> \in Claims /\ <<skills[p].id, p>> \in Claims
  BY ClaimParts
<1>2. <<op[x].id, op[x].path>>[1] = op[x].id /\ <<op[x].id, op[x].path>>[2] = op[x].path
      /\ <<skills[p].id, p>>[1] = skills[p].id /\ <<skills[p].id, p>>[2] = p
  OBVIOUS
<1>3. QED
  BY <1>1, <1>2 DEF OneMeaning

LEMMA KeepsOthers ==
  ASSUME Typed, OneMeaning, NEW x \in Writers, NEW p \in Paths, skills[p] # NoRow,
         Elsewhere(x, p), Write(x)
  PROVE  /\ skills'[p] = skills[p]
         /\ WithId(search', skills[p].id) = WithId(search, skills[p].id)
         /\ WithId(labels', skills[p].id) = WithId(labels, skills[p].id)
<1>0. skills \in [Paths -> Row]
  BY DEF Typed, TypeOK
<1>1. CASE UNCHANGED tables
  BY <1>1 DEF tables
<1>2. CASE Upsert(x)
  <2>1. op[x].path # p /\ UNCHANGED <<search, labels>>
    BY <1>2 DEF Upsert, Elsewhere, AtSkill, Inserting
  <2>2. skills'[p] = skills[p]
    BY <1>0, <1>2, <2>1 DEF Upsert
  <2>3. QED
    BY <2>1, <2>2
<1>3. CASE Unsearch(x) \/ Search(x) \/ Unlabel(x) \/ Label(x) \/ Drop(x) \/ DropRow(x)
  <2>1. op[x].pc \in Holding /\ op[x].pc \in AtSkill
    BY <1>3 DEF Unsearch, Search, Unlabel, Label, Drop, DropRow, Holding, AtSkill, Inserting
  <2>2. op[x].id # skills[p].id
    BY <2>1, OtherId DEF Elsewhere
  <2>3. NewEntry(x).id = op[x].id
    BY DEF NewEntry
  <2>4. skills'[p] = skills[p]
    BY <1>0, <1>3, <2>2 DEF Unsearch, Search, Unlabel, Label, Drop, DropRow
  <2>5. search' \in {search, search \ WithId(search, op[x].id), search \cup {NewEntry(x)}}
    BY <1>3 DEF Unsearch, Search, Unlabel, Label, Drop, DropRow
  <2>6. labels' \in {labels, labels \ WithId(labels, op[x].id), labels \cup {NewEntry(x)}}
    BY <1>3 DEF Unsearch, Search, Unlabel, Label, Drop, DropRow
  <2>7. WithId(search', skills[p].id) = WithId(search, skills[p].id)
    BY <2>2, <2>3, <2>5 DEF WithId
  <2>8. WithId(labels', skills[p].id) = WithId(labels, skills[p].id)
    BY <2>2, <2>3, <2>6 DEF WithId
  <2>9. QED
    BY <2>4, <2>7, <2>8
<1>4. CASE ClearLabels(x) \/ ClearSearch(x) \/ ClearSkills(x)
  BY <1>4 DEF ClearLabels, ClearSearch, ClearSkills, Elsewhere, Clearing
<1>5. QED
  BY <1>1, <1>2, <1>3, <1>4 DEF Write, StartSync, StartRefresh, NextSkill, RefreshDone, GetId, Find,
     Fail, Crash

(* Whoever is alone has the others elsewhere.                              *)
LEMMA OthersElsewhere ==
  ASSUME Typed, Shapes, AllApart, NEW w \in Writers, op[w].alone, op[w].pc # "idle",
         NEW x \in Writers \ {w}
  PROVE  /\ Elsewhere(x, op[w].path)
         /\ Past(x, op[w].path)
<1>1. Apart(w, x) /\ ShapeOf(x)
  BY DEF AllApart, Shapes
<1>2. CASE op[x].pc = "idle"
  BY <1>2 DEF Elsewhere, Past, Clearing, AtSkill, Inserting
<1>3. CASE op[x].pc # "idle"
  <2>1. ~op[x].full /\ op[x].path # op[w].path
    BY <1>1, <1>3 DEF Apart
  <2>2. op[x].pc \in AtSkill
    BY <1>1, <1>3, <2>1 DEF ShapeOf
  <2>3. op[x].pc \notin Clearing
    BY <2>2 DEF Clearing, AtSkill, Inserting
  <2>4. QED
    BY <2>1, <2>3 DEF Elsewhere, Past
<1>4. QED
  BY <1>2, <1>3

(* A step of another writer undoes nothing.                                *)
LEMMA DoneKept ==
  ASSUME Typed, OneMeaning, Shapes, AllApart, NEW w \in Writers, DoneOf(w),
         NEW x \in Writers \ {w}, Write(x),
         op'[w].pc = op[w].pc, op'[w].path = op[w].path, op'[w].ver = op[w].ver,
         op'[w].id = op[w].id, op'[w].alone => op[w].alone
  PROVE  DoneOf(w)'
<1>1. CASE op[w].alone /\ op[w].pc \in Inserting \ {"upsert"}
  <2>1. op[w].path \in Paths /\ op[w].pc # "idle"
    BY <1>1 DEF Typed, OpsNamed, AtSkill, Inserting
  <2>2. skills[op[w].path] # NoRow
    BY <1>1 DEF DoneOf
  <2>3. /\ skills'[op[w].path] = skills[op[w].path]
        /\ WithId(search', skills[op[w].path].id) = WithId(search, skills[op[w].path].id)
        /\ WithId(labels', skills[op[w].path].id) = WithId(labels, skills[op[w].path].id)
    BY <1>1, <2>1, <2>2, OthersElsewhere, KeepsOthers
  <2>4. NewEntry(w)' = NewEntry(w)
    BY DEF NewEntry
  <2>5. /\ op[w].pc \in Inserting \ {"upsert", "id"} => op[w].id = skills[op[w].path].id
        /\ skills[op[w].path].ver = op[w].ver
    BY <1>1 DEF DoneOf
  <2>6. op[w].pc = "search" => WithId(search', op[w].id) = {}
    BY <1>1, <2>3, <2>5 DEF DoneOf, Inserting
  <2>7. op[w].pc \in {"unlabel", "label"} => WithId(search', op[w].id) = {NewEntry(w)}
    BY <1>1, <2>3, <2>5 DEF DoneOf, Inserting
  <2>8. op[w].pc = "label" => WithId(labels', op[w].id) = {}
    BY <1>1, <2>3, <2>5 DEF DoneOf, Inserting
  <2>9. skills'[op'[w].path] # NoRow /\ skills'[op'[w].path].ver = op'[w].ver
    BY <2>2, <2>3, <2>5
  <2>10. op'[w].pc \in Inserting \ {"upsert", "id"} => op'[w].id = skills'[op'[w].path].id
    BY <2>3, <2>5
  <2>11. QED
    BY <2>4, <2>6, <2>7, <2>8, <2>9, <2>10 DEF DoneOf
<1>2. CASE ~(op[w].alone /\ op[w].pc \in Inserting \ {"upsert"})
  BY <1>2 DEF DoneOf, Inserting
<1>3. QED
  BY <1>1, <1>2

LEMMA DoneNext == Typed /\ OneMeaning /\ Shapes /\ AllApart /\ AllDone /\ [Next]_vars => AllDone'
<1> SUFFICES ASSUME Typed, OneMeaning, Shapes, AllApart, AllDone, [Next]_vars PROVE AllDone'
  OBVIOUS
<1>0. op \in [Writers -> Op] /\ skills \in [Paths -> Row] /\ lastId \in Nat
      /\ \A w \in Writers : op[w] \in Op /\ DoneOf(w)
  BY DEF Typed, TypeOK, AllDone
<1>1. CASE UNCHANGED <<skills, search, labels, op>>
  BY <1>1 DEF AllDone, DoneOf, NewEntry
<1>2. ASSUME NEW w \in Writers, op'[w].pc \notin Inserting \ {"upsert"} PROVE DoneOf(w)'
  BY <1>2 DEF DoneOf, Inserting
<1>3. ASSUME NEW w \in Writers, Starts(w) PROVE AllDone'
  <2>1. PICK new \in Op : new.pc \in {"find", "upsert", "clear labels"} /\ \E meets : Disturb(w, new, meets)
    <3>1. CASE \E p \in Paths, v \in Content : StartSync(w, p, v)
      <4>1. PICK p \in Paths, v \in Content : StartSync(w, p, v)
        BY <3>1
      <4>2. PICK new : new = [Idle EXCEPT !.pc = IF v = None THEN "find" ELSE "upsert", !.path = p, !.ver = v]
        OBVIOUS
      <4>3. new \in Op /\ new.pc \in {"find", "upsert"}
        BY <4>2 DEF Op, Idle, Steps, Inserting
      <4>4. PICK meets : meets = [x \in Writers |-> Touches(op[x], p)]
        OBVIOUS
      <4>5. Disturb(w, new, meets)
        BY <4>1, <4>2, <4>4 DEF StartSync
      <4>6. QED
        BY <4>3, <4>5
    <3>2. CASE \E files \in [Paths -> Content] : StartRefresh(w, files)
      <4>1. PICK files \in [Paths -> Content] : StartRefresh(w, files)
        BY <3>2
      <4>2. PICK todo : todo = {<<p, files[p]>> : p \in {x \in Paths : files[x] # None}}
        OBVIOUS
      <4>3. todo \in SUBSET (Paths \X Vers)
        BY <4>2 DEF Content
      <4>4. PICK new : new = [Idle EXCEPT !.pc = "clear labels", !.full = TRUE, !.todo = todo]
        OBVIOUS
      <4>5. new \in Op /\ new.pc = "clear labels"
        BY <4>3, <4>4 DEF Op, Idle, Steps, Content
      <4>6. PICK meets : meets = [x \in Writers |-> op[x].pc # "idle"]
        OBVIOUS
      <4>7. Disturb(w, new, meets)
        BY <4>1, <4>2, <4>4, <4>6 DEF StartRefresh
      <4>8. QED
        BY <4>5, <4>7
    <3>3. QED
      BY <1>3, <3>1, <3>2 DEF Starts
  <2>2. PICK meets : Disturb(w, new, meets)
    BY <2>1
  <2>3. op'[w].pc = new.pc
    BY <2>2, Started
  <2>4. DoneOf(w)'
    BY <1>2, <2>1, <2>3 DEF Inserting
  <2>5. ASSUME NEW x \in Writers \ {w} PROVE DoneOf(x)'
    <3>1. /\ op'[x].pc = op[x].pc /\ op'[x].path = op[x].path /\ op'[x].ver = op[x].ver
          /\ op'[x].id = op[x].id
      BY <2>2, Started
    <3>2. op'[x].alone => op[x].alone
      BY <2>2, Started
    <3>3. Write(w)
      BY <1>3 DEF Write, Starts
    <3>4. QED
      BY <1>0, <3>1, <3>2, <3>3, DoneKept
  <2>6. QED
    BY <2>4, <2>5 DEF AllDone
<1>4. ASSUME NEW w \in Writers, Continues(w) PROVE AllDone'
  <2>1. \A x \in Writers \ {w} : op'[x] = op[x]
    BY <1>4, Continued
  <2>2. ASSUME NEW x \in Writers \ {w} PROVE DoneOf(x)'
    <3>1. Write(w)
      BY <1>4 DEF Write, Continues
    <3>2. QED
      BY <1>0, <2>1, <3>1, DoneKept
  <2> SUFFICES DoneOf(w)'
    BY <2>2 DEF AllDone
  <2>3. ASSUME op[w].pc \in Inserting PROVE op[w].path \in Paths
    BY <2>3 DEF Typed, OpsNamed, AtSkill
  <2>4. CASE Upsert(w)
    <3>1. /\ op'[w].pc = "id" /\ op'[w].path = op[w].path /\ op'[w].ver = op[w].ver
          /\ op[w].path \in Paths
      BY <1>0, <2>3, <2>4 DEF Upsert, Goto, Op, Inserting
    <3>2. PICK id : id = IF skills[op[w].path] = NoRow THEN NextId ELSE skills[op[w].path].id
      OBVIOUS
    <3>3. skills'[op[w].path] = [id |-> id, ver |-> op[w].ver]
      BY <1>0, <2>4, <3>1, <3>2 DEF Upsert
    <3>4. id # 0
      <4>1. CASE skills[op[w].path] = NoRow
        BY <1>0, <3>2, <4>1 DEF NextId
      <4>2. CASE skills[op[w].path] # NoRow
        <5>1. <<skills[op[w].path].id, op[w].path>> \in Claims
          BY <3>1, <4>2, ClaimParts
        <5>2. skills[op[w].path].id \in 1..lastId
          BY <5>1 DEF OneMeaning
        <5>3. QED
          BY <1>0, <3>2, <4>2, <5>2
      <4>3. QED
        BY <4>1, <4>2
    <3>5. skills'[op'[w].path] # NoRow /\ skills'[op'[w].path].ver = op'[w].ver
      BY <3>1, <3>3, <3>4 DEF NoRow
    <3>6. QED
      BY <3>1, <3>5 DEF DoneOf, Inserting
  <2>5. CASE GetId(w)
    <3>1. /\ op'[w].pc = "unsearch" /\ op'[w].path = op[w].path /\ op'[w].ver = op[w].ver
          /\ op'[w].alone = op[w].alone /\ op'[w].id = skills[op[w].path].id /\ skills' = skills
          /\ op[w].pc = "id"
      BY <1>0, <2>5 DEF GetId, Op, tables
    <3>2. QED
      BY <1>0, <3>1 DEF DoneOf, Inserting
  <2>6. CASE Unsearch(w) \/ Search(w) \/ Unlabel(w)
    <3>1. /\ op'[w].path = op[w].path /\ op'[w].ver = op[w].ver
          /\ op'[w].id = op[w].id /\ skills' = skills
      BY <1>0, <2>6 DEF Unsearch, Search, Unlabel, Goto, Op
    <3>2. op'[w].alone = op[w].alone
      BY <1>0, <2>6 DEF Unsearch, Search, Unlabel, Goto, Op
    <3>3. NewEntry(w)' = NewEntry(w)
      BY <3>1 DEF NewEntry
    <3>4. CASE Unsearch(w)
      <4>1. op[w].pc = "unsearch" /\ op'[w].pc = "search" /\ WithId(search', op[w].id) = {}
        BY <1>0, <3>4 DEF Unsearch, Goto, Op, WithId
      <4>2. QED
        BY <1>0, <3>1, <3>2, <4>1 DEF DoneOf, Inserting
    <3>5. CASE Search(w)
      <4>1. op[w].pc = "search" /\ op'[w].pc = "unlabel" /\ search' = search \cup {NewEntry(w)}
        BY <1>0, <3>5 DEF Search, Goto, Op
      <4>2. NewEntry(w).id = op[w].id
        BY DEF NewEntry
      <4>3. op[w].alone => WithId(search', op[w].id) = {NewEntry(w)}
        BY <1>0, <4>1, <4>2 DEF DoneOf, WithId
      <4>4. QED
        BY <1>0, <3>1, <3>2, <3>3, <4>1, <4>3 DEF DoneOf, Inserting
    <3>6. CASE Unlabel(w)
      <4>1. /\ op[w].pc = "unlabel" /\ op'[w].pc = "label" /\ WithId(labels', op[w].id) = {}
            /\ search' = search
        BY <1>0, <3>6 DEF Unlabel, Goto, Op, WithId
      <4>2. QED
        BY <1>0, <3>1, <3>2, <3>3, <4>1 DEF DoneOf, Inserting
    <3>7. QED
      BY <2>6, <3>4, <3>5, <3>6
  <2>7. CASE \/ ClearLabels(w) \/ ClearSearch(w) \/ ClearSkills(w) \/ NextSkill(w) \/ RefreshDone(w)
             \/ Label(w) \/ Find(w) \/ Drop(w) \/ DropRow(w) \/ Fail(w) \/ Crash(w)
    <3>1. op'[w].pc \in Clearing \cup {"next", "upsert", "idle", "drop", "row"}
      <4>1. CASE ClearLabels(w) \/ ClearSearch(w) \/ ClearSkills(w) \/ Drop(w)
        BY <1>0, <4>1 DEF ClearLabels, ClearSearch, ClearSkills, Drop, Goto, Op, Clearing
      <4>2. CASE NextSkill(w)
        BY <1>0, <4>2 DEF NextSkill, Op
      <4>3. CASE Label(w) \/ Fail(w) \/ Find(w)
        <5>1. Idle.pc = "idle"
          BY DEF Idle
        <5>2. \/ op'[w] = Idle \/ op'[w] = [op[w] EXCEPT !.pc = "next"]
              \/ op'[w] = [op[w] EXCEPT !.id = skills[op[w].path].id, !.pc = "drop"]
          BY <1>0, <4>3 DEF Label, Fail, Find
        <5>3. QED
          BY <1>0, <5>1, <5>2 DEF Op
      <4>4. CASE RefreshDone(w) \/ DropRow(w) \/ Crash(w)
        BY <1>0, <4>4 DEF RefreshDone, DropRow, Crash, Idle
      <4>5. QED
        BY <2>7, <4>1, <4>2, <4>3, <4>4
    <3>2. QED
      BY <1>2, <3>1 DEF Clearing, Inserting
  <2>8. QED
    BY <1>4, <2>4, <2>5, <2>6, <2>7 DEF Continues
<1>5. QED
  <2>1. Next => UNCHANGED <<skills, search, labels, op>> \/ \E w \in Writers : Starts(w) \/ Continues(w)
    BY DEF Next, Write, Starts, Continues, QuerySearch, PopulateMeta, Answer, tables
  <2>2. QED
    BY <1>1, <1>3, <1>4, <2>1 DEF vars, tables

---------------------------------------------------------------------------
(* What is settled stays, until somebody writes the skill again.           *)

LEMMA SettledRow ==
  ASSUME NEW p \in Paths, settled[p] # None, InsertRepairs
  PROVE  skills[p] # NoRow
BY DEF InsertRepairs, NoRow

(* A step of a writer that is elsewhere.                                   *)
LEMMA SettledKept ==
  ASSUME Typed, OneMeaning, InsertRepairs, NEW p \in Paths, settled[p] # None,
         NEW x \in Writers, Write(x), Elsewhere(x, p), settled'[p] = settled[p]
  PROVE  skills'[p].ver = settled'[p] /\ Exactly(search, p)' /\ Exactly(labels, p)'
<1>1. /\ skills'[p] = skills[p]
      /\ WithId(search', skills[p].id) = WithId(search, skills[p].id)
      /\ WithId(labels', skills[p].id) = WithId(labels, skills[p].id)
  BY SettledRow, KeepsOthers
<1>2. skills[p].ver = settled[p] /\ Exactly(search, p) /\ Exactly(labels, p)
  BY DEF InsertRepairs
<1>3. Exactly(search, p)'
  <2>1. PICK e \in search : e.ver = settled[p] /\ WithId(search, skills[p].id) = {e}
    BY <1>2 DEF Exactly
  <2>2. WithId(search', skills'[p].id) = {e}
    BY <1>1, <2>1
  <2>3. e \in search'
    BY <2>2 DEF WithId
  <2>4. QED
    BY <2>1, <2>2, <2>3 DEF Exactly
<1>4. Exactly(labels, p)'
  <2>1. PICK e \in labels : e.ver = settled[p] /\ WithId(labels, skills[p].id) = {e}
    BY <1>2 DEF Exactly
  <2>2. WithId(labels', skills'[p].id) = {e}
    BY <1>1, <2>1
  <2>3. e \in labels'
    BY <2>2 DEF WithId
  <2>4. QED
    BY <2>1, <2>2, <2>3 DEF Exactly
<1>5. QED
  BY <1>1, <1>2, <1>3, <1>4

(* The last statement of an insert that was alone.                         *)
LEMMA Settles ==
  ASSUME Typed, Shapes, AllApart, AllDone, NEW w \in Writers, Label(w), op[w].alone,
         op[w].ver # None, NEW p \in Paths, p = op[w].path
  PROVE  /\ settled'[p] = op[w].ver /\ skills'[p].ver = settled'[p]
         /\ Exactly(search, p)' /\ Exactly(labels, p)'
         /\ \A x \in Writers : Past(x, p)'
<1>2. op[w].pc = "label" /\ op[w] \in Op
  BY DEF Label, Typed, TypeOK, OpsNamed, AtSkill, Inserting
<1>3. /\ op[w].id = skills[p].id /\ skills[p].ver = op[w].ver
      /\ WithId(search, op[w].id) = {NewEntry(w)} /\ WithId(labels, op[w].id) = {}
  BY <1>2 DEF AllDone, DoneOf, Inserting
<1>4. /\ skills' = skills /\ search' = search /\ labels' = labels \cup {NewEntry(w)}
      /\ settled'[p] = op[w].ver
  BY <1>2 DEF Label, Typed, TypeOK
<1>5. NewEntry(w).id = op[w].id /\ NewEntry(w).ver = op[w].ver
  BY DEF NewEntry
<1>6. Exactly(search, p)'
  <2>1. NewEntry(w) \in search
    BY <1>3 DEF WithId
  <2>2. PICK e : e = NewEntry(w)
    OBVIOUS
  <2>3. e \in search' /\ e.ver = settled'[p] /\ WithId(search', skills'[p].id) = {e}
    BY <1>3, <1>4, <1>5, <2>1, <2>2
  <2>4. QED
    BY <2>3 DEF Exactly
<1>7. Exactly(labels, p)'
  <2>1. PICK e : e = NewEntry(w)
    OBVIOUS
  <2>2. WithId(labels', op[w].id) = {e}
    BY <1>3, <1>4, <1>5, <2>1 DEF WithId
  <2>3. e \in labels' /\ e.ver = settled'[p] /\ WithId(labels', skills'[p].id) = {e}
    BY <1>3, <1>4, <1>5, <2>1, <2>2
  <2>4. QED
    BY <2>3 DEF Exactly
<1>8. ASSUME NEW x \in Writers PROVE Past(x, p)'
  <2>1. CASE x = w
    <3>1. ShapeOf(w)
      BY DEF Shapes
    <3>2. op'[w] = IF op[w].full THEN [op[w] EXCEPT !.pc = "next"] ELSE Idle
      BY DEF Label, Typed, TypeOK
    <3>3. CASE op[w].full
      <4>1. op'[w].pc = "next" /\ op'[w].todo = op[w].todo
        BY <1>2, <3>2, <3>3 DEF Op
      <4>2. \A t \in op[w].todo : t[1] # p
        BY <1>2, <3>1, <3>3 DEF ShapeOf, Inserting
      <4>3. QED
        BY <2>1, <4>1, <4>2 DEF Past, Clearing, AtSkill, Inserting
    <3>4. CASE ~op[w].full
      <4>1. op'[w].pc = "idle"
        BY <3>2, <3>4 DEF Idle
      <4>2. QED
        BY <2>1, <4>1 DEF Past
    <3>5. QED
      BY <3>3, <3>4
  <2>2. CASE x # w
    <3>1. Past(x, p)
      BY <1>2, <2>2, OthersElsewhere
    <3>2. op'[x] = op[x]
      BY <2>2 DEF Label, Typed, TypeOK
    <3>3. QED
      BY <3>1, <3>2 DEF Past
  <2>3. QED
    BY <2>1, <2>2
<1>9. settled'[p] = op[w].ver /\ skills'[p].ver = settled'[p]
  BY <1>3, <1>4
<1>10. QED
  BY <1>6, <1>7, <1>8, <1>9

Undisturbed == Shapes /\ AllApart /\ AllDone /\ AllPast /\ InsertRepairs

LEMMA PastKept ==
  ASSUME Typed, Shapes, NEW w \in Writers, Continues(w), NEW p, NEW x \in Writers, Past(x, p)
  PROVE  Past(x, p)'
<1>1. /\ \A y \in Writers \ {w} : op'[y] = op[y]
      /\ op[w].pc # "idle"
      /\ Ends(w) \/ GoesOn(w) \/ TakesNext(w)
  BY Continued
<1>2. CASE x # w
  BY <1>1, <1>2 DEF Past
<1>3. CASE x = w
  <2>1. /\ op[w].pc \notin Clearing
        /\ op[w].pc \in AtSkill => op[w].path # p
        /\ op[w].full => \A t \in op[w].todo : t[1] # p
    BY <1>1, <1>3 DEF Past
  <2>2. CASE Ends(w)
    <3>1. op'[w].pc = "idle"
      BY <2>2 DEF Ends, Idle
    <3>2. QED
      BY <1>3, <3>1 DEF Past
  <2>3. CASE GoesOn(w)
    <3>1. op'[w].pc \notin Clearing
      BY <2>1, <2>3 DEF GoesOn
    <3>2. op'[w].pc \in AtSkill => op[w].pc \in AtSkill
      BY <2>3 DEF GoesOn, AtSkill
    <3>3. op'[w].path = op[w].path /\ op'[w].todo = op[w].todo
      BY <2>3 DEF GoesOn
    <3>4. op'[w].full = op[w].full
      BY <2>3 DEF GoesOn
    <3>5. QED
      BY <1>3, <2>1, <3>1, <3>2, <3>3, <3>4 DEF Past
  <2>4. CASE TakesNext(w)
    <3>1. ShapeOf(w) /\ op[w].pc = "next"
      BY <2>4 DEF Shapes, TakesNext
    <3>2. op[w].full
      BY <3>1 DEF ShapeOf, AtSkill, Inserting
    <3>3. PICK t \in op[w].todo : /\ op'[w].pc = "upsert" /\ op'[w].path = t[1]
                                  /\ op'[w].todo = op[w].todo \ {t}
      BY <2>4 DEF TakesNext
    <3>4. op'[w].path # p /\ \A u \in op'[w].todo : u[1] # p
      BY <2>1, <3>2, <3>3
    <3>5. QED
      BY <1>3, <3>3, <3>4 DEF Past, Clearing
  <2>5. QED
    BY <1>1, <2>2, <2>3, <2>4
<1>4. QED
  BY <1>2, <1>3

LEMMA SettledNext ==
  Typed /\ OneMeaning /\ Undisturbed /\ [Next]_vars => AllPast' /\ InsertRepairs'
<1> SUFFICES ASSUME Typed, OneMeaning, Undisturbed, [Next]_vars, NEW p \in Paths, settled'[p] # None
             PROVE  /\ skills'[p].ver = settled'[p] /\ Exactly(search, p)' /\ Exactly(labels, p)'
                    /\ \A x \in Writers : Past(x, p)'
  BY DEF AllPast, InsertRepairs
<1>0. /\ Shapes /\ AllApart /\ AllDone /\ AllPast /\ InsertRepairs
      /\ settled \in [Paths -> Content] /\ op \in [Writers -> Op]
  BY DEF Undisturbed, Typed, TypeOK
<1>1. CASE UNCHANGED <<skills, search, labels, op, settled>>
  BY <1>0, <1>1 DEF AllPast, InsertRepairs, Past, Exactly
<1>2. ASSUME settled'[p] = settled[p], NEW w \in Writers, Write(w), Elsewhere(w, p),
             \A x \in Writers : Past(x, p)'
      PROVE  /\ skills'[p].ver = settled'[p] /\ Exactly(search, p)' /\ Exactly(labels, p)'
             /\ \A x \in Writers : Past(x, p)'
  BY <1>0, <1>2, SettledKept
<1>3. ASSUME NEW w \in Writers, NEW q \in Paths, NEW v \in Content, StartSync(w, q, v)
      PROVE  /\ skills'[p].ver = settled'[p] /\ Exactly(search, p)' /\ Exactly(labels, p)'
             /\ \A x \in Writers : Past(x, p)'
  <2>1. p # q /\ settled'[p] = settled[p]
    BY <1>0, <1>3 DEF StartSync
  <2>2. \A x \in Writers : Past(x, p)
    BY <1>0, <2>1 DEF AllPast
  <2>3. PICK new : new = [Idle EXCEPT !.pc = IF v = None THEN "find" ELSE "upsert", !.path = q, !.ver = v]
    OBVIOUS
  <2>4. new \in Op /\ new.path = q /\ new.pc \in {"find", "upsert"} /\ new.todo = {}
    BY <2>3 DEF Op, Idle, Steps, Inserting
  <2>5. PICK meets : meets = [x \in Writers |-> Touches(op[x], q)]
    OBVIOUS
  <2>6. Disturb(w, new, meets)
    BY <1>3, <2>3, <2>5 DEF StartSync
  <2>7. Past(w, p)'
    <3>1. op'[w].pc = new.pc /\ op'[w].path = new.path /\ op'[w].todo = new.todo
      BY <2>4, <2>6, Started
    <3>2. QED
      BY <2>1, <2>4, <3>1 DEF Past, Clearing
  <2>8. ASSUME NEW x \in Writers \ {w} PROVE Past(x, p)'
    <3>1. op'[x].pc = op[x].pc /\ op'[x].path = op[x].path /\ op'[x].todo = op[x].todo
      BY <2>4, <2>6, Started
    <3>2. op'[x].full = op[x].full
      BY <2>4, <2>6, Started
    <3>3. QED
      BY <2>2, <3>1, <3>2 DEF Past
  <2>9. op[w].pc = "idle" /\ Write(w)
    BY <1>3 DEF StartSync, Write
  <2>10. Elsewhere(w, p)
    BY <2>9 DEF Elsewhere, Clearing, AtSkill, Inserting
  <2>11. QED
    BY <1>2, <2>1, <2>7, <2>8, <2>9, <2>10
<1>4. ASSUME NEW w \in Writers, NEW files \in [Paths -> Content], StartRefresh(w, files) PROVE FALSE
  BY <1>4 DEF StartRefresh
<1>5. ASSUME NEW w \in Writers, Continues(w)
      PROVE  /\ skills'[p].ver = settled'[p] /\ Exactly(search, p)' /\ Exactly(labels, p)'
             /\ \A x \in Writers : Past(x, p)'
  <2>1. Write(w) /\ op[w].pc # "idle"
    BY <1>0, <1>5, Continued DEF Write, Continues
  <2>2. CASE settled'[p] = settled[p]
    <3>1. \A x \in Writers : Past(x, p)
      BY <1>0, <2>2 DEF AllPast
    <3>2. Elsewhere(w, p)
      BY <2>1, <3>1 DEF Elsewhere, Past
    <3>3. \A x \in Writers : Past(x, p)'
      BY <1>0, <1>5, <3>1, PastKept
    <3>4. QED
      BY <1>2, <2>1, <2>2, <3>2, <3>3
  <2>3. CASE settled'[p] # settled[p]
    <3>1. Label(w)
      BY <1>5, <2>3 DEF Continues, ClearLabels, ClearSearch, ClearSkills, NextSkill, RefreshDone, Upsert,
         GetId, Unsearch, Search, Unlabel, Find, Drop, DropRow, Fail, Crash, ghosts
    <3>2. settled' = [settled EXCEPT ![op[w].path] = IF op[w].alone THEN op[w].ver ELSE None]
      BY <3>1 DEF Label
    <3>3. p = op[w].path
      BY <1>0, <2>3, <3>2
    <3>4. op[w].alone /\ op[w].ver # None
      BY <1>0, <3>2, <3>3
    <3>5. QED
      BY <1>0, <3>1, <3>3, <3>4, Settles
  <2>4. QED
    BY <2>2, <2>3
<1>6. QED
  <2>1. Next => \/ UNCHANGED <<skills, search, labels, op, settled>>
                \/ \E w \in Writers : Starts(w) \/ Continues(w)
    BY DEF Next, Write, Starts, Continues, QuerySearch, PopulateMeta, Answer, tables, ghosts
  <2>2. QED
    BY <1>1, <1>3, <1>4, <1>5, <2>1 DEF vars, tables, ghosts, Starts

(* Whatever was left half-done before, an insert that nobody disturbs      *)
(* leaves one row, one search entry and one set of labels of its content.  *)
THEOREM InsertsRepair == Spec => []InsertRepairs
<1>1. Init => Undisturbed
  <2>1. ASSUME Init PROVE Undisturbed
    <3>1. \A w \in Writers : op[w] = Idle
      BY <2>1 DEF Init
    <3>2. \A p \in Paths : settled[p] = None
      BY <2>1 DEF Init
    <3>3. Idle.pc = "idle" /\ Idle.todo = {} /\ ~Idle.full /\ ~Idle.alone
      BY DEF Idle
    <3>4. Shapes
      BY <3>1, <3>3 DEF Shapes, ShapeOf
    <3>5. AllApart /\ AllDone
      BY <3>1, <3>3 DEF AllApart, Apart, AllDone, DoneOf
    <3>6. AllPast /\ InsertRepairs
      BY <3>2 DEF AllPast, InsertRepairs
    <3>7. QED
      BY <3>4, <3>5, <3>6 DEF Undisturbed
  <2>2. QED
    BY <2>1
<1>2. Typed /\ OneMeaning /\ Undisturbed /\ [Next]_vars => (Typed /\ OneMeaning /\ Undisturbed)'
  BY TypedNext, MeaningNext, ShapeNext, ApartNext, DoneNext, SettledNext DEF Undisturbed
<1>3. Init => Typed /\ OneMeaning
  BY TypedInit, MeaningInit
<1>4. Undisturbed => InsertRepairs
  BY DEF Undisturbed
<1>5. QED
  BY <1>1, <1>2, <1>3, <1>4, PTL DEF Spec

-----------------------------------------------------------------------------
(* Discovery: sequences                                                     *)


(* A set of numbers has a least one: what the inductions below rest on.    *)
LEMMA LeastNumber ==
  ASSUME NEW N, N \subseteq Nat, N # {}
  PROVE  \E n \in N : \A m \in N : n <= m
<1> DEFINE R == OpToRel(<, Nat)
<1>1. IsWellFoundedOn(R, Nat)
  BY NatLessThanWellFounded, Zenon
<1>2. PICK n \in N : \A m \in N : <<m, n>> \notin R
  <2> HIDE DEF R
  <2>1. QED
    BY <1>1, WFMin
<1>3. \A m \in N : ~(m < n)
  BY <1>2 DEF OpToRel
<1>4. \A m \in N : m \in Nat /\ n \in Nat
  OBVIOUS
<1>5. QED
  BY <1>3, <1>4

(* f[n] is what of the first n elements is in the set. *)
Unfolds(f, all, set, T) ==
  /\ f \in [0..Len(all) -> Seq(T)]
  /\ f[0] = <<>>
  /\ \A n \in 1..Len(all) :
       f[n] = IF all[n] \in set THEN Append(f[n - 1], all[n]) ELSE f[n - 1]

LEMMA InOrderUnfolds ==
  ASSUME NEW T, NEW all \in Seq(T), NEW set
  PROVE  \E f : Unfolds(f, all, set, T) /\ InOrder(all, set) = f[Len(all)]
<1> DEFINE L == Len(all)
           Body(g) == [n \in 0..L |-> IF n = 0 THEN <<>>
                                     ELSE IF all[n] \in set THEN Append(g[n - 1], all[n]) ELSE g[n - 1]]
           u == CHOOSE g : g = Body(g)
<1>1. InOrder(all, set) = u[L]
  BY DEF InOrder
<1>2. L \in Nat /\ \A n \in 1..L : all[n] \in T
  OBVIOUS
<1> DEFINE Good(m, g) == /\ g \in [0..m -> Seq(T)] /\ g[0] = <<>>
                         /\ \A n \in 1..m :
                              g[n] = IF all[n] \in set THEN Append(g[n - 1], all[n]) ELSE g[n - 1]
<1>3. \A m \in 0..L : \E g : Good(m, g)
  <2> DEFINE N == {m \in 0..L : ~\E g : Good(m, g)}
  <2>1. ASSUME N # {} PROVE FALSE
    <3>1. PICK m \in N : \A k \in N : m <= k
      <4>1. N \subseteq Nat
        BY <1>2
      <4> HIDE DEF N
      <4>2. QED
        BY <2>1, <4>1, LeastNumber
    <3>2. m \in 0..L /\ ~\E g : Good(m, g)
      OBVIOUS
    <3>3. m # 0
      <4>1. Good(0, [n \in 0..0 |-> <<>>])
        OBVIOUS
      <4> HIDE DEF Good
      <4>2. QED
        BY <3>2, <4>1
    <3>4. m - 1 \in 0..L /\ m - 1 \notin N
      <4>1. m - 1 \in 0..L /\ ~(m <= m - 1)
        BY <1>2, <3>2, <3>3
      <4> HIDE DEF N
      <4>2. QED
        BY <3>1, <4>1
    <3>5. PICK g : Good(m - 1, g)
      <4> HIDE DEF Good
      <4>1. QED
        BY <3>4
    <3> DEFINE next == IF all[m] \in set THEN Append(g[m - 1], all[m]) ELSE g[m - 1]
               h == [n \in 0..m |-> IF n = m THEN next ELSE g[n]]
    <3>6. m \in 1..L /\ m - 1 \in 0..m - 1
      BY <1>2, <3>2, <3>3
    <3>7. next \in Seq(T)
      BY <1>2, <3>5, <3>6
    <3>8. h \in [0..m -> Seq(T)] /\ h[0] = <<>> /\ h[m] = next /\ \A n \in 0..m - 1 : h[n] = g[n]
      <4> HIDE DEF next
      <4>1. QED
        BY <3>5, <3>6, <3>7
    <3>9. ASSUME NEW n \in 1..m
          PROVE h[n] = IF all[n] \in set THEN Append(h[n - 1], all[n]) ELSE h[n - 1]
      <4> HIDE DEF h
      <4>1. CASE n = m
        <5>1. h[n - 1] = g[m - 1]
          BY <3>6, <3>8, <4>1
        <5>2. QED
          BY <3>8, <4>1, <5>1
      <4>2. CASE n # m
        <5>1. n \in 1..m - 1 /\ n - 1 \in 0..m - 1 /\ n \in 0..m - 1
          BY <3>6, <4>2
        <5>2. h[n] = g[n] /\ h[n - 1] = g[n - 1]
          BY <3>8, <5>1
        <5>3. QED
          BY <3>5, <5>1, <5>2
      <4>3. QED
        BY <4>1, <4>2
    <3>10. Good(m, h)
      <4> HIDE DEF h
      <4>1. QED
        BY <3>8, <3>9
    <3>11. QED
      <4> HIDE DEF Good
      <4>1. QED
        BY <3>2, <3>10
  <2>2. QED
    BY <2>1
<1>4. PICK f : Good(L, f)
  <2> HIDE DEF Good
  <2>1. QED
    BY <1>2, <1>3
<1>5. \A n \in 0..L :
        f[n] = IF n = 0 THEN <<>> ELSE IF all[n] \in set THEN Append(f[n - 1], all[n]) ELSE f[n - 1]
  <2>1. \A n \in 0..L : n = 0 \/ n \in 1..L
    BY <1>2
  <2>2. QED
    BY <1>4, <2>1
<1>6. u = Body(u)
  <2> HIDE DEF Body
  <2>1. f = Body(f)
    BY <1>4, <1>5 DEF Body
  <2>2. QED
    BY <2>1
<1>7. \A n \in 0..L : u[n] = f[n]
  <2> DEFINE N == {n \in 0..L : u[n] # f[n]}
  <2>1. ASSUME N # {} PROVE FALSE
    <3>1. PICK n \in N : \A k \in N : n <= k
      <4>1. N \subseteq Nat
        BY <1>2
      <4> HIDE DEF N
      <4>2. QED
        BY <2>1, <4>1, LeastNumber
    <3>2. n \in 0..L /\ u[n] # f[n]
      OBVIOUS
    <3>3. u[n] = IF n = 0 THEN <<>> ELSE IF all[n] \in set THEN Append(u[n - 1], all[n]) ELSE u[n - 1]
      <4> HIDE DEF u, N
      <4>1. QED
        BY <1>6, <3>2
    <3>4. f[n] = IF n = 0 THEN <<>> ELSE IF all[n] \in set THEN Append(f[n - 1], all[n]) ELSE f[n - 1]
      <4> HIDE DEF u, N
      <4>1. QED
        BY <1>5, <3>2
    <3>5. n # 0 => u[n - 1] = f[n - 1]
      <4>1. n # 0 => n - 1 \in 0..L /\ ~(n <= n - 1)
        BY <1>2, <3>2
      <4> HIDE DEF u
      <4>2. QED
        BY <3>1, <4>1
    <3>6. QED
      BY <3>2, <3>3, <3>4, <3>5
  <2>2. QED
    BY <2>1
<1>8. QED
  <2>1. Unfolds(f, all, set, T)
    BY <1>4 DEF Unfolds
  <2> HIDE DEF u
  <2>2. QED
    BY <1>1, <1>2, <1>7, <2>1

(* What the loops of QueryCapabilityPage and Query keep of what they go     *)
(* through: the members of the set, each once if each was there once.       *)
LEMMA InOrderFacts ==
  ASSUME NEW T, NEW all \in Seq(T), NEW set
  PROVE  /\ InOrder(all, set) \in Seq(T)
         /\ Range(InOrder(all, set)) = Range(all) \cap set
         /\ IsInjective(all) => IsInjective(InOrder(all, set))
<1>0. PICK f : Unfolds(f, all, set, T) /\ InOrder(all, set) = f[Len(all)]
  BY InOrderUnfolds
<1>1. /\ f \in [0..Len(all) -> Seq(T)] /\ f[0] = <<>> /\ InOrder(all, set) = f[Len(all)]
      /\ \A n \in 1..Len(all) :
           f[n] = IF all[n] \in set THEN Append(f[n - 1], all[n]) ELSE f[n - 1]
  BY <1>0 DEF Unfolds
<1> DEFINE L == Len(all)
           Said(n) == {all[i] : i \in 1..n} \cap set
           Good(n) == Range(f[n]) = Said(n) /\ (IsInjective(all) => IsInjective(f[n]))
<1>2. L \in Nat /\ DOMAIN all = 1..L /\ \A n \in 1..L : all[n] \in T
  OBVIOUS
<1>3. \A n \in 0..L : Good(n)
  <2> DEFINE N == {n \in 0..L : ~Good(n)}
  <2>1. ASSUME N # {} PROVE FALSE
    <3>1. PICK n \in N : \A k \in N : n <= k
      <4>1. N \subseteq Nat
        BY <1>2
      <4> HIDE DEF N
      <4>2. QED
        BY <2>1, <4>1, LeastNumber
    <3>2. n \in 0..L /\ ~Good(n)
      OBVIOUS
    <3>3. n # 0
      <4>1. Good(0)
        BY <1>1 DEF Range, IsInjective
      <4> HIDE DEF Good
      <4>2. QED
        BY <3>2, <4>1
    <3>4. n \in 1..L /\ n - 1 \in 0..L /\ Good(n - 1)
      <4>1. n \in 1..L /\ n - 1 \in 0..L /\ ~(n <= n - 1)
        BY <1>2, <3>2, <3>3
      <4> HIDE DEF Good
      <4>2. QED
        BY <3>1, <4>1
    <3> DEFINE g == f[n - 1]
    <3>5. g \in Seq(T) /\ Len(g) \in Nat /\ DOMAIN g = 1..Len(g) /\ all[n] \in T
      BY <1>1, <1>2, <3>4
    <3>6. Said(n) = Said(n - 1) \cup ({all[n]} \cap set)
      <4>1. 1..n = 1..(n - 1) \cup {n}
        BY <3>4
      <4>2. QED
        BY <4>1
    <3>7. CASE all[n] \notin set
      <4>1. f[n] = g
        BY <1>1, <3>4, <3>7
      <4>2. QED
        BY <3>2, <3>4, <3>6, <3>7, <4>1
    <3>8. CASE all[n] \in set
      <4>1. f[n] = Append(g, all[n])
        BY <1>1, <3>4, <3>8
      <4> DEFINE h == f[n]
      <4>2. /\ h \in Seq(T) /\ DOMAIN h = 1..Len(g) + 1 /\ h[Len(g) + 1] = all[n]
            /\ \A i \in 1..Len(g) : h[i] = g[i]
        BY <3>5, <4>1
      <4> HIDE DEF h, g
      <4>3. 1..Len(g) + 1 = 1..Len(g) \cup {Len(g) + 1}
        BY <3>5
      <4>4. Range(h) = Range(g) \cup {all[n]}
        BY <3>5, <4>2, <4>3 DEF Range
      <4>5. ASSUME IsInjective(all) PROVE IsInjective(h)
        <5>1. \A i \in 1..Len(g) : g[i] # all[n]
          <6> SUFFICES ASSUME NEW i \in 1..Len(g), g[i] = all[n] PROVE FALSE
            OBVIOUS
          <6>1. all[n] \in Said(n - 1)
            BY <3>4, <3>5 DEF Range, g
          <6>2. PICK j \in 1..n - 1 : all[j] = all[n]
            BY <6>1
          <6>3. j \in 1..L /\ j # n
            BY <3>4, <1>2
          <6>4. QED
            BY <1>2, <3>4, <4>5, <6>2, <6>3 DEF IsInjective
        <5>2. IsInjective(g)
          BY <3>4, <4>5 DEF g
        <5>3. QED
          BY <3>5, <4>2, <4>3, <5>1, <5>2 DEF IsInjective
      <4>6. Range(h) = Said(n)
        BY <3>4, <3>6, <3>8, <4>4 DEF g
      <4>7. QED
        BY <3>2, <4>5, <4>6 DEF h
    <3>9. QED
      BY <3>7, <3>8
  <2>2. QED
    BY <2>1
<1>4. Range(all) = {all[i] : i \in 1..L}
  BY <1>2 DEF Range
<1>5. L \in 0..L
  BY <1>2
<1>6. QED
  BY <1>1, <1>3, <1>4, <1>5

-----------------------------------------------------------------------------
SomeScopes == {RepoScopes(p, k) : p \in Projects, k \in Range(Skills)}
              \cup {DepScopes(p, k) : p \in Projects, k \in Range(Skills)}
SomeBindings == {CapabilityScopes(p, c) : p \in Projects, c \in Range(Capabilities)}
SkillRecord == [skill : Range(Skills), scopes : SomeScopes]
BindingRecord == [capability : Range(Capabilities), scopes : SomeBindings]
ProjectOrNone == Projects \cup {NoProject}
RefreshState == [pc : {"idle", "scanned", "filling"}, of : ProjectOrNone, skills : Seq(SkillRecord),
                 capabilities : Seq(BindingRecord), indexed : ProjectOrNone]
Client == [pc : {"idle", "capabilities", "skills", "done"},
           path : {NoPath} \cup {q.path : q \in Questions}, topic : BOOLEAN, search : BOOLEAN,
           cursor : [skills : Nat, capabilities : Nat],
           page : [count : Nat, rows : Seq(Range(Capabilities))],
           skills : Seq(Range(Skills)), capabilities : Seq(Range(Capabilities)),
           epoch : Nat, of : ProjectOrNone, asked : Nat]

Types ==
  /\ project \in Projects /\ seen \subseteq Projects
  /\ index = [skills |-> index.skills, capabilities |-> index.capabilities]
  /\ DOMAIN index.skills \subseteq Range(Skills)
  /\ DOMAIN index.capabilities \subseteq Range(Capabilities)
  /\ refresh \in RefreshState /\ client \in Client
  /\ epoch \in Nat /\ edits \in Nat

(* What linking says of a skill, and what the index says when all is in. *)
SaidOf(p, k, scopes) ==
  \/ k \in RepoSkills(p) /\ scopes = RepoScopes(p, k)
  \/ k \in DepNames(p) /\ scopes = DepScopes(p, k)
IndexedSkills(p) == Range(Skills) \cap (RepoSkills(p) \cup DepNames(p))
IndexedScopes(p, k) == IF k \in DepNames(p) THEN DepScopes(p, k) ELSE RepoScopes(p, k)

Names(rem) == {rem[i].skill : i \in DOMAIN rem}
Bindings(rem) == {rem[i].capability : i \in DOMAIN rem}
LastHere(rem, i) == \A j \in DOMAIN rem : i < j => rem[j].skill # rem[i].skill

(* f holds a part of what linking says of p, rem is still to be inserted. *)
SkillsOnTheWay(f, rem, p) ==
  /\ DOMAIN f \cup Names(rem) = IndexedSkills(p)
  /\ \A k \in DOMAIN f : SaidOf(p, k, f[k]) /\ (k \notin Names(rem) => f[k] = IndexedScopes(p, k))
  /\ \A i \in DOMAIN rem :
       /\ SaidOf(p, rem[i].skill, rem[i].scopes)
       /\ LastHere(rem, i) => rem[i].scopes = IndexedScopes(p, rem[i].skill)
CapabilitiesOnTheWay(f, rem, p) ==
  /\ DOMAIN f \cup Bindings(rem) = KnownCapabilities(p)
  /\ \A c \in DOMAIN f : f[c] = CapabilityScopes(p, c)
  /\ \A i \in DOMAIN rem : rem[i].scopes = CapabilityScopes(p, rem[i].capability)
Complete(p) ==
  SkillsOnTheWay(index.skills, <<>>, p) /\ CapabilitiesOnTheWay(index.capabilities, <<>>, p)

RefreshInv ==
  /\ refresh.pc # "idle" => refresh.of \in Projects
  /\ refresh.pc = "scanned" =>
       refresh.skills = Link(refresh.of) /\ refresh.capabilities = CapabilityRecords(refresh.of)
  /\ refresh.pc = "filling" =>
       /\ refresh.indexed = NoProject /\ refresh.of \in seen
       /\ SkillsOnTheWay(index.skills, refresh.skills, refresh.of)
       /\ CapabilitiesOnTheWay(index.capabilities, refresh.capabilities, refresh.of)
  /\ refresh.indexed # NoProject => Complete(refresh.indexed)

SourceInv ==
  /\ \A k \in DOMAIN index.skills : \E p \in seen : SaidOf(p, k, index.skills[k])
  /\ \A c \in DOMAIN index.capabilities :
       \E p \in seen : c \in KnownCapabilities(p) /\ index.capabilities[c] = CapabilityScopes(p, c)

(* The listing of a client, held against the index as it is. *)
Steady == client.epoch = epoch /\ client.of # NoProject

ListedSoFar ==
  LET ks == MatchingSkills(client)
      cs == MatchingCapabilities(client)
  IN /\ client.cursor.skills <= Len(ks) /\ client.cursor.capabilities <= Len(cs)
     /\ client.skills = SubSeq(ks, 1, client.cursor.skills)
     /\ client.capabilities = SubSeq(cs, 1, client.cursor.capabilities)
     /\ client.pc = "skills" =>
          client.page = [count |-> Len(cs),
                         rows |-> Page(cs, client.cursor.capabilities)]

ClientInv ==
  /\ client.epoch <= epoch
  /\ Steady => refresh.indexed = client.of
  /\ Steady /\ client.pc \in {"capabilities", "skills"} => ListedSoFar
  /\ Steady /\ client.pc = "done" =>
       client.skills = MatchingSkills(client) /\ client.capabilities = MatchingCapabilities(client)

IsAsked(c) ==
  \E q \in Questions : c.path = q.path /\ c.topic = q.topic /\ c.search = q.search

SkillsApply(ks) == \A k \in ks : \E p \in seen : SkillApplies(p, k, client.path)
CapabilitiesApply(cs) == \A c \in cs : \E p \in seen : CapabilityApplies(p, c, client.path)

ListedInv ==
  /\ client.pc \in {"capabilities", "skills", "done"} => IsAsked(client)
  /\ client.path # NoPath =>
       /\ SkillsApply(Range(client.skills)) /\ CapabilitiesApply(Range(client.capabilities))
       /\ CapabilitiesApply(Range(client.page.rows))

CursorInv ==
  /\ client.cursor.skills <= Len(Skills) /\ client.cursor.capabilities <= Len(Capabilities)
  /\ Least(client.cursor.capabilities, client.page.count) + Len(client.page.rows) <= Len(Capabilities)

LEMMA Facts ==
  /\ Limit \in Nat \ {0} /\ NoProject \notin Projects
  /\ Skills \in Seq(Range(Skills)) /\ Capabilities \in Seq(Range(Capabilities))
  /\ Ranked \in Seq(Range(Skills)) /\ RankedCapabilities \in Seq(Range(Capabilities))
  /\ IsInjective(Skills) /\ IsInjective(Capabilities)
  /\ IsInjective(Ranked) /\ IsInjective(RankedCapabilities)
BY LimitAssumption, ProjectsAssumption, NamesAssumption

LEMMA Concatenation ==
  ASSUME NEW T, NEW a \in Seq(T), NEW d \in Seq(T)
  PROVE  /\ a \o d \in Seq(T) /\ DOMAIN (a \o d) = 1..Len(a) + Len(d)
         /\ Len(a \o d) = Len(a) + Len(d)
         /\ \A i \in 1..Len(a) + Len(d) : (a \o d)[i] = IF i <= Len(a) THEN a[i] ELSE d[i - Len(a)]
<1>1. /\ a \o d \in Seq(T) /\ Len(a \o d) = Len(a) + Len(d)
      /\ \A i \in 1..Len(a) + Len(d) : (a \o d)[i] = IF i <= Len(a) THEN a[i] ELSE d[i - Len(a)]
  BY ConcatProperties
<1>2. QED
  BY <1>1

(* Link says of every skill of a project what its scopes are, and says last *)
(* what the index will hold (linker.go:30-83).                              *)
LEMMA LinkFacts ==
  ASSUME NEW p \in Projects
  PROVE  Link(p) \in Seq(SkillRecord) /\ SkillsOnTheWay(<<>>, Link(p), p)
<1> DEFINE repo == InOrder(Skills, RepoSkills(p))
           deps == InOrder(Skills, DepNames(p))
           A(i) == [skill |-> repo[i], scopes |-> RepoScopes(p, repo[i])]
           D(i) == [skill |-> deps[i], scopes |-> DepScopes(p, deps[i])]
           a == [i \in DOMAIN repo |-> A(i)]
           d == [i \in DOMAIN deps |-> D(i)]
           L == Link(p)
<1>1. L = a \o d
  BY DEF Link
<1>2. /\ repo \in Seq(Range(Skills)) /\ Range(repo) = Range(Skills) \cap RepoSkills(p)
      /\ deps \in Seq(Range(Skills)) /\ Range(deps) = Range(Skills) \cap DepNames(p)
  BY Facts, InOrderFacts
<1> HIDE DEF repo, deps
<1>3. /\ DOMAIN repo = 1..Len(repo) /\ Len(repo) \in Nat /\ \A i \in 1..Len(repo) : repo[i] \in Range(Skills)
      /\ DOMAIN deps = 1..Len(deps) /\ Len(deps) \in Nat /\ \A i \in 1..Len(deps) : deps[i] \in Range(Skills)
  BY <1>2
<1>4. \A i \in 1..Len(repo) : A(i) \in SkillRecord
  BY <1>3 DEF SkillRecord, SomeScopes
<1>5. \A i \in 1..Len(deps) : D(i) \in SkillRecord
  BY <1>3 DEF SkillRecord, SomeScopes
<1>6. a \in Seq(SkillRecord) /\ Len(a) = Len(repo) /\ \A i \in 1..Len(repo) : a[i] = A(i)
  <2> HIDE DEF A
  <2>1. QED
    BY <1>3, <1>4
<1>7. d \in Seq(SkillRecord) /\ Len(d) = Len(deps) /\ \A i \in 1..Len(deps) : d[i] = D(i)
  <2> HIDE DEF D
  <2>1. QED
    BY <1>3, <1>5
<1> HIDE DEF a, d, L
<1>8. /\ L \in Seq(SkillRecord) /\ Len(L) = Len(repo) + Len(deps) /\ DOMAIN L = 1..Len(repo) + Len(deps)
      /\ \A i \in 1..Len(repo) + Len(deps) : L[i] = IF i <= Len(repo) THEN a[i] ELSE d[i - Len(repo)]
  <2>1. a \in Seq(SkillRecord) /\ d \in Seq(SkillRecord)
    BY <1>6, <1>7
  <2>2. /\ L \in Seq(SkillRecord) /\ DOMAIN L = 1..Len(a) + Len(d)
        /\ Len(L) = Len(a) + Len(d)
        /\ \A i \in 1..Len(a) + Len(d) : L[i] = IF i <= Len(a) THEN a[i] ELSE d[i - Len(a)]
    BY <1>1, <2>1, Concatenation, Zenon
  <2>3. QED
    BY <1>6, <1>7, <2>2
<1>9. ASSUME NEW i \in DOMAIN L
      PROVE \/ /\ i \in 1..Len(repo) /\ L[i] = A(i) /\ repo[i] \in RepoSkills(p)
            \/ /\ i > Len(repo) /\ i - Len(repo) \in 1..Len(deps) /\ L[i] = D(i - Len(repo))
               /\ deps[i - Len(repo)] \in DepNames(p)
  <2> HIDE DEF A, D
  <2>1. CASE i <= Len(repo)
    <3>1. i \in 1..Len(repo)
      BY <1>3, <1>8, <2>1
    <3>2. repo[i] \in Range(repo)
      BY <1>3, <3>1 DEF Range
    <3>3. QED
      BY <1>2, <1>6, <1>8, <2>1, <3>1, <3>2
  <2>2. CASE i > Len(repo)
    <3> DEFINE j == i - Len(repo)
    <3>1. j \in 1..Len(deps) /\ ~(i <= Len(repo)) /\ i \in 1..Len(repo) + Len(deps)
      BY <1>3, <1>8, <2>2
    <3>2. deps[j] \in Range(deps)
      BY <1>3, <3>1 DEF Range
    <3>3. L[i] = d[j]
      BY <1>8, <3>1
    <3> HIDE DEF j
    <3>4. L[i] = D(j) /\ deps[j] \in DepNames(p)
      BY <1>2, <1>7, <3>1, <3>2, <3>3
    <3>5. QED
      BY <2>2, <3>1, <3>4 DEF j
  <2>3. QED
    BY <1>3, <1>8, <2>1, <2>2
<1>10. ASSUME NEW k \in IndexedSkills(p)
       PROVE \E i \in DOMAIN L : L[i].skill = k
  <2>1. CASE k \in RepoSkills(p)
    <3>1. PICK i \in 1..Len(repo) : repo[i] = k
      BY <1>2, <1>3, <2>1 DEF IndexedSkills, Range
    <3>2. i \in DOMAIN L /\ L[i] = A(i)
      BY <1>3, <1>6, <1>8
    <3>3. QED
      BY <3>1, <3>2
  <2>2. CASE k \in DepNames(p)
    <3>1. PICK i \in 1..Len(deps) : deps[i] = k
      BY <1>2, <1>3, <2>2 DEF IndexedSkills, Range
    <3> DEFINE j == Len(repo) + i
    <3>2. j \in DOMAIN L /\ ~(j <= Len(repo)) /\ j - Len(repo) = i
      BY <1>3, <1>8
    <3>3. L[j] = D(i)
      BY <1>7, <1>8, <3>2
    <3>4. QED
      BY <3>1, <3>2, <3>3
  <2>3. QED
    BY <2>1, <2>2 DEF IndexedSkills
<1>11. \A i \in DOMAIN L : SaidOf(p, L[i].skill, L[i].scopes) /\ L[i].skill \in IndexedSkills(p)
  BY <1>3, <1>9 DEF SaidOf, IndexedSkills
<1>12. ASSUME NEW i \in DOMAIN L, LastHere(L, i)
       PROVE L[i].scopes = IndexedScopes(p, L[i].skill)
  <2>1. CASE i > Len(repo)
    BY <1>3, <1>9, <2>1 DEF IndexedScopes
  <2>2. CASE i \in 1..Len(repo)
    <3>1. L[i] = A(i)
      BY <1>3, <1>9, <2>2
    <3>2. ASSUME repo[i] \in DepNames(p) PROVE FALSE
      <4>1. PICK j \in 1..Len(deps) : deps[j] = repo[i]
        BY <1>2, <1>3, <2>2, <3>2 DEF Range
      <4> DEFINE m == Len(repo) + j
      <4>2. m \in DOMAIN L /\ ~(m <= Len(repo)) /\ m - Len(repo) = j /\ i < m
        BY <1>3, <1>8, <2>2
      <4>3. L[m] = D(j)
        BY <1>7, <1>8, <4>2
      <4>4. L[m].skill = L[i].skill
        BY <3>1, <4>1, <4>3
      <4> HIDE DEF m
      <4>5. QED
        BY <1>12, <4>2, <4>4 DEF LastHere
    <3>3. QED
      BY <3>1, <3>2 DEF IndexedScopes
  <2>3. QED
    BY <1>3, <1>9, <2>1, <2>2
<1>13. Names(L) = IndexedSkills(p)
  BY <1>10, <1>11 DEF Names
<1>14. SkillsOnTheWay(<<>>, L, p)
  <2>1. DOMAIN <<>> = {}
    OBVIOUS
  <2>2. QED
    BY <1>11, <1>12, <1>13, <2>1 DEF SkillsOnTheWay
<1>15. QED
  BY <1>8, <1>14 DEF L

LEMMA RecordsFacts ==
  ASSUME NEW p \in Projects
  PROVE  /\ CapabilityRecords(p) \in Seq(BindingRecord)
         /\ CapabilitiesOnTheWay(<<>>, CapabilityRecords(p), p)
<1> DEFINE names == InOrder(Capabilities, KnownCapabilities(p))
           B(i) == [capability |-> names[i], scopes |-> CapabilityScopes(p, names[i])]
           r == CapabilityRecords(p)
<1>1. r = [i \in DOMAIN names |-> B(i)]
  BY DEF CapabilityRecords
<1>2. /\ names \in Seq(Range(Capabilities)) /\ Range(names) = KnownCapabilities(p)
  BY Facts, InOrderFacts DEF KnownCapabilities
<1> HIDE DEF names, r
<1>3. DOMAIN names = 1..Len(names) /\ Len(names) \in Nat /\ \A i \in 1..Len(names) : names[i] \in Range(Capabilities)
  BY <1>2
<1>4. \A i \in 1..Len(names) : B(i) \in BindingRecord
  BY <1>3 DEF BindingRecord, SomeBindings
<1>5. r \in Seq(BindingRecord) /\ DOMAIN r = DOMAIN names /\ \A i \in DOMAIN r : r[i] = B(i)
  <2> HIDE DEF B
  <2>1. QED
    BY <1>1, <1>3, <1>4
<1>6. Bindings(r) = KnownCapabilities(p)
  BY <1>2, <1>5 DEF Bindings, Range
<1>7. DOMAIN <<>> = {}
  OBVIOUS
<1>8. QED
  BY <1>5, <1>6, <1>7 DEF CapabilitiesOnTheWay, r

LEMMA TailFacts ==
  ASSUME NEW T, NEW rem \in Seq(T), rem # <<>>
  PROVE  /\ Tail(rem) \in Seq(T) /\ Head(rem) = rem[1] /\ Head(rem) \in T /\ 1 \in DOMAIN rem
         /\ \A i \in DOMAIN rem : i = 1 \/ (i > 1 /\ i - 1 \in DOMAIN Tail(rem) /\ Tail(rem)[i - 1] = rem[i])
         /\ \A i \in DOMAIN Tail(rem) : i \in Nat /\ i > 0 /\ i + 1 \in DOMAIN rem /\ Tail(rem)[i] = rem[i + 1]
OBVIOUS

(* An insertion takes one from what is left and keeps what is said.         *)
LEMMA SkillPut ==
  ASSUME NEW f, NEW p, NEW rem \in Seq(SkillRecord), rem # <<>>, SkillsOnTheWay(f, rem, p)
  PROVE  SkillsOnTheWay(Put(f, Head(rem).skill, Head(rem).scopes), Tail(rem), p)
<1> DEFINE h == Head(rem)
           t == Tail(rem)
           g == Put(f, h.skill, h.scopes)
<1>1. /\ t \in Seq(SkillRecord) /\ h = rem[1] /\ 1 \in DOMAIN rem
      /\ \A i \in DOMAIN rem : i = 1 \/ (i > 1 /\ i - 1 \in DOMAIN t /\ t[i - 1] = rem[i])
      /\ \A i \in DOMAIN t : i \in Nat /\ i > 0 /\ i + 1 \in DOMAIN rem /\ t[i] = rem[i + 1]
  BY TailFacts
<1>2. /\ DOMAIN g = DOMAIN f \cup {h.skill} /\ g[h.skill] = h.scopes
      /\ \A y \in DOMAIN f : y # h.skill => g[y] = f[y]
  BY DEF Put
<1> HIDE DEF h, t, g
<1>3. Names(rem) = Names(t) \cup {h.skill}
  <2>1. Names(t) \subseteq Names(rem) /\ h.skill \in Names(rem)
    BY <1>1 DEF Names
  <2>2. ASSUME NEW i \in DOMAIN rem PROVE rem[i].skill \in Names(t) \cup {h.skill}
    BY <1>1 DEF Names
  <2>3. QED
    BY <2>1, <2>2 DEF Names
<1>4. DOMAIN g \cup Names(t) = IndexedSkills(p)
  BY <1>2, <1>3 DEF SkillsOnTheWay
<1>5. ASSUME NEW i \in DOMAIN t
      PROVE /\ SaidOf(p, t[i].skill, t[i].scopes)
            /\ LastHere(t, i) => t[i].scopes = IndexedScopes(p, t[i].skill)
  <2>1. i + 1 \in DOMAIN rem /\ t[i] = rem[i + 1] /\ i \in Nat /\ i > 0
    BY <1>1
  <2>2. LastHere(t, i) => LastHere(rem, i + 1)
    <3> SUFFICES ASSUME LastHere(t, i), NEW j \in DOMAIN rem, i + 1 < j
                 PROVE rem[j].skill # rem[i + 1].skill
      BY DEF LastHere
    <3>1. j # 1 /\ i < j - 1
      BY <1>1, <2>1
    <3>2. j - 1 \in DOMAIN t /\ t[j - 1] = rem[j]
      BY <1>1, <3>1
    <3>3. QED
      BY <2>1, <3>1, <3>2 DEF LastHere
  <2>3. QED
    BY <2>1, <2>2 DEF SkillsOnTheWay
<1>6. SaidOf(p, h.skill, h.scopes)
  BY <1>1 DEF SkillsOnTheWay
<1>7. ASSUME h.skill \notin Names(t) PROVE h.scopes = IndexedScopes(p, h.skill)
  <2>1. LastHere(rem, 1)
    <3> SUFFICES ASSUME NEW j \in DOMAIN rem, 1 < j PROVE rem[j].skill # rem[1].skill
      BY DEF LastHere
    <3>1. j - 1 \in DOMAIN t /\ t[j - 1] = rem[j]
      BY <1>1
    <3>2. rem[j].skill \in Names(t)
      BY <3>1 DEF Names
    <3>3. QED
      BY <1>1, <1>7, <3>2
  <2>2. QED
    BY <1>1, <2>1 DEF SkillsOnTheWay
<1>8. ASSUME NEW k \in DOMAIN g
      PROVE SaidOf(p, k, g[k]) /\ (k \notin Names(t) => g[k] = IndexedScopes(p, k))
  <2>1. CASE k = h.skill
    BY <1>2, <1>6, <1>7, <2>1
  <2>2. CASE k # h.skill
    BY <1>2, <1>3, <2>2 DEF SkillsOnTheWay
  <2>3. QED
    BY <2>1, <2>2
<1>9. QED
  BY <1>4, <1>5, <1>8 DEF SkillsOnTheWay, h, t, g

LEMMA CapabilityPut ==
  ASSUME NEW f, NEW p, NEW rem \in Seq(BindingRecord), rem # <<>>, CapabilitiesOnTheWay(f, rem, p)
  PROVE  CapabilitiesOnTheWay(Put(f, Head(rem).capability, Head(rem).scopes), Tail(rem), p)
<1> DEFINE h == Head(rem)
           t == Tail(rem)
           g == Put(f, h.capability, h.scopes)
<1>1. /\ t \in Seq(BindingRecord) /\ h = rem[1] /\ 1 \in DOMAIN rem
      /\ \A i \in DOMAIN rem : i = 1 \/ (i > 1 /\ i - 1 \in DOMAIN t /\ t[i - 1] = rem[i])
      /\ \A i \in DOMAIN t : i \in Nat /\ i > 0 /\ i + 1 \in DOMAIN rem /\ t[i] = rem[i + 1]
  BY TailFacts
<1>2. /\ DOMAIN g = DOMAIN f \cup {h.capability} /\ g[h.capability] = h.scopes
      /\ \A y \in DOMAIN f : y # h.capability => g[y] = f[y]
  BY DEF Put
<1> HIDE DEF h, t, g
<1>3. Bindings(rem) = Bindings(t) \cup {h.capability}
  <2>1. Bindings(t) \subseteq Bindings(rem) /\ h.capability \in Bindings(rem)
    BY <1>1 DEF Bindings
  <2>2. ASSUME NEW i \in DOMAIN rem PROVE rem[i].capability \in Bindings(t) \cup {h.capability}
    BY <1>1 DEF Bindings
  <2>3. QED
    BY <2>1, <2>2 DEF Bindings
<1>4. DOMAIN g \cup Bindings(t) = KnownCapabilities(p)
  BY <1>2, <1>3 DEF CapabilitiesOnTheWay
<1>5. \A c \in DOMAIN g : g[c] = CapabilityScopes(p, c)
  BY <1>1, <1>2 DEF CapabilitiesOnTheWay
<1>6. \A i \in DOMAIN t : t[i].scopes = CapabilityScopes(p, t[i].capability)
  BY <1>1 DEF CapabilitiesOnTheWay
<1>7. QED
  BY <1>4, <1>5, <1>6 DEF CapabilitiesOnTheWay, h, t, g

(* A list without repetitions is no longer than one that has all its elements. *)
LEMMA NoLonger ==
  ASSUME NEW T, NEW a \in Seq(T), NEW b \in Seq(T), IsInjective(a), Range(a) \subseteq Range(b)
  PROVE  Len(a) <= Len(b)
<1> DEFINE A == 1..Len(a)
           B == 1..Len(b)
<1>1. /\ Len(a) \in Nat /\ DOMAIN a = A /\ Len(b) \in Nat /\ DOMAIN b = B
      /\ a \in [A -> T] /\ b \in [B -> T]
  OBVIOUS
<1>2. /\ IsFiniteSet(A) /\ Cardinality(A) = Len(a)
      /\ IsFiniteSet(B) /\ Cardinality(B) = Len(b)
  <2> DEFINE m == Len(a)
             n == Len(b)
  <2>1. m \in Nat /\ n \in Nat
    BY <1>1
  <2> HIDE DEF m, n
  <2>2. /\ IsFiniteSet(1..m) /\ Cardinality(1..m) = IF 1 > m THEN 0 ELSE m - 1 + 1
        /\ IsFiniteSet(1..n) /\ Cardinality(1..n) = IF 1 > n THEN 0 ELSE n - 1 + 1
    BY <2>1, FS_Interval
  <2>3. Cardinality(1..m) = m /\ Cardinality(1..n) = n
    BY <2>1, <2>2
  <2>4. QED
    BY <2>2, <2>3 DEF m, n
<1>3. b \in Surjection(B, Range(b))
  <2>1. b \in [B -> Range(b)] /\ \A t \in Range(b) : \E s \in B : b[s] = t
    BY <1>1 DEF Range
  <2>2. QED
    BY <2>1 DEF Surjection
<1>4. a \in Injection(A, Range(b))
  <2>1. \A i \in A : a[i] \in Range(b)
    BY <1>1 DEF Range
  <2>2. a \in [A -> Range(b)]
    BY <1>1, <2>1
  <2>3. \A x, y \in A : a[x] = a[y] => x = y
    BY <1>1 DEF IsInjective
  <2>4. QED
    BY <2>2, <2>3 DEF Injection
<1>5. IsFiniteSet(Range(b)) /\ Cardinality(Range(b)) <= Cardinality(B)
  BY <1>2, <1>3, FS_Surjection
<1>6. Cardinality(A) <= Cardinality(Range(b))
  BY <1>4, <1>5, FS_Injection
<1>7. Cardinality(Range(b)) \in Nat
  BY <1>5, FS_CardinalityType
<1>8. QED
  BY <1>1, <1>2, <1>5, <1>6, <1>7

(* Pages are taken from the results, one after the other, without gap or    *)
(* overlap (query.go:315-355).                                              *)
LEMMA PageFacts ==
  ASSUME NEW T, NEW r \in Seq(T), NEW from \in Nat
  PROVE  /\ Page(r, from) \in Seq(T) /\ Range(Page(r, from)) \subseteq Range(r)
         /\ Upto(Len(r), from) \in Nat /\ Upto(Len(r), from) <= Len(r)
         /\ from <= Len(r) =>
              /\ from <= Upto(Len(r), from)
              /\ Len(Page(r, from)) = Upto(Len(r), from) - from
              /\ SubSeq(r, 1, from) \o Page(r, from) = SubSeq(r, 1, Upto(Len(r), from))
         /\ from > Len(r) => Len(Page(r, from)) = 0
<1> DEFINE L == Len(r)
           U == Upto(L, from)
           g == Page(r, from)
<1>1. L \in Nat /\ DOMAIN r = 1..L /\ \A i \in 1..L : r[i] \in T
  OBVIOUS
<1>2. Limit \in Nat /\ Limit > 0
  BY LimitAssumption
<1>0. L \in Nat
  OBVIOUS
<1> HIDE DEF L
<1>3. U \in Nat /\ U <= L /\ (from <= L => from <= U) /\ (from > L => U = L)
  BY <1>0, <1>2 DEF Upto
<1>4. g = SubSeq(r, from + 1, U)
  BY DEF Page, L
<1> HIDE DEF U, g
<1>5. \A i \in from + 1..U : i \in 1..L
  BY <1>0, <1>3
<1>6. \A i \in from + 1..U : r[i] \in T
  BY <1>1, <1>5
<1>7. /\ g \in Seq(T) /\ Len(g) = IF from + 1 <= U THEN U - (from + 1) + 1 ELSE 0
      /\ \A i \in 1..U - (from + 1) + 1 : g[i] = r[from + 1 + i - 1]
  <2>1. from + 1 \in Int /\ U \in Int
    BY <1>3
  <2>2. QED
    BY <1>4, <1>6, <2>1, SubSeqProperties
<1>8. from <= L => Len(g) = U - from
  BY <1>3, <1>7
<1>9. from > L => Len(g) = 0
  BY <1>0, <1>3, <1>7
<1>10. Range(g) \subseteq Range(r)
  <2> SUFFICES ASSUME NEW i \in DOMAIN g PROVE g[i] \in Range(r)
    BY DEF Range
  <2> DEFINE n == Len(g)
             j == from + 1 + i - 1
  <2>1. i \in 1..n /\ n \in Nat
    BY <1>7
  <2>2. n = IF from + 1 <= U THEN U - (from + 1) + 1 ELSE 0
    BY <1>7
  <2> HIDE DEF n
  <2>3. i \in 1..U - (from + 1) + 1 /\ j \in 1..L
    BY <1>0, <1>3, <2>1, <2>2
  <2>4. g[i] = r[j]
    BY <1>7, <2>3
  <2> HIDE DEF j
  <2>5. QED
    BY <1>1, <2>3, <2>4 DEF Range
<1>11. from <= L => SubSeq(r, 1, from) \o g = SubSeq(r, 1, U)
  <2> SUFFICES ASSUME from <= L PROVE SubSeq(r, 1, from) \o g = SubSeq(r, 1, U)
    OBVIOUS
  <2>1. 1 \in 1..L + 1 /\ from \in 1 - 1..L /\ U \in from..L
    BY <1>0, <1>3
  <2>2. SubSeq(r, 1, from) \o SubSeq(r, from + 1, U) = SubSeq(r, 1, U)
    BY <2>1, ConcatAdjacentSubSeq DEF L
  <2>3. QED
    BY <1>4, <2>2
<1>12. QED
  BY <1>3, <1>7, <1>8, <1>9, <1>10, <1>11 DEF U, g, L

LEMMA MatchingFacts ==
  ASSUME NEW q
  PROVE  /\ MatchingSkills(q) \in Seq(Range(Skills)) /\ IsInjective(MatchingSkills(q))
         /\ Range(MatchingSkills(q)) =
              {k \in DOMAIN index.skills :
                 /\ k \in IF q.search THEN Range(Ranked) ELSE Range(Skills)
                 /\ q.topic => k \in Topical
                 /\ q.path # NoPath => InScope(q, index.skills[k])}
         /\ Len(MatchingSkills(q)) <= Len(Skills)
         /\ MatchingCapabilities(q) \in Seq(Range(Capabilities)) /\ IsInjective(MatchingCapabilities(q))
         /\ Range(MatchingCapabilities(q)) =
              {c \in DOMAIN index.capabilities :
                 /\ c \in IF q.search THEN Range(RankedCapabilities) ELSE Range(Capabilities)
                 /\ q.path # NoPath \/ q.search
                 /\ q.path # NoPath => BoundTo(index.capabilities[c], q.path)}
         /\ Len(MatchingCapabilities(q)) <= Len(Capabilities)
<1> DEFINE A == IF q.search THEN Ranked ELSE Skills
           S == {k \in DOMAIN index.skills :
                   /\ q.topic => k \in Topical
                   /\ q.path # NoPath => InScope(q, index.skills[k])}
           B == IF q.search THEN RankedCapabilities ELSE Capabilities
           C == {c \in DOMAIN index.capabilities :
                   /\ q.path # NoPath \/ q.search
                   /\ q.path # NoPath => BoundTo(index.capabilities[c], q.path)}
           MS == MatchingSkills(q)
           MC == MatchingCapabilities(q)
<1>1. MS = InOrder(A, S) /\ MC = InOrder(B, C)
  BY DEF MatchingSkills, MatchingCapabilities
<1>2. A \in Seq(Range(Skills)) /\ IsInjective(A) /\ B \in Seq(Range(Capabilities)) /\ IsInjective(B)
  BY Facts
<1>3. Range(A) = IF q.search THEN Range(Ranked) ELSE Range(Skills)
  OBVIOUS
<1>4. Range(B) = IF q.search THEN Range(RankedCapabilities) ELSE Range(Capabilities)
  OBVIOUS
<1> HIDE DEF A, B, S, C, MS, MC
<1>5. /\ MS \in Seq(Range(Skills)) /\ IsInjective(MS) /\ Range(MS) = Range(A) \cap S
      /\ MC \in Seq(Range(Capabilities)) /\ IsInjective(MC) /\ Range(MC) = Range(B) \cap C
  BY <1>1, <1>2, InOrderFacts
<1>6. Range(MS) \subseteq Range(Skills) /\ Range(MC) \subseteq Range(Capabilities)
  BY <1>5 DEF Range
<1>7. Len(MS) <= Len(Skills)
  BY <1>5, <1>6, Facts, NoLonger
<1>8. Len(MC) <= Len(Capabilities)
  BY <1>5, <1>6, Facts, NoLonger
<1>9. Range(A) \cap S = {k \in DOMAIN index.skills :
                 /\ k \in IF q.search THEN Range(Ranked) ELSE Range(Skills)
                 /\ q.topic => k \in Topical
                 /\ q.path # NoPath => InScope(q, index.skills[k])}
  BY <1>3 DEF S
<1>10. Range(B) \cap C = {c \in DOMAIN index.capabilities :
                 /\ c \in IF q.search THEN Range(RankedCapabilities) ELSE Range(Capabilities)
                 /\ q.path # NoPath \/ q.search
                 /\ q.path # NoPath => BoundTo(index.capabilities[c], q.path)}
  BY <1>4 DEF C
<1>11. QED
  BY <1>5, <1>7, <1>8, <1>9, <1>10 DEF MS, MC

LEMMA TypesInit == DiscoveryInit => Types
<1> SUFFICES ASSUME DiscoveryInit PROVE Types
  OBVIOUS
<1>1. refresh \in RefreshState
  BY DEF DiscoveryInit, RefreshState, ProjectOrNone
<1>2. client \in Client
  BY DEF DiscoveryInit, Client, ProjectOrNone
<1>3. DOMAIN <<>> = {}
  OBVIOUS
<1>4. QED
  BY <1>1, <1>2, <1>3 DEF DiscoveryInit, Types, Nothing

(* Only what is linked, asked or found is put into index, refresh and client. *)
LEMMA TypesStep == Types /\ RefreshInv /\ [DiscoveryNext]_discoveryVars => Types'
<1> SUFFICES ASSUME Types, RefreshInv, [DiscoveryNext]_discoveryVars PROVE Types'
  OBVIOUS
<1>0. /\ refresh \in RefreshState /\ client \in Client /\ project \in Projects /\ seen \subseteq Projects
      /\ index = [skills |-> index.skills, capabilities |-> index.capabilities]
      /\ DOMAIN index.skills \subseteq Range(Skills) /\ DOMAIN index.capabilities \subseteq Range(Capabilities)
      /\ epoch \in Nat /\ edits \in Nat
  BY DEF Types
<1>1. CASE Edit
  BY <1>0, <1>1 DEF Edit, Types
<1>2. CASE Scan
  <2>1. Link(project) \in Seq(SkillRecord) /\ CapabilityRecords(project) \in Seq(BindingRecord)
    BY <1>0, LinkFacts, RecordsFacts
  <2>2. refresh' \in RefreshState
    BY <1>0, <1>2, <2>1 DEF Scan, RefreshState, ProjectOrNone
  <2>3. QED
    BY <1>0, <1>2, <2>2 DEF Scan, Types
<1>3. CASE Clear
  <2>0. refresh.of \in Projects
    BY <1>3 DEF Clear, RefreshInv
  <2>1. refresh' \in RefreshState
    BY <1>0, <1>3, <2>0 DEF Clear, RefreshState, ProjectOrNone
  <2>2. DOMAIN <<>> = {}
    OBVIOUS
  <2>3. QED
    BY <1>0, <1>3, <2>0, <2>1, <2>2 DEF Clear, Types, Nothing
<1>4. CASE InsertSkill
  <2> DEFINE h == Head(refresh.skills)
  <2>1. refresh.skills \in Seq(SkillRecord) /\ refresh.skills # <<>>
    BY <1>0, <1>4 DEF InsertSkill, RefreshState
  <2>2. h \in SkillRecord /\ Tail(refresh.skills) \in Seq(SkillRecord)
    BY <2>1
  <2>3. refresh' \in RefreshState
    BY <1>0, <1>4, <2>2 DEF InsertSkill, RefreshState
  <2>4. index' = [index EXCEPT !.skills = Put(index.skills, h.skill, h.scopes)]
    BY <1>4 DEF InsertSkill
  <2>5. h.skill \in Range(Skills)
    BY <2>2 DEF SkillRecord
  <2> HIDE DEF h
  <2>6. /\ index'.skills = Put(index.skills, h.skill, h.scopes) /\ index'.capabilities = index.capabilities
        /\ index' = [skills |-> index'.skills, capabilities |-> index'.capabilities]
    BY <1>0, <2>4
  <2>7. DOMAIN index'.skills = DOMAIN index.skills \cup {h.skill}
    BY <2>6 DEF Put
  <2>8. QED
    BY <1>0, <1>4, <2>3, <2>5, <2>6, <2>7 DEF InsertSkill, Types
<1>5. CASE InsertCapability
  <2> DEFINE h == Head(refresh.capabilities)
  <2>1. refresh.capabilities \in Seq(BindingRecord) /\ refresh.capabilities # <<>>
    BY <1>0, <1>5 DEF InsertCapability, RefreshState
  <2>2. h \in BindingRecord /\ Tail(refresh.capabilities) \in Seq(BindingRecord)
    BY <2>1
  <2>3. refresh' \in RefreshState
    BY <1>0, <1>5, <2>2 DEF InsertCapability, RefreshState
  <2>4. index' = [index EXCEPT !.capabilities = Put(index.capabilities, h.capability, h.scopes)]
    BY <1>5 DEF InsertCapability
  <2>5. h.capability \in Range(Capabilities)
    BY <2>2 DEF BindingRecord
  <2> HIDE DEF h
  <2>6. /\ index'.capabilities = Put(index.capabilities, h.capability, h.scopes)
        /\ index'.skills = index.skills
        /\ index' = [skills |-> index'.skills, capabilities |-> index'.capabilities]
    BY <1>0, <2>4
  <2>7. DOMAIN index'.capabilities = DOMAIN index.capabilities \cup {h.capability}
    BY <2>6 DEF Put
  <2>8. QED
    BY <1>0, <1>5, <2>3, <2>5, <2>6, <2>7 DEF InsertCapability, Types
<1>6. CASE Refreshed
  <2>1. refresh' \in RefreshState
    BY <1>0, <1>6 DEF Refreshed, RefreshState, ProjectOrNone
  <2>2. QED
    BY <1>0, <1>6, <2>1 DEF Refreshed, Types
<1>7. ASSUME NEW q \in Questions, Ask(q) PROVE Types'
  <2>1. client.asked \in Nat /\ refresh.indexed \in ProjectOrNone
    BY <1>0 DEF Client, RefreshState
  <2>2. q.topic \in BOOLEAN /\ q.search \in BOOLEAN
    BY QuestionsAssumption
  <2>3. client' \in Client
    BY <1>0, <1>7, <2>1, <2>2 DEF Ask, Client
  <2>4. QED
    BY <1>0, <1>7, <2>3 DEF Ask, Types
<1>8. CASE PageOfCapabilities
  <2> DEFINE found == MatchingCapabilities(client)
             page == [count |-> Len(found), rows |-> Page(found, client.cursor.capabilities)]
  <2>1. found \in Seq(Range(Capabilities)) /\ client.cursor.capabilities \in Nat
    BY <1>0, MatchingFacts DEF Client
  <2> HIDE DEF found
  <2>2. page \in [count : Nat, rows : Seq(Range(Capabilities))]
    BY <2>1, PageFacts
  <2>3. client' = [client EXCEPT !.pc = "skills", !.page = page]
    BY <1>8 DEF PageOfCapabilities, found
  <2> HIDE DEF page
  <2>4. client' \in Client
    BY <1>0, <2>2, <2>3 DEF Client
  <2>5. QED
    BY <1>0, <1>8, <2>4 DEF PageOfCapabilities, Types
<1>9. CASE PageOfSkills
  <2> DEFINE found == MatchingSkills(client)
             next == NextCursor(found)
             more == HasMore(found, next)
             page == Page(found, client.cursor.skills)
  <2>1. /\ found \in Seq(Range(Skills)) /\ client.cursor.skills \in Nat /\ client.cursor.capabilities \in Nat
        /\ client.page.count \in Nat /\ client.page.rows \in Seq(Range(Capabilities))
        /\ client.skills \in Seq(Range(Skills)) /\ client.capabilities \in Seq(Range(Capabilities))
    BY <1>0, MatchingFacts DEF Client
  <2> HIDE DEF found
  <2>2. page \in Seq(Range(Skills)) /\ Len(found) \in Nat /\ Len(client.page.rows) \in Nat
    BY <2>1, PageFacts
  <2>3. next \in [skills : Nat, capabilities : Nat]
    <3>1. Least(client.cursor.skills, Len(found)) \in Nat /\ Least(client.cursor.capabilities, client.page.count) \in Nat
      BY <2>1, <2>2 DEF Least
    <3>2. Upto(Len(found), Least(client.cursor.skills, Len(found))) \in Nat
      BY <2>2, <3>1, LimitAssumption DEF Upto
    <3>3. QED
      BY <2>2, <3>1, <3>2 DEF NextCursor
  <2>4. client' = [client EXCEPT !.pc = IF more THEN "capabilities" ELSE "done", !.cursor = next,
                                 !.page = [count |-> 0, rows |-> <<>>], !.skills = @ \o page,
                                 !.capabilities = @ \o client.page.rows]
    BY <1>9 DEF PageOfSkills, found
  <2>5. [count |-> 0, rows |-> <<>>] \in [count : Nat, rows : Seq(Range(Capabilities))]
    OBVIOUS
  <2> HIDE DEF next, page, more
  <2>6. client.skills \o page \in Seq(Range(Skills)) /\ client.capabilities \o client.page.rows \in Seq(Range(Capabilities))
    BY <2>1, <2>2
  <2>7. client' \in Client
    BY <1>0, <2>3, <2>4, <2>5, <2>6 DEF Client
  <2>8. QED
    BY <1>0, <1>9, <2>7 DEF PageOfSkills, Types
<1>10. CASE UNCHANGED discoveryVars
  BY <1>0, <1>10 DEF discoveryVars, Types
<1>11. QED
  BY <1>1, <1>2, <1>3, <1>4, <1>5, <1>6, <1>7, <1>8, <1>9, <1>10
     DEF DiscoveryNext, Refresh, Question, AnswerPage

LEMMA RefreshInit == DiscoveryInit => RefreshInv /\ SourceInv
<1> SUFFICES ASSUME DiscoveryInit PROVE RefreshInv /\ SourceInv
  OBVIOUS
<1>1. DOMAIN <<>> = {}
  OBVIOUS
<1>2. index.skills = <<>> /\ index.capabilities = <<>> /\ refresh.pc = "idle" /\ refresh.indexed = NoProject
  BY DEF DiscoveryInit, Nothing
<1>3. QED
  BY <1>1, <1>2 DEF RefreshInv, SourceInv

(* Refresh (refresh.go:43-230) brings the index step by step to what it linked. *)
LEMMA RefreshStep == Types /\ RefreshInv /\ [DiscoveryNext]_discoveryVars => RefreshInv'
<1> SUFFICES ASSUME Types, RefreshInv, [DiscoveryNext]_discoveryVars PROVE RefreshInv'
  OBVIOUS
<1>0. /\ refresh \in RefreshState /\ project \in Projects
      /\ index = [skills |-> index.skills, capabilities |-> index.capabilities]
  BY DEF Types
<1>1. ASSUME UNCHANGED <<index, refresh, seen>> PROVE RefreshInv'
  BY <1>1 DEF RefreshInv, Complete
<1>2. CASE Scan
  <2>1. /\ refresh'.pc = "scanned" /\ refresh'.of = project /\ refresh'.skills = Link(project)
        /\ refresh'.capabilities = CapabilityRecords(project) /\ refresh'.indexed = refresh.indexed
        /\ index' = index
    BY <1>0, <1>2 DEF Scan, RefreshState
  <2>2. Complete(refresh.indexed)' = Complete(refresh.indexed)
    BY <2>1 DEF Complete
  <2>3. QED
    BY <1>0, <2>1, <2>2 DEF RefreshInv
<1>3. CASE Clear
  <2>1. /\ refresh.pc = "scanned" /\ refresh'.pc = "filling" /\ refresh'.of = refresh.of /\ refresh'.indexed = NoProject
        /\ refresh'.skills = refresh.skills /\ refresh'.capabilities = refresh.capabilities
        /\ index'.skills = <<>> /\ index'.capabilities = <<>> /\ refresh.of \in seen'
    BY <1>0, <1>3 DEF Clear, RefreshState, Nothing
  <2>2. /\ refresh.of \in Projects /\ refresh.skills = Link(refresh.of)
        /\ refresh.capabilities = CapabilityRecords(refresh.of)
    BY <2>1 DEF RefreshInv
  <2>3. /\ SkillsOnTheWay(<<>>, refresh.skills, refresh.of)
        /\ CapabilitiesOnTheWay(<<>>, refresh.capabilities, refresh.of)
    BY <2>2, LinkFacts, RecordsFacts
  <2>4. QED
    BY <2>1, <2>2, <2>3 DEF RefreshInv
<1>4. CASE InsertSkill
  <2> DEFINE rem == refresh.skills
             h == Head(rem)
             g == Put(index.skills, h.skill, h.scopes)
  <2>1. /\ refresh.pc = "filling" /\ refresh'.pc = "filling" /\ refresh'.of = refresh.of
        /\ refresh'.indexed = refresh.indexed /\ rem # <<>> /\ rem \in Seq(SkillRecord)
        /\ refresh'.skills = Tail(rem) /\ refresh'.capabilities = refresh.capabilities /\ seen' = seen
        /\ index' = [index EXCEPT !.skills = g]
    BY <1>0, <1>4 DEF InsertSkill, RefreshState
  <2>2. /\ refresh.of \in Projects /\ refresh.of \in seen /\ refresh.indexed = NoProject
        /\ SkillsOnTheWay(index.skills, rem, refresh.of)
        /\ CapabilitiesOnTheWay(index.capabilities, refresh.capabilities, refresh.of)
    BY <2>1 DEF RefreshInv
  <2>3. SkillsOnTheWay(g, Tail(rem), refresh.of)
    BY <2>1, <2>2, SkillPut
  <2> HIDE DEF g
  <2>4. index'.skills = g /\ index'.capabilities = index.capabilities
    BY <1>0, <2>1
  <2>5. QED
    BY <2>1, <2>2, <2>3, <2>4 DEF RefreshInv
<1>5. CASE InsertCapability
  <2> DEFINE rem == refresh.capabilities
             h == Head(rem)
             g == Put(index.capabilities, h.capability, h.scopes)
  <2>1. /\ refresh.pc = "filling" /\ refresh'.pc = "filling" /\ refresh'.of = refresh.of
        /\ refresh'.indexed = refresh.indexed /\ rem # <<>> /\ rem \in Seq(BindingRecord)
        /\ refresh'.capabilities = Tail(rem) /\ refresh'.skills = refresh.skills /\ seen' = seen
        /\ index' = [index EXCEPT !.capabilities = g]
    BY <1>0, <1>5 DEF InsertCapability, RefreshState
  <2>2. /\ refresh.of \in Projects /\ refresh.of \in seen /\ refresh.indexed = NoProject
        /\ SkillsOnTheWay(index.skills, refresh.skills, refresh.of)
        /\ CapabilitiesOnTheWay(index.capabilities, rem, refresh.of)
    BY <2>1 DEF RefreshInv
  <2>3. CapabilitiesOnTheWay(g, Tail(rem), refresh.of)
    BY <2>1, <2>2, CapabilityPut
  <2> HIDE DEF g
  <2>4. index'.capabilities = g /\ index'.skills = index.skills
    BY <1>0, <2>1
  <2>5. QED
    BY <2>1, <2>2, <2>3, <2>4 DEF RefreshInv
<1>6. CASE Refreshed
  <2>1. /\ refresh.pc = "filling" /\ refresh.skills = <<>> /\ refresh.capabilities = <<>>
        /\ refresh'.pc = "idle" /\ refresh'.indexed = refresh.of /\ index' = index
    BY <1>0, <1>6 DEF Refreshed, RefreshState
  <2>2. Complete(refresh.of)
    BY <2>1 DEF RefreshInv, Complete
  <2>3. Complete(refresh.indexed)'
    BY <2>1, <2>2 DEF Complete
  <2>4. QED
    BY <2>1, <2>3 DEF RefreshInv
<1>7. ASSUME NEW q \in Questions, Ask(q) PROVE RefreshInv'
  BY <1>1, <1>7 DEF Ask
<1>8. QED
  BY <1>1, <1>2, <1>3, <1>4, <1>5, <1>6, <1>7
     DEF DiscoveryNext, Refresh, Question, AnswerPage, Edit, PageOfCapabilities, PageOfSkills, discoveryVars

(* Whatever is indexed comes of a project the index was built from. *)
LEMMA SourceStep == Types /\ RefreshInv /\ SourceInv /\ [DiscoveryNext]_discoveryVars => SourceInv'
<1> SUFFICES ASSUME Types, RefreshInv, SourceInv, [DiscoveryNext]_discoveryVars PROVE SourceInv'
  OBVIOUS
<1>0. /\ refresh \in RefreshState
      /\ index = [skills |-> index.skills, capabilities |-> index.capabilities]
      /\ DOMAIN index.capabilities \subseteq Range(Capabilities)
  BY DEF Types
<1>1. ASSUME UNCHANGED <<index, seen>> PROVE SourceInv'
  BY <1>1 DEF SourceInv
<1>2. CASE Clear
  <2>1. index'.skills = <<>> /\ index'.capabilities = <<>>
    BY <1>2 DEF Clear, Nothing
  <2>2. DOMAIN <<>> = {}
    OBVIOUS
  <2>3. QED
    BY <2>1, <2>2 DEF SourceInv
<1>3. CASE InsertSkill
  <2> DEFINE rem == refresh.skills
             h == Head(rem)
             g == Put(index.skills, h.skill, h.scopes)
  <2>1. /\ refresh.pc = "filling" /\ rem # <<>> /\ rem \in Seq(SkillRecord) /\ seen' = seen
        /\ index' = [index EXCEPT !.skills = g]
    BY <1>0, <1>3 DEF InsertSkill, RefreshState
  <2>2. refresh.of \in seen /\ SkillsOnTheWay(index.skills, rem, refresh.of)
    BY <2>1 DEF RefreshInv
  <2>3. h = rem[1] /\ 1 \in DOMAIN rem
    BY <2>1
  <2>4. SaidOf(refresh.of, h.skill, h.scopes)
    BY <2>2, <2>3 DEF SkillsOnTheWay
  <2> HIDE DEF h
  <2>5. DOMAIN g = DOMAIN index.skills \cup {h.skill} /\ \A k \in DOMAIN g : g[k] = IF k = h.skill THEN h.scopes ELSE index.skills[k]
    BY DEF Put
  <2> HIDE DEF g
  <2>6. index'.skills = g /\ index'.capabilities = index.capabilities
    BY <1>0, <2>1
  <2>7. ASSUME NEW k \in DOMAIN g PROVE \E p \in seen : SaidOf(p, k, g[k])
    <3>1. CASE k = h.skill
      BY <2>2, <2>4, <2>5, <3>1
    <3>2. CASE k # h.skill
      BY <2>5, <3>2 DEF SourceInv
    <3>3. QED
      BY <3>1, <3>2
  <2>8. QED
    BY <2>1, <2>6, <2>7 DEF SourceInv
<1>4. CASE InsertCapability
  <2> DEFINE rem == refresh.capabilities
             h == Head(rem)
             g == Put(index.capabilities, h.capability, h.scopes)
  <2>1. /\ refresh.pc = "filling" /\ rem # <<>> /\ rem \in Seq(BindingRecord) /\ seen' = seen
        /\ index' = [index EXCEPT !.capabilities = g]
    BY <1>0, <1>4 DEF InsertCapability, RefreshState
  <2>2. refresh.of \in seen /\ CapabilitiesOnTheWay(index.capabilities, rem, refresh.of)
    BY <2>1 DEF RefreshInv
  <2>3. h = rem[1] /\ 1 \in DOMAIN rem
    BY <2>1
  <2>4. h.scopes = CapabilityScopes(refresh.of, h.capability) /\ h.capability \in KnownCapabilities(refresh.of)
    BY <2>2, <2>3 DEF CapabilitiesOnTheWay, Bindings
  <2> HIDE DEF h
  <2>5. /\ DOMAIN g = DOMAIN index.capabilities \cup {h.capability}
        /\ \A c \in DOMAIN g : g[c] = IF c = h.capability THEN h.scopes ELSE index.capabilities[c]
    BY DEF Put
  <2> HIDE DEF g
  <2>6. index'.capabilities = g /\ index'.skills = index.skills
    BY <1>0, <2>1
  <2>7. ASSUME NEW c \in DOMAIN g
        PROVE \E p \in seen : c \in KnownCapabilities(p) /\ g[c] = CapabilityScopes(p, c)
    <3>1. CASE c = h.capability
      BY <2>2, <2>4, <2>5, <3>1
    <3>2. CASE c # h.capability
      BY <2>5, <3>2 DEF SourceInv
    <3>3. QED
      BY <3>1, <3>2
  <2>8. QED
    BY <2>1, <2>6, <2>7 DEF SourceInv
<1>5. ASSUME NEW q \in Questions, Ask(q) PROVE SourceInv'
  BY <1>1, <1>5 DEF Ask
<1>6. QED
  BY <1>1, <1>2, <1>3, <1>4, <1>5
     DEF DiscoveryNext, Refresh, Question, AnswerPage, Edit, Scan, Refreshed, PageOfCapabilities,
         PageOfSkills, discoveryVars

(* The answer depends on what is asked and on the index alone. *)
LEMMA SameAnswer ==
  ASSUME UNCHANGED index, client'.path = client.path, client'.topic = client.topic,
         client'.search = client.search
  PROVE  /\ MatchingSkills(client)' = MatchingSkills(client)
         /\ MatchingCapabilities(client)' = MatchingCapabilities(client)
<1>1. MatchingSkills(client)' = MatchingSkills(client)
  BY DEF MatchingSkills, InScope
<1>2. MatchingCapabilities(client)' = MatchingCapabilities(client)
  BY DEF MatchingCapabilities
<1>3. QED
  BY <1>1, <1>2

LEMMA ClientInit == DiscoveryInit => ClientInv /\ ListedInv /\ CursorInv
<1> SUFFICES ASSUME DiscoveryInit PROVE ClientInv /\ ListedInv /\ CursorInv
  OBVIOUS
<1>1. /\ client.pc = "idle" /\ client.epoch = 0 /\ client.of = NoProject /\ epoch = 0
      /\ client.path = NoPath /\ client.cursor = [skills |-> 0, capabilities |-> 0]
      /\ client.page = [count |-> 0, rows |-> <<>>]
  BY DEF DiscoveryInit
<1>2. Len(Skills) \in Nat /\ Len(Capabilities) \in Nat /\ Len(<<>>) = 0
  BY Facts
<1>3. ClientInv
  BY <1>1 DEF ClientInv, Steady
<1>4. ListedInv
  BY <1>1 DEF ListedInv
<1>5. CursorInv
  BY <1>1, <1>2 DEF CursorInv, Least
<1>6. QED
  BY <1>3, <1>4, <1>5

LEMMA AnswersAreLists ==
  /\ MatchingSkills(client) \in Seq(Range(Skills))
  /\ MatchingCapabilities(client) \in Seq(Range(Capabilities))
BY MatchingFacts

(* A request that found what the one before it found goes on where that ended. *)
LEMMA NextPages ==
  ASSUME Types, Steady, ListedSoFar, client.pc = "skills"
  PROVE  LET ks == MatchingSkills(client)
             cs == MatchingCapabilities(client)
             next == NextCursor(ks)
         IN /\ next.skills \in Nat /\ next.capabilities \in Nat
            /\ next.skills <= Len(ks) /\ next.capabilities <= Len(cs)
            /\ client.skills \o Page(ks, client.cursor.skills) = SubSeq(ks, 1, next.skills)
            /\ client.capabilities \o client.page.rows = SubSeq(cs, 1, next.capabilities)
            /\ ~HasMore(ks, next) =>
                 next.skills = Len(ks) /\ next.capabilities = Len(cs)
<1> DEFINE S == MatchingSkills(client)
           C == MatchingCapabilities(client)
           i == client.cursor.skills
           j == client.cursor.capabilities
           m == Len(S)
           n == Len(C)
           next == NextCursor(S)
<1>1. i \in Nat /\ j \in Nat /\ S \in Seq(Range(Skills)) /\ C \in Seq(Range(Capabilities))
  BY MatchingFacts DEF Types, Client
<1>2. i <= m /\ j <= n /\ client.page.count = n /\ client.page.rows = Page(C, j)
  BY DEF ListedSoFar
<1>3. client.skills = SubSeq(S, 1, i) /\ client.capabilities = SubSeq(C, 1, j)
  BY DEF ListedSoFar
<1>4. m \in Nat /\ n \in Nat
  BY <1>1
<1> HIDE DEF i, j, m, n, S, C
<1>5. /\ Upto(m, i) \in Nat /\ Upto(m, i) <= m /\ i <= Upto(m, i)
      /\ SubSeq(S, 1, i) \o Page(S, i) = SubSeq(S, 1, Upto(m, i))
  BY <1>1, <1>2, PageFacts DEF m
<1>6. /\ Upto(n, j) \in Nat /\ Upto(n, j) <= n /\ j <= Upto(n, j) /\ Len(Page(C, j)) = Upto(n, j) - j
      /\ SubSeq(C, 1, j) \o Page(C, j) = SubSeq(C, 1, Upto(n, j))
  BY <1>1, <1>2, PageFacts DEF n
<1>7. Least(i, m) = i /\ Least(j, n) = j
  BY <1>1, <1>2, <1>4 DEF Least
<1>8. next.skills = Upto(m, i)
  BY <1>7 DEF NextCursor, i, m
<1>9. next.capabilities = j + Len(Page(C, j))
  BY <1>2, <1>7 DEF NextCursor, j
<1>10. next.capabilities = Upto(n, j)
  BY <1>1, <1>6, <1>9
<1>11. HasMore(S, next) <=> next.skills < m \/ next.capabilities < n
  BY <1>2 DEF HasMore, m
<1> HIDE DEF next
<1>12. ~HasMore(S, next) => next.skills = m /\ next.capabilities = n
  BY <1>4, <1>5, <1>6, <1>8, <1>10, <1>11
<1>13. client.skills \o Page(S, i) = SubSeq(S, 1, next.skills)
  BY <1>3, <1>5, <1>8
<1>14. client.capabilities \o client.page.rows = SubSeq(C, 1, next.capabilities)
  BY <1>2, <1>3, <1>6, <1>10
<1>15. QED
  BY <1>5, <1>6, <1>8, <1>10, <1>12, <1>13, <1>14 DEF next, S, C, i, m, n

(* The client's listing is a prefix of the answer while the index stays.    *)
LEMMA ClientStep == Types /\ RefreshInv /\ ClientInv /\ [DiscoveryNext]_discoveryVars => ClientInv'
<1> SUFFICES ASSUME Types, RefreshInv, ClientInv, [DiscoveryNext]_discoveryVars PROVE ClientInv'
  OBVIOUS
<1>0. refresh \in RefreshState /\ client \in Client /\ epoch \in Nat /\ client.epoch \in Nat
  BY DEF Types, Client
<1>1. ASSUME UNCHANGED <<index, client, epoch>>, refresh'.indexed = refresh.indexed PROVE ClientInv'
  <2>1. /\ MatchingSkills(client)' = MatchingSkills(client)
        /\ MatchingCapabilities(client)' = MatchingCapabilities(client)
    BY <1>1, SameAnswer
  <2>2. Steady' = Steady /\ (Steady => (ListedSoFar' <=> ListedSoFar))
    BY <1>1, <2>1 DEF Steady, ListedSoFar, Page, Upto
  <2>3. QED
    BY <1>1, <2>1, <2>2 DEF ClientInv
<1>2. CASE Clear
  <2>1. epoch' = epoch + 1 /\ client' = client
    BY <1>2 DEF Clear
  <2>2. client'.epoch <= epoch' /\ client'.epoch # epoch'
    BY <1>0, <2>1 DEF ClientInv
  <2>3. QED
    BY <2>2 DEF ClientInv, Steady
(* The index is filled for the one who refreshes, and for no listing begun before. *)
<1>3. ASSUME refresh.pc = "filling", UNCHANGED <<client, epoch>> PROVE ClientInv'
  <2>1. refresh.indexed = NoProject
    BY <1>3 DEF RefreshInv
  <2>2. ~Steady
    BY <2>1 DEF ClientInv, Steady
  <2>3. ~Steady'
    BY <1>3, <2>2 DEF Steady
  <2>4. QED
    BY <1>3, <2>3 DEF ClientInv
<1>4. ASSUME NEW q \in Questions, Ask(q) PROVE ClientInv'
  <2>1. /\ client'.pc = "capabilities" /\ client'.epoch = epoch /\ client'.of = refresh.indexed
        /\ client'.cursor.skills = 0 /\ client'.cursor.capabilities = 0
        /\ client'.skills = <<>> /\ client'.capabilities = <<>>
        /\ epoch' = epoch /\ refresh' = refresh
    BY <1>4 DEF Ask
  <2>2. ListedSoFar'
    <3>1. (MatchingSkills(client) \in Seq(Range(Skills)) /\ MatchingCapabilities(client) \in Seq(Range(Capabilities)))'
      BY AnswersAreLists, PTL
    <3> DEFINE S == MatchingSkills(client)'
               C == MatchingCapabilities(client)'
    <3> HIDE DEF S, C
    <3>2. SubSeq(S, 1, 0) = <<>> /\ SubSeq(C, 1, 0) = <<>>
      BY SubSeqEmpty
    <3>3. 0 <= Len(S) /\ 0 <= Len(C)
      BY <3>1 DEF S, C
    <3>4. QED
      BY <2>1, <3>2, <3>3 DEF ListedSoFar, S, C
  <2>3. QED
    BY <1>0, <2>1, <2>2 DEF ClientInv
<1>5. CASE PageOfCapabilities
  <2> DEFINE C == MatchingCapabilities(client)
             page == [count |-> Len(C), rows |-> Page(C, client.cursor.capabilities)]
  <2>1. /\ client.pc = "capabilities" /\ UNCHANGED <<index, refresh, epoch>>
        /\ client' = [client EXCEPT !.pc = "skills", !.page = page]
    BY <1>5 DEF PageOfCapabilities
  <2> HIDE DEF page
  <2>2. /\ client'.pc = "skills" /\ client'.page = page /\ client'.cursor = client.cursor
        /\ client'.skills = client.skills /\ client'.capabilities = client.capabilities
        /\ client'.epoch = client.epoch /\ client'.of = client.of /\ client'.path = client.path
        /\ client'.topic = client.topic /\ client'.search = client.search
    BY <1>0, <2>1 DEF Client
  <2>3. /\ MatchingSkills(client)' = MatchingSkills(client)
        /\ MatchingCapabilities(client)' = C
    BY <2>1, <2>2, SameAnswer
  <2>4. Steady' <=> Steady
    BY <2>1, <2>2 DEF Steady
  <2>5. ListedSoFar => ListedSoFar'
    BY <2>1, <2>2, <2>3 DEF ListedSoFar, page, Page, Upto
  <2>6. QED
    BY <2>1, <2>2, <2>4, <2>5 DEF ClientInv
<1>6. CASE PageOfSkills
  <2> DEFINE S == MatchingSkills(client)
             C == MatchingCapabilities(client)
             next == NextCursor(S)
             more == HasMore(S, next)
             ks == client.skills \o Page(S, client.cursor.skills)
             cs == client.capabilities \o client.page.rows
             none == [count |-> 0, rows |-> <<>>]
  <2>1. /\ client.pc = "skills" /\ UNCHANGED <<index, refresh, epoch>>
        /\ client' = [client EXCEPT !.pc = IF more THEN "capabilities" ELSE "done", !.cursor = next,
                                    !.page = none, !.skills = ks, !.capabilities = cs]
    BY <1>6 DEF PageOfSkills
  <2> HIDE DEF next, more, ks, cs, none
  <2>2. /\ client'.pc = (IF more THEN "capabilities" ELSE "done") /\ client'.cursor = next
        /\ client'.skills = ks /\ client'.capabilities = cs
        /\ client'.epoch = client.epoch /\ client'.of = client.of /\ client'.path = client.path
        /\ client'.topic = client.topic /\ client'.search = client.search
    BY <1>0, <2>1 DEF Client
  <2>3. MatchingSkills(client)' = S /\ MatchingCapabilities(client)' = C
    BY <2>1, <2>2, SameAnswer
  <2>4. Steady' <=> Steady
    BY <2>1, <2>2 DEF Steady
  <2>5. ASSUME Steady
        PROVE /\ next.skills <= Len(S) /\ next.capabilities <= Len(C)
              /\ ks = SubSeq(S, 1, next.skills) /\ cs = SubSeq(C, 1, next.capabilities)
              /\ ~more => next.skills = Len(S) /\ next.capabilities = Len(C)
    <3>1. ListedSoFar
      BY <2>1, <2>5 DEF ClientInv
    <3>2. QED
      BY <2>1, <2>5, <3>1, NextPages DEF next, more, ks, cs
  <2>6. S \in Seq(Range(Skills)) /\ C \in Seq(Range(Capabilities))
    BY MatchingFacts
  <2> HIDE DEF S, C
  <2>7. ASSUME Steady, more PROVE ListedSoFar'
    BY <2>2, <2>3, <2>5, <2>7 DEF ListedSoFar
  <2>8. ASSUME Steady, ~more PROVE ks = S /\ cs = C
    <3>1. ks = SubSeq(S, 1, Len(S)) /\ cs = SubSeq(C, 1, Len(C))
      BY <2>5, <2>8
    <3>2. QED
      BY <2>6, <3>1, SubSeqFull
  <2>9. QED
    BY <1>0, <2>1, <2>2, <2>3, <2>4, <2>7, <2>8 DEF ClientInv
<1>7. CASE Edit
  BY <1>1, <1>7 DEF Edit
<1>8. CASE Scan
  BY <1>0, <1>1, <1>8 DEF Scan, RefreshState
<1>9. CASE InsertSkill \/ InsertCapability \/ Refreshed
  BY <1>3, <1>9 DEF InsertSkill, InsertCapability, Refreshed
<1>10. CASE UNCHANGED discoveryVars
  BY <1>1, <1>10 DEF discoveryVars
<1>11. QED
  BY <1>2, <1>4, <1>5, <1>6, <1>7, <1>8, <1>9, <1>10 DEF DiscoveryNext, Refresh, Question, AnswerPage

(* Cursors do not run past what there may be (query.go:298-327).            *)
LEMMA CursorStep == Types /\ CursorInv /\ [DiscoveryNext]_discoveryVars => CursorInv'
<1> SUFFICES ASSUME Types, CursorInv, [DiscoveryNext]_discoveryVars PROVE CursorInv'
  OBVIOUS
<1>0. /\ client \in Client /\ client.cursor.skills \in Nat /\ client.cursor.capabilities \in Nat
      /\ client.page.count \in Nat /\ client.page.rows \in Seq(Range(Capabilities))
      /\ Len(client.page.rows) \in Nat
  BY DEF Types, Client
<1>1. Len(Skills) \in Nat /\ Len(Capabilities) \in Nat /\ Len(<<>>) = 0
  BY Facts
<1>2. ASSUME UNCHANGED client PROVE CursorInv'
  BY <1>2 DEF CursorInv, Least
<1>3. ASSUME NEW q \in Questions, Ask(q) PROVE CursorInv'
  <2>1. /\ client'.cursor.skills = 0 /\ client'.cursor.capabilities = 0
        /\ client'.page.count = 0 /\ client'.page.rows = <<>>
    BY <1>3 DEF Ask
  <2>2. QED
    BY <1>1, <2>1 DEF CursorInv, Least
<1>4. CASE PageOfCapabilities
  <2> DEFINE C == MatchingCapabilities(client)
             j == client.cursor.capabilities
             n == Len(C)
             rows == Page(C, j)
  <2>1. C \in Seq(Range(Capabilities)) /\ n \in Nat /\ n <= Len(Capabilities)
    BY MatchingFacts
  <2>2. /\ client'.cursor = client.cursor /\ client'.page.count = n /\ client'.page.rows = rows
    BY <1>0, <1>4 DEF PageOfCapabilities, Client
  <2>3. /\ Upto(n, j) \in Nat /\ Upto(n, j) <= n
        /\ j <= n => j <= Upto(n, j) /\ Len(rows) = Upto(n, j) - j
        /\ j > n => Len(rows) = 0
    BY <1>0, <2>1, PageFacts
  <2>4. j \in Nat
    BY <1>0
  <2> HIDE DEF C, n, rows, j
  <2>5. Least(j, n) + Len(rows) <= Len(Capabilities)
    <3>1. CASE j <= n
      BY <1>1, <2>1, <2>3, <2>4, <3>1 DEF Least
    <3>2. CASE j > n
      BY <1>1, <2>1, <2>3, <2>4, <3>2 DEF Least
    <3>3. QED
      BY <2>1, <2>4, <3>1, <3>2
  <2>6. QED
    BY <2>2, <2>5 DEF CursorInv, j
<1>5. CASE PageOfSkills
  <2> DEFINE S == MatchingSkills(client)
             next == NextCursor(S)
             m == Len(S)
             i == Least(client.cursor.skills, m)
  <2>1. S \in Seq(Range(Skills)) /\ m \in Nat /\ m <= Len(Skills)
    BY MatchingFacts
  <2>2. i \in Nat
    BY <1>0, <2>1 DEF Least
  <2>3. Upto(m, i) \in Nat /\ Upto(m, i) <= m
    BY <2>1, <2>2, PageFacts
  <2>4. /\ next.skills = Upto(m, i)
        /\ next.capabilities = Least(client.cursor.capabilities, client.page.count) + Len(client.page.rows)
    BY DEF NextCursor
  <2>5. client'.cursor = next /\ client'.page = [count |-> 0, rows |-> <<>>]
    BY <1>0, <1>5 DEF PageOfSkills, Client
  <2> HIDE DEF S, m, i, next
  <2>6. next.skills <= Len(Skills) /\ next.capabilities <= Len(Capabilities) /\ next.capabilities \in Nat
    <3>1. Least(client.cursor.capabilities, client.page.count) \in Nat
      BY <1>0 DEF Least
    <3>2. QED
      BY <1>0, <1>1, <2>1, <2>3, <2>4, <3>1 DEF CursorInv
  <2>7. Least(next.capabilities, 0) + Len(<<>>) <= Len(Capabilities)
    BY <1>1, <2>6 DEF Least
  <2>8. QED
    BY <2>5, <2>6, <2>7 DEF CursorInv
<1>6. QED
  BY <1>2, <1>3, <1>4, <1>5
     DEF DiscoveryNext, Refresh, Question, AnswerPage, Edit, Scan, Clear, InsertSkill, InsertCapability,
         Refreshed, discoveryVars

(* What linking says of a skill or of a capability, applied to the question. *)
LEMMA AnswersApply ==
  ASSUME ScopesMean, Types, SourceInv, IsAsked(client), client.path # NoPath
  PROVE  /\ SkillsApply(Range(MatchingSkills(client)))
         /\ CapabilitiesApply(Range(MatchingCapabilities(client)))
<1>1. PICK q \in Questions : client.path = q.path /\ client.topic = q.topic /\ client.search = q.search
  BY DEF IsAsked
<1>2. /\ seen \subseteq Projects /\ DOMAIN index.skills \subseteq Range(Skills)
      /\ DOMAIN index.capabilities \subseteq Range(Capabilities)
  BY DEF Types
<1>3. ASSUME NEW k \in Range(MatchingSkills(client)) PROVE \E p \in seen : SkillApplies(p, k, client.path)
  <2>1. k \in DOMAIN index.skills /\ InScope(client, index.skills[k])
    BY <1>3, MatchingFacts
  <2>2. InScope(q, index.skills[k])
    BY <1>1, <2>1 DEF InScope
  <2>3. PICK p \in seen : SaidOf(p, k, index.skills[k])
    BY <2>1 DEF SourceInv
  <2>4. SkillApplies(p, k, q.path)
    BY <1>1, <1>2, <2>1, <2>2, <2>3 DEF SaidOf, ScopesMean
  <2>5. QED
    BY <1>1, <2>4
<1>4. ASSUME NEW c \in Range(MatchingCapabilities(client)) PROVE \E p \in seen : CapabilityApplies(p, c, client.path)
  <2>1. c \in DOMAIN index.capabilities /\ BoundTo(index.capabilities[c], client.path)
    BY <1>4, MatchingFacts
  <2>2. PICK p \in seen : c \in KnownCapabilities(p) /\ index.capabilities[c] = CapabilityScopes(p, c)
    BY <2>1 DEF SourceInv
  <2>3. CapabilityApplies(p, c, q.path)
    BY <1>1, <1>2, <2>1, <2>2 DEF ScopesMean
  <2>4. QED
    BY <1>1, <2>3
<1>5. QED
  BY <1>3, <1>4 DEF SkillsApply, CapabilitiesApply

(* A page adds only what applies.                                            *)
LEMMA ListedStep ==
  ASSUME ScopesMean
  PROVE  Types /\ SourceInv /\ ListedInv /\ [DiscoveryNext]_discoveryVars => ListedInv'
<1> SUFFICES ASSUME Types, SourceInv, ListedInv, [DiscoveryNext]_discoveryVars PROVE ListedInv'
  OBVIOUS
<1>0. /\ client \in Client /\ client.cursor.skills \in Nat /\ client.cursor.capabilities \in Nat
      /\ client.page.rows \in Seq(Range(Capabilities))
      /\ client.skills \in Seq(Range(Skills)) /\ client.capabilities \in Seq(Range(Capabilities))
  BY DEF Types, Client
<1>1. ASSUME UNCHANGED client, seen \subseteq seen' PROVE ListedInv'
  BY <1>1 DEF ListedInv, SkillsApply, CapabilitiesApply, IsAsked
<1>2. Range(<<>>) = {}
  BY DEF Range
<1>3. ASSUME NEW q \in Questions, Ask(q) PROVE ListedInv'
  <2>1. /\ client'.pc = "capabilities" /\ client'.path = q.path /\ client'.topic = q.topic
        /\ client'.search = q.search /\ client'.skills = <<>> /\ client'.capabilities = <<>>
        /\ client'.page.rows = <<>>
    BY <1>3 DEF Ask
  <2>2. IsAsked(client)'
    BY <2>1 DEF IsAsked
  <2>3. QED
    BY <1>2, <2>1, <2>2 DEF ListedInv, SkillsApply, CapabilitiesApply
<1>4. CASE PageOfCapabilities
  <2> DEFINE C == MatchingCapabilities(client)
             rows == Page(C, client.cursor.capabilities)
  <2>1. /\ client.pc = "capabilities" /\ seen' = seen /\ client'.path = client.path /\ client'.topic = client.topic
        /\ client'.search = client.search /\ client'.skills = client.skills
        /\ client'.capabilities = client.capabilities /\ client'.page.rows = rows
    BY <1>0, <1>4 DEF PageOfCapabilities, Client
  <2>2. Range(rows) \subseteq Range(C)
    BY <1>0, MatchingFacts, PageFacts
  <2> HIDE DEF rows, C
  <2>3. IsAsked(client)
    BY <2>1 DEF ListedInv
  <2>4. IsAsked(client)'
    BY <2>1, <2>3 DEF IsAsked
  <2>5. ASSUME client.path # NoPath PROVE CapabilitiesApply(Range(rows))
    BY <2>2, <2>3, <2>5, AnswersApply DEF CapabilitiesApply, C
  <2>6. QED
    BY <2>1, <2>4, <2>5 DEF ListedInv, SkillsApply, CapabilitiesApply
<1>5. CASE PageOfSkills
  <2> DEFINE S == MatchingSkills(client)
             page == Page(S, client.cursor.skills)
             ks == client.skills \o page
             cs == client.capabilities \o client.page.rows
  <2>1. /\ client.pc = "skills" /\ seen' = seen /\ client'.path = client.path /\ client'.topic = client.topic
        /\ client'.search = client.search /\ client'.skills = ks
        /\ client'.capabilities = cs /\ client'.page.rows = <<>>
    BY <1>0, <1>5 DEF PageOfSkills, Client
  <2>2. page \in Seq(Range(Skills)) /\ Range(page) \subseteq Range(S)
    BY <1>0, MatchingFacts, PageFacts
  <2> HIDE DEF page, S
  <2>3. IsAsked(client)
    BY <2>1 DEF ListedInv
  <2>4. IsAsked(client)'
    BY <2>1, <2>3 DEF IsAsked
  <2>5. Range(ks) \subseteq Range(client.skills) \cup Range(page)
    BY <1>0, <2>2, RangeConcatenation, Zenon
  <2>6. Range(cs) \subseteq Range(client.capabilities) \cup Range(client.page.rows)
    BY <1>0, RangeConcatenation, Zenon
  <2> HIDE DEF ks, cs
  <2>7. ASSUME client.path # NoPath
        PROVE SkillsApply(Range(ks)) /\ CapabilitiesApply(Range(cs))
    <3>1. SkillsApply(Range(page))
      BY <2>2, <2>3, <2>7, AnswersApply DEF SkillsApply, S
    <3>2. QED
      BY <2>5, <2>6, <2>7, <3>1 DEF ListedInv, SkillsApply, CapabilitiesApply
  <2>8. QED
    BY <1>2, <2>1, <2>4, <2>7 DEF ListedInv, SkillsApply, CapabilitiesApply
<1>6. QED
  BY <1>1, <1>3, <1>4, <1>5
     DEF DiscoveryNext, Refresh, Question, AnswerPage, Edit, Scan, Clear, InsertSkill, InsertCapability,
         Refreshed, discoveryVars

(* The hypothesis of both is about constants alone: what linking makes of a *)
(* project means the same to the matchers (ScopesMean).                     *)
LEMMA ExactAtTheEnd ==
  ASSUME ScopesMean
  PROVE  Types /\ RefreshInv /\ ClientInv /\ ListedInv => ListingExact
<1> SUFFICES ASSUME Types, RefreshInv, ClientInv, ListedInv,
                    client.pc = "done", client.of # NoProject, client.epoch = epoch
             PROVE  /\ IsInjective(client.skills) /\ IsInjective(client.capabilities)
                    /\ Range(client.skills) = {k \in Range(Skills) : Wanted(client, k)}
                    /\ Range(client.capabilities) = {c \in Range(Capabilities) : WantedCapability(client, c)}
  BY DEF ListingExact
<1> DEFINE p == client.of
<1>1. client.skills = MatchingSkills(client) /\ client.capabilities = MatchingCapabilities(client)
  BY DEF ClientInv, Steady
<1>2. Complete(p) /\ p \in Projects
  BY DEF ClientInv, Steady, RefreshInv, Types, Client, ProjectOrNone
<1>3. PICK q \in Questions : client.path = q.path /\ client.topic = q.topic /\ client.search = q.search
  BY DEF ListedInv, IsAsked
<1>4. DOMAIN <<>> = {}
  OBVIOUS
<1>5. /\ DOMAIN index.skills = IndexedSkills(p)
      /\ \A k \in IndexedSkills(p) : index.skills[k] = IndexedScopes(p, k)
      /\ DOMAIN index.capabilities = KnownCapabilities(p)
      /\ \A c \in KnownCapabilities(p) : index.capabilities[c] = CapabilityScopes(p, c)
  BY <1>2, <1>4 DEF Complete, SkillsOnTheWay, CapabilitiesOnTheWay, Names, Bindings
<1> HIDE DEF p
<1>6. /\ IsInjective(client.skills) /\ IsInjective(client.capabilities)
      /\ Range(client.skills) =
              {k \in DOMAIN index.skills :
                 /\ k \in IF client.search THEN Range(Ranked) ELSE Range(Skills)
                 /\ client.topic => k \in Topical
                 /\ client.path # NoPath => InScope(client, index.skills[k])}
      /\ Range(client.capabilities) =
              {c \in DOMAIN index.capabilities :
                 /\ c \in IF client.search THEN Range(RankedCapabilities) ELSE Range(Capabilities)
                 /\ client.path # NoPath \/ client.search
                 /\ client.path # NoPath => BoundTo(index.capabilities[c], client.path)}
  BY <1>1, MatchingFacts
<1>7. \A scopes : InScope(client, scopes) = InScope(q, scopes)
  BY <1>3 DEF InScope
<1>8. ASSUME NEW k \in Range(Skills), client.path # NoPath
      PROVE SkillApplies(p, k, client.path) <=>
              k \in IndexedSkills(p) /\ InScope(client, IndexedScopes(p, k))
  <2>1. /\ SkillApplies(p, k, q.path) =>
             \/ k \in DepNames(p) /\ InScope(q, DepScopes(p, k))
             \/ k \in RepoSkills(p) \ DepNames(p) /\ InScope(q, RepoScopes(p, k))
        /\ k \in DepNames(p) /\ InScope(q, DepScopes(p, k)) => SkillApplies(p, k, q.path)
        /\ k \in RepoSkills(p) /\ InScope(q, RepoScopes(p, k)) => SkillApplies(p, k, q.path)
    BY <1>2, <1>3, <1>8 DEF ScopesMean
  <2>2. IndexedScopes(p, k) = IF k \in DepNames(p) THEN DepScopes(p, k) ELSE RepoScopes(p, k)
    BY DEF IndexedScopes
  <2>3. k \in IndexedSkills(p) <=> k \in RepoSkills(p) \/ k \in DepNames(p)
    BY DEF IndexedSkills
  <2>4. InScope(client, IndexedScopes(p, k)) = InScope(q, IndexedScopes(p, k))
    BY <1>7
  <2>5. CASE k \in DepNames(p)
    BY <1>3, <2>1, <2>2, <2>3, <2>4, <2>5
  <2>6. CASE k \notin DepNames(p)
    BY <1>3, <2>1, <2>2, <2>3, <2>4, <2>6
  <2>7. QED
    BY <2>5, <2>6
<1>9. Range(Ranked) \subseteq Range(Skills) /\ Range(RankedCapabilities) \subseteq Range(Capabilities)
  BY Facts DEF Range
<1>10. IndexedSkills(p) \subseteq Range(Skills) /\ KnownCapabilities(p) \subseteq Range(Capabilities)
  BY DEF IndexedSkills, KnownCapabilities
<1>11. ASSUME NEW k PROVE k \in Range(client.skills) <=> k \in Range(Skills) /\ Wanted(client, k)
  <2>1. CASE client.path # NoPath
    BY <1>5, <1>6, <1>8, <1>9, <1>10, <2>1 DEF Wanted, p
  <2>2. CASE client.path = NoPath
    BY <1>5, <1>6, <1>9, <1>10, <2>2 DEF Wanted, IndexedSkills, p
  <2>3. QED
    BY <2>1, <2>2
<1>12. ASSUME NEW c PROVE c \in Range(client.capabilities) <=> c \in Range(Capabilities) /\ WantedCapability(client, c)
  <2>1. ASSUME client.path # NoPath, c \in Range(Capabilities)
        PROVE CapabilityApplies(p, c, client.path) <=>
                c \in KnownCapabilities(p) /\ BoundTo(CapabilityScopes(p, c), client.path)
    BY <1>2, <1>3, <2>1 DEF ScopesMean
  <2>2. CASE client.path # NoPath
    BY <1>5, <1>6, <1>9, <1>10, <2>1, <2>2 DEF WantedCapability, p
  <2>3. CASE client.path = NoPath
    BY <1>5, <1>6, <1>9, <1>10, <2>3 DEF WantedCapability, p
  <2>4. QED
    BY <2>2, <2>3
<1>13. QED
  BY <1>6, <1>11, <1>12

(* The invariant of refreshes and listings: states are well typed, the index *)
(* under a refresh is what was inserted of the linked project (refresh.go:   *)
(* 148-230), whatever it holds is of a project it was built from, and a      *)
(* listing on an unchanged index is a prefix of the answer (query.go:        *)
(* 242-370).                                                                 *)
THEOREM DiscoveryInvariantHolds ==
  DiscoverySpec => [](Types /\ RefreshInv /\ SourceInv /\ ClientInv /\ CursorInv)
<1> DEFINE I == Types /\ RefreshInv /\ SourceInv /\ ClientInv /\ CursorInv
<1>1. DiscoveryInit => I
  BY TypesInit, RefreshInit, ClientInit
<1>2. I /\ [DiscoveryNext]_discoveryVars => I'
  BY TypesStep, RefreshStep, SourceStep, ClientStep, CursorStep
<1>3. QED
  BY <1>1, <1>2, PTL DEF DiscoverySpec

(* Every reachable state is well typed, and the cursors of a client stay     *)
(* within what there may be to list (query.go:298-308).                      *)
THEOREM DiscoveryTypeCorrect == DiscoverySpec => []DiscoveryTypeOK
<1>1. Types /\ CursorInv => DiscoveryTypeOK
  <2> SUFFICES ASSUME Types, CursorInv PROVE DiscoveryTypeOK
    OBVIOUS
  <2>1. /\ client \in Client /\ refresh \in RefreshState
        /\ client.cursor.skills \in Nat /\ client.cursor.capabilities \in Nat
        /\ client.skills \in Seq(Range(Skills)) /\ client.capabilities \in Seq(Range(Capabilities))
    BY DEF Types, Client
  <2>2. Len(Skills) \in Nat /\ Len(Capabilities) \in Nat
    BY Facts
  <2>3. client.cursor.skills \in 0..Len(Skills) /\ client.cursor.capabilities \in 0..Len(Capabilities)
    BY <2>1, <2>2 DEF CursorInv
  <2>4. Range(client.skills) \subseteq Range(Skills) /\ Range(client.capabilities) \subseteq Range(Capabilities)
    BY <2>1 DEF Range
  <2>5. client.pc \in {"idle", "capabilities", "skills", "done"} /\ refresh.pc \in {"idle", "scanned", "filling"}
    BY <2>1 DEF Client, RefreshState
  <2>6. QED
    BY <2>3, <2>4, <2>5 DEF DiscoveryTypeOK, Types
<1>2. QED
  BY <1>1, DiscoveryInvariantHolds, PTL

(* Once Refresh returned, and until an index is cleared again, the index has *)
(* exactly the skills and capabilities of the project that was scanned, each *)
(* with the scopes the linker gave it last (refresh.go:43-230).              *)
THEOREM RefreshesAreWhole ==
  DiscoverySpec => [](refresh.indexed # NoProject => Complete(refresh.indexed))
<1>1. RefreshInv => (refresh.indexed # NoProject => Complete(refresh.indexed))
  BY DEF RefreshInv
<1>2. QED
  BY <1>1, DiscoveryInvariantHolds, PTL

LEMMA ListedHolds ==
  ASSUME ScopesMean
  PROVE  DiscoverySpec => []ListedInv
<1>1. DiscoveryInit => ListedInv
  BY ClientInit
<1>2. Types /\ SourceInv /\ ListedInv /\ [DiscoveryNext]_discoveryVars => ListedInv'
  BY ListedStep
<1>3. QED
  BY <1>1, <1>2, DiscoveryInvariantHolds, PTL DEF DiscoverySpec

(* If scopes mean to the matchers what they mean to README.md (ScopesMean,   *)
(* about constants alone), a listing that ran to its end on an index nobody  *)
(* touched has all that applies to the question, each once, and nothing      *)
(* else: scanner, linker, refresh, both reads of a request and the combined  *)
(* cursor lose, repeat and add nothing (query.go:213-370).                   *)
THEOREM ListingsAreExact ==
  ASSUME ScopesMean
  PROVE  DiscoverySpec => []ListingExact
<1>1. Types /\ RefreshInv /\ ClientInv /\ ListedInv => ListingExact
  BY ExactAtTheEnd
<1>2. QED
  BY <1>1, DiscoveryInvariantHolds, ListedHolds, PTL

(* Under the same hypothesis, whatever refreshes do between two pages and    *)
(* between the two reads of one, what is listed for a path applied to it in  *)
(* a project the index was built from (query.go:242-370).                    *)
THEOREM ListingsHoldNothingElse ==
  ASSUME ScopesMean
  PROVE  DiscoverySpec => []NothingElse
<1>1. ListedInv => NothingElse
  BY DEF ListedInv, NothingElse, SkillsApply, CapabilitiesApply
<1>2. QED
  BY <1>1, ListedHolds, PTL

------------------------------------------------------------------------------
(* The matchers of scopes, for every scope and every path. The recursion of *)
(* GlobMatch is well founded: some function f satisfies it, by induction on *)
(* what is left of the pattern, so its value may be unfolded.               *)

(* Where the pattern from i on may start, if the rest may start in next. *)
StartsAt(pattern, path, i, next) ==
  IF pattern[i] = "**" THEN {j \in 1..Len(path) : \E k \in next : j < k}
  ELSE {j \in 1..Len(path) : path[j] \in Denotes[pattern[i]] /\ j + 1 \in next}

(* f[i] is where the pattern from i on may start. *)
GlobStarts(f, pattern, path) ==
  /\ f[Len(pattern) + 1] = {Len(path) + 1}
  /\ \A i \in 1..Len(pattern) : f[i] = StartsAt(pattern, path, i, f[i + 1])

LEMMA GlobUnfolds ==
  ASSUME NEW T, NEW pattern \in Seq(T), NEW path
  PROVE  \E f : GlobStarts(f, pattern, path) /\ (GlobMatch(pattern, path) <=> 1 \in f[1])
<1> DEFINE P == Len(pattern)
           E == {Len(path) + 1}
           Body(g) == [i \in 1..P + 1 |->
                         IF i = P + 1 THEN E
                         ELSE IF pattern[i] = "**" THEN {j \in 1..Len(path) : \E k \in g[i + 1] : j < k}
                         ELSE {j \in 1..Len(path) : path[j] \in Denotes[pattern[i]] /\ j + 1 \in g[i + 1]}]
           u == CHOOSE g : g = Body(g)
           At(i, next) == StartsAt(pattern, path, i, next)
<1>1. GlobMatch(pattern, path) <=> 1 \in u[1]
  BY DEF GlobMatch
<1>2. P \in Nat
  OBVIOUS
<1>3. ASSUME NEW g PROVE Body(g) = [i \in 1..P + 1 |-> IF i = P + 1 THEN E ELSE At(i, g[i + 1])]
  BY DEF StartsAt
<1> HIDE DEF Body, P, E, At
<1> DEFINE Good(m, g) == /\ DOMAIN g = P + 1 - m..P + 1 /\ g[P + 1] = E
                         /\ \A i \in P + 1 - m..P : g[i] = At(i, g[i + 1])
<1>4. \A m \in 0..P : \E g : Good(m, g)
  <2> DEFINE N == {m \in 0..P : ~\E g : Good(m, g)}
  <2>1. ASSUME N # {} PROVE FALSE
    <3>1. PICK m \in N : \A k \in N : m <= k
      <4>1. N \subseteq Nat
        BY <1>2
      <4> HIDE DEF N
      <4>2. QED
        BY <2>1, <4>1, LeastNumber
    <3>2. m \in 0..P /\ ~\E g : Good(m, g)
      OBVIOUS
    <3>3. m # 0
      <4>1. Good(0, [i \in P + 1..P + 1 |-> E])
        BY <1>2
      <4> HIDE DEF Good
      <4>2. QED
        BY <3>2, <4>1
    <3>4. m - 1 \in 0..P /\ m - 1 \notin N
      <4>1. m - 1 \in 0..P /\ ~(m <= m - 1)
        BY <1>2, <3>2, <3>3
      <4> HIDE DEF N
      <4>2. QED
        BY <3>1, <4>1
    <3>5. PICK g : Good(m - 1, g)
      <4> HIDE DEF Good
      <4>1. QED
        BY <3>4
    <3> DEFINE b == P + 1 - m
               new == At(b, g[b + 1])
               h == [i \in b..P + 1 |-> IF i = b THEN new ELSE g[i]]
    <3>6. b \in 1..P /\ P + 1 - (m - 1) = b + 1
      BY <1>2, <3>2, <3>3
    <3> HIDE DEF b
    <3>7. g[P + 1] = E /\ \A i \in b + 1..P : g[i] = At(i, g[i + 1])
      BY <3>5, <3>6
    <3>8. DOMAIN h = b..P + 1 /\ h[b] = new /\ \A i \in b + 1..P + 1 : h[i] = g[i]
      <4> HIDE DEF new
      <4>1. QED
        BY <1>2, <3>6
    <3>9. ASSUME NEW i \in b..P PROVE h[i] = At(i, h[i + 1])
      <4> HIDE DEF h
      <4>1. i + 1 \in b + 1..P + 1
        BY <1>2, <3>6
      <4>2. h[i + 1] = g[i + 1]
        BY <3>8, <4>1
      <4>3. CASE i = b
        BY <3>8, <4>2, <4>3
      <4>4. CASE i # b
        <5>1. i \in b + 1..P /\ i \in b + 1..P + 1
          BY <1>2, <3>6, <4>4
        <5>2. QED
          BY <3>7, <3>8, <4>2, <5>1
      <4>5. QED
        BY <4>3, <4>4
    <3>10. h[P + 1] = E
      <4>1. P + 1 \in b + 1..P + 1
        BY <1>2, <3>6
      <4> HIDE DEF h
      <4>2. QED
        BY <3>7, <3>8, <4>1
    <3>11. Good(m, h)
      <4> HIDE DEF h
      <4>1. QED
        BY <3>8, <3>9, <3>10 DEF b
    <3>12. QED
      <4> HIDE DEF Good, h
      <4>1. QED
        BY <3>2, <3>11
  <2>2. QED
    BY <2>1
<1>5. PICK f : Good(P, f)
  <2> HIDE DEF Good
  <2>1. P \in 0..P
    BY <1>2
  <2>2. QED
    BY <1>4, <2>1
<1>6. DOMAIN f = 1..P + 1 /\ f[P + 1] = E /\ \A i \in 1..P : f[i] = At(i, f[i + 1])
  <2>1. P + 1 - P = 1
    BY <1>2
  <2>2. QED
    BY <1>5, <2>1
<1>7. \E g : g = Body(g)
  <2> DEFINE g == [i \in 1..P + 1 |-> f[i]]
  <2>1. /\ DOMAIN g = 1..P + 1 /\ g[P + 1] = E /\ \A i \in 1..P : g[i] = At(i, g[i + 1])
    <3>1. P + 1 \in 1..P + 1 /\ \A i \in 1..P : i \in 1..P + 1 /\ i + 1 \in 1..P + 1
      BY <1>2
    <3>2. QED
      BY <1>6, <3>1
  <2> DEFINE h == [i \in 1..P + 1 |-> IF i = P + 1 THEN E ELSE At(i, g[i + 1])]
  <2>2. \A i \in 1..P + 1 : g[i] = IF i = P + 1 THEN E ELSE At(i, g[i + 1])
    <3>1. \A i \in 1..P + 1 : i = P + 1 \/ (i # P + 1 /\ i \in 1..P)
      BY <1>2
    <3> HIDE DEF g
    <3>2. QED
      BY <2>1, <3>1
  <2>3. g = h
    <3>1. g = [i \in 1..P + 1 |-> g[i]]
      OBVIOUS
    <3> HIDE DEF g
    <3>2. QED
      BY <2>2, <3>1
  <2> HIDE DEF g
  <2>4. g = Body(g)
    BY <1>3, <2>3
  <2>5. QED
    BY <2>4
<1>8. u = [i \in 1..P + 1 |-> IF i = P + 1 THEN E ELSE At(i, u[i + 1])]
  <2>1. u = Body(u)
    BY <1>7
  <2> HIDE DEF u
  <2>2. QED
    BY <1>3, <2>1
<1> HIDE DEF u, Good
<1>9. u[P + 1] = E /\ \A i \in 1..P : u[i] = At(i, u[i + 1])
  <2>1. P + 1 \in 1..P + 1 /\ \A i \in 1..P : i \in 1..P + 1 /\ i # P + 1
    BY <1>2
  <2>2. QED
    BY <1>8, <2>1
<1>10. GlobStarts(u, pattern, path)
  BY <1>9 DEF GlobStarts, P, E, At
<1>11. QED
  BY <1>1, <1>10

(* The first n segments of a scope are names, which stand for themselves. *)
NamesUpto(scope, n) ==
  \A i \in 1..n : ~HasWildcard(scope[i]) /\ Denotes[scope[i]] = {scope[i]} /\ scope[i] # ""

SameUpto(scope, path, n) == \A i \in 1..n : path[i] = scope[i]

(* Segments without a wildcard are names, and no segment is empty. *)
PlainScope(scope) ==
  \A i \in DOMAIN scope : ~HasWildcard(scope[i]) => Denotes[scope[i]] = {scope[i]} /\ scope[i] # ""

LEMMA NamesMatchThemselves ==
  ASSUME NEW pattern, NEW path, NEW P \in Nat, P = Len(pattern), NEW S \in Nat, S = Len(path),
         NEW f, GlobStarts(f, pattern, path), NEW n \in 0..P, NamesUpto(pattern, n)
  PROVE  1 \in f[1] <=> n <= S /\ SameUpto(pattern, path, n) /\ n + 1 \in f[n + 1]
<1> DEFINE Good(m) == 1 \in f[1] <=> m <= S /\ SameUpto(pattern, path, m) /\ m + 1 \in f[m + 1]
<1>1. Good(0)
  BY DEF SameUpto
<1>2. ASSUME NEW m \in 0..n - 1, Good(m) PROVE Good(m + 1)
  <2>1. m + 1 \in 1..P /\ m + 1 \in 1..n /\ m + 1 + 1 = m + 2
    OBVIOUS
  <2>2. pattern[m + 1] # "**" /\ Denotes[pattern[m + 1]] = {pattern[m + 1]}
    BY <2>1 DEF NamesUpto, HasWildcard
  <2>3. f[m + 1] = {j \in 1..S : path[j] = pattern[m + 1] /\ j + 1 \in f[m + 2]}
    BY <2>1, <2>2 DEF GlobStarts, StartsAt
  <2>4. m + 1 \in f[m + 1] <=> m + 1 <= S /\ path[m + 1] = pattern[m + 1] /\ m + 2 \in f[m + 2]
    BY <2>3
  <2>5. SameUpto(pattern, path, m + 1) <=> SameUpto(pattern, path, m) /\ path[m + 1] = pattern[m + 1]
    <3>1. 1..m + 1 = 1..m \cup {m + 1}
      OBVIOUS
    <3>2. QED
      BY <3>1 DEF SameUpto
  <2>6. QED
    BY <1>2, <2>1, <2>4, <2>5
<1>3. \A m \in 0..n : Good(m)
  <2> DEFINE N == {m \in 0..n : ~Good(m)}
  <2> HIDE DEF Good
  <2>1. ASSUME N # {} PROVE FALSE
    <3>1. N \subseteq Nat
      OBVIOUS
    <3>2. PICK m \in N : \A k \in N : m <= k
      <4> HIDE DEF N
      <4>1. QED
        BY <2>1, <3>1, LeastNumber
    <3>3. m \in 0..n /\ ~Good(m) /\ m # 0
      BY <1>1
    <3>4. m - 1 \in 0..n - 1 /\ m - 1 \in 0..n /\ ~(m <= m - 1) /\ m - 1 + 1 = m
      BY <3>3
    <3>5. Good(m - 1)
      BY <3>2, <3>4
    <3>6. QED
      BY <1>2, <3>3, <3>4, <3>5
  <2>2. QED
    BY <2>1
<1>4. QED
  BY <1>3

LEMMA GlobOfNames ==
  ASSUME NEW T, NEW pattern \in Seq(T), NEW path \in Seq(T), NEW n \in 0..Len(pattern), NamesUpto(pattern, n)
  PROVE  /\ n = Len(pattern) => (GlobMatch(pattern, path) <=> path = pattern)
         /\ n < Len(pattern) => (GlobMatch(pattern, path) => Len(path) > n /\ SameUpto(pattern, path, n))
         /\ n = Len(pattern) - 1 /\ pattern[n + 1] = "**" =>
              (Len(path) > n /\ SameUpto(pattern, path, n) => GlobMatch(pattern, path))
<1> DEFINE P == Len(pattern)
           S == Len(path)
<1>1. P \in Nat /\ S \in Nat
  OBVIOUS
<1>2. PICK f : GlobStarts(f, pattern, path) /\ (GlobMatch(pattern, path) <=> 1 \in f[1])
  BY GlobUnfolds
<1>3. GlobMatch(pattern, path) <=> n <= S /\ SameUpto(pattern, path, n) /\ n + 1 \in f[n + 1]
  BY <1>1, <1>2, NamesMatchThemselves
<1>4. f[P + 1] = {S + 1} /\ \A i \in 1..P : f[i] = StartsAt(pattern, path, i, f[i + 1])
  BY <1>2 DEF GlobStarts
<1>5. ASSUME n = P PROVE GlobMatch(pattern, path) <=> path = pattern
  <2>1. n + 1 \in f[n + 1] <=> n = S
    BY <1>1, <1>4, <1>5
  <2>2. n = S /\ SameUpto(pattern, path, n) <=> path = pattern
    <3>1. ASSUME n = S, SameUpto(pattern, path, n) PROVE path = pattern
      <4>1. Len(path) = Len(pattern) /\ \A i \in 1..Len(path) : path[i] = pattern[i]
        BY <1>5, <3>1 DEF SameUpto
      <4>2. QED
        BY <4>1, SeqEqual
    <3>2. ASSUME path = pattern PROVE n = S /\ SameUpto(pattern, path, n)
      BY <1>5, <3>2 DEF SameUpto
    <3>3. QED
      BY <3>1, <3>2
  <2>3. QED
    BY <1>1, <1>3, <2>1, <2>2
<1> HIDE DEF P, S
<1>6. ASSUME n < P, GlobMatch(pattern, path) PROVE S > n /\ SameUpto(pattern, path, n)
  <2>1. n + 1 \in 1..P
    BY <1>1, <1>6 DEF P
  <2>2. f[n + 1] \subseteq 1..S
    BY <1>4, <2>1 DEF StartsAt, S
  <2>3. QED
    BY <1>1, <1>3, <1>6, <2>2
<1>7. ASSUME n = P - 1, pattern[n + 1] = "**", S > n, SameUpto(pattern, path, n) PROVE GlobMatch(pattern, path)
  <2>1. n + 1 \in 1..P /\ n + 1 + 1 = P + 1
    BY <1>1, <1>7 DEF P
  <2>2. f[n + 1] = {j \in 1..S : \E k \in {S + 1} : j < k}
    <3>1. f[n + 1] = StartsAt(pattern, path, n + 1, {S + 1})
      BY <1>4, <2>1
    <3>2. QED
      BY <1>7, <3>1 DEF StartsAt, S
  <2>3. n + 1 \in 1..S /\ n + 1 < S + 1
    BY <1>1, <1>7, <2>1
  <2>4. n + 1 \in f[n + 1]
    BY <2>2, <2>3
  <2>5. QED
    BY <1>1, <1>3, <1>7, <2>3, <2>4
<1>8. QED
  BY <1>5, <1>6, <1>7 DEF P, S

LEMMA SlashedFacts ==
  ASSUME NEW T, NEW a \in Seq(T)
  PROVE  /\ Slashed(a) \in Seq(T \cup {""}) /\ Len(Slashed(a)) = Len(a) + 1
         /\ \A i \in 1..Len(a) : Slashed(a)[i] = a[i]
         /\ Slashed(a)[Len(a) + 1] = "" /\ Slashed(a) # <<>>
<1> DEFINE U == T \cup {""}
           empty == ""
<1>1. empty \in U /\ T \subseteq U
  OBVIOUS
<1> HIDE DEF U, empty
<1>2. a \in Seq(U)
  <2>1. Len(a) \in Nat /\ \A i \in 1..Len(a) : a[i] \in U
    BY <1>1
  <2>2. a = [i \in 1..Len(a) |-> a[i]]
    OBVIOUS
  <2>3. QED
    BY <2>1, <2>2
<1>3. /\ Append(a, empty) \in Seq(U) /\ Len(Append(a, empty)) = Len(a) + 1
      /\ \A i \in 1..Len(a) : Append(a, empty)[i] = a[i]
      /\ Append(a, empty)[Len(a) + 1] = empty
  BY <1>1, <1>2, AppendProperties
<1>4. Append(a, empty) # <<>>
  BY <1>1, <1>2, AppendProperties
<1>5. QED
  BY <1>3, <1>4 DEF Slashed, U, empty

LEMMA HeadOfSeq ==
  ASSUME NEW T, NEW s \in Seq(T), NEW n \in 0..Len(s)
  PROVE  /\ SubSeq(s, 1, n) \in Seq(T) /\ Len(SubSeq(s, 1, n)) = n
         /\ \A i \in 1..n : SubSeq(s, 1, n)[i] = s[i]
<1>1. Len(s) \in Nat /\ n \in Nat /\ n <= Len(s)
  OBVIOUS
<1>2. \A i \in 1..n : s[i] \in T
  OBVIOUS
<1>3. /\ SubSeq(s, 1, n) \in Seq(T) /\ Len(SubSeq(s, 1, n)) = IF 1 <= n THEN n - 1 + 1 ELSE 0
      /\ \A i \in 1..n - 1 + 1 : SubSeq(s, 1, n)[i] = s[1 + i - 1]
  BY <1>1, <1>2, SubSeqProperties
<1>4. QED
  BY <1>1, <1>3

(* classifyScope: what is before the first wildcard is the prefix. *)
Classified(scope, class, n) ==
  \/ scope = <<"**">> /\ class.type = "universal"
  \/ n = Len(scope) /\ class = [type |-> "exact", prefix |-> scope]
  \/ /\ n = Len(scope) - 1 /\ n > 0 /\ scope[n + 1] = "**"
     /\ class = [type |-> "prefix", prefix |-> Slashed(SubSeq(scope, 1, n))]
  \/ /\ n < Len(scope) /\ scope # <<"**">> /\ class.type = "glob"
     /\ class.prefix = IF n = 0 THEN <<>> ELSE Slashed(SubSeq(scope, 1, n))

LEMMA ClassifiedByPrefix ==
  ASSUME NEW T, NEW scope \in Seq(T), PlainScope(scope)
  PROVE  \E n \in 0..Len(scope) : NamesUpto(scope, n) /\ Classified(scope, classifyScope(scope), n)
<1> DEFINE L == Len(scope)
           wild == {i \in DOMAIN scope : HasWildcard(scope[i])}
           first == CHOOSE i \in wild : \A j \in wild : i <= j
           before == SubSeq(scope, 1, first - 1)
           class == classifyScope(scope)
<1>1. L \in Nat /\ DOMAIN scope = 1..L
  OBVIOUS
<1>2. class = CASE scope = <<"**">> -> [type |-> "universal", prefix |-> <<>>]
                [] wild = {} -> [type |-> "exact", prefix |-> scope]
                [] wild = {L} /\ scope # <<"**">> /\ Last(scope) = "**" ->
                       [type |-> "prefix", prefix |-> Slashed(before)]
                [] OTHER -> [type |-> "glob", prefix |-> IF before = <<>> THEN <<>> ELSE Slashed(before)]
  BY DEF classifyScope
<1>3. \A i \in 1..L : i \notin wild => ~HasWildcard(scope[i]) /\ Denotes[scope[i]] = {scope[i]} /\ scope[i] # ""
  BY <1>1 DEF PlainScope
<1>4. CASE scope = <<"**">>
  <2>1. class = [type |-> "universal", prefix |-> <<>>]
    <3> DEFINE univ == <<"**">>
    <3>1. scope = univ
      BY <1>4
    <3>2. class = CASE scope = univ -> [type |-> "universal", prefix |-> <<>>]
                    [] wild = {} -> [type |-> "exact", prefix |-> scope]
                    [] wild = {L} /\ scope # univ /\ Last(scope) = "**" ->
                           [type |-> "prefix", prefix |-> Slashed(before)]
                    [] OTHER -> [type |-> "glob", prefix |-> IF before = <<>> THEN <<>> ELSE Slashed(before)]
      BY <1>2
    <3>3. wild # {}
      <4>1. 1 \in wild
        BY <1>4 DEF HasWildcard
      <4>2. QED
        BY <4>1
    <3> HIDE DEF wild, before, class, L, univ
    <3>4. QED
      BY <3>1, <3>2, <3>3
  <2>2. NamesUpto(scope, 0) /\ 0 \in 0..L
    BY <1>1 DEF NamesUpto
  <2>3. QED
    <3> HIDE DEF class
    <3>1. Classified(scope, class, 0)
      BY <1>4, <2>1 DEF Classified
    <3>2. QED
      BY <2>2, <3>1 DEF class
<1>5. CASE scope # <<"**">> /\ wild = {}
  <2>1. class = [type |-> "exact", prefix |-> scope]
    <3> HIDE DEF wild, before, class, L
    <3>1. QED
      BY <1>2, <1>5
  <2>2. NamesUpto(scope, L) /\ L \in 0..L
    <3>1. \A i \in 1..L : ~HasWildcard(scope[i]) /\ Denotes[scope[i]] = {scope[i]} /\ scope[i] # ""
      <4> HIDE DEF wild, L
      <4>1. QED
        BY <1>3, <1>5
    <3>2. L \in 0..L
      BY <1>1
    <3> HIDE DEF L
    <3>3. QED
      BY <3>1, <3>2 DEF NamesUpto
  <2>3. Classified(scope, class, L)
    BY <2>1 DEF Classified
  <2>4. QED
    BY <2>2, <2>3
<1>6. CASE scope # <<"**">> /\ wild # {}
  <2>1. first \in wild /\ \A j \in wild : first <= j
    <3>1. wild \subseteq Nat
      BY <1>1
    <3>2. \E i \in wild : \A j \in wild : i <= j
      <4> HIDE DEF wild
      <4>1. QED
        BY <1>6, <3>1, LeastNumber
    <3> HIDE DEF wild
    <3>3. QED
      BY <3>2
  <2> DEFINE n == first - 1
  <2>2. first \in 1..L
    BY <1>1, <2>1
  <2> HIDE DEF first
  <2>3. n \in 0..L /\ n < L /\ n + 1 = first
    BY <1>1, <2>2
  <2>4. \A i \in 1..n : i \in 1..L /\ i \notin wild
    <3>1. \A i \in 1..n : i \in 1..L /\ ~(first <= i)
      BY <1>1, <2>2
    <3> HIDE DEF wild
    <3>2. QED
      BY <2>1, <3>1
  <2>5. NamesUpto(scope, n)
    BY <1>3, <2>4 DEF NamesUpto
  <2>6. before = SubSeq(scope, 1, n) /\ (before = <<>> <=> n = 0)
    <3>1. SubSeq(scope, 1, n) \in Seq(T) /\ Len(SubSeq(scope, 1, n)) = n
      BY <2>3, HeadOfSeq
    <3>2. SubSeq(scope, 1, n) = <<>> <=> Len(SubSeq(scope, 1, n)) = 0
      BY <3>1, EmptySeq
    <3>3. QED
      BY <3>1, <3>2
  <2>7. CASE wild = {L} /\ Last(scope) = "**"
    <3>1. class = [type |-> "prefix", prefix |-> Slashed(before)]
      BY <1>2, <1>6, <2>7
    <3>2. first = L /\ scope[L] = "**"
      BY <2>1, <2>7 DEF Last
    <3>3. n > 0
      <4>1. ASSUME L = 1 PROVE FALSE
        <5>1. Len(scope) = Len(<<"**">>) /\ \A i \in 1..Len(scope) : scope[i] = <<"**">>[i]
          BY <3>2, <4>1
        <5>2. scope \in Seq(T \cup {"**"}) /\ <<"**">> \in Seq(T \cup {"**"})
          OBVIOUS
        <5>3. scope = <<"**">>
          BY <5>1, <5>2, SeqEqual
        <5>4. QED
          BY <1>6, <5>3
      <4>2. QED
        BY <1>1, <2>2, <3>2, <4>1
    <3>4. n = L - 1 /\ scope[n + 1] = "**"
      BY <2>3, <3>2
    <3>5. Classified(scope, class, n)
      BY <2>6, <3>1, <3>3, <3>4 DEF Classified
    <3>6. QED
      BY <2>3, <2>5, <3>5
  <2>8. CASE ~(wild = {L} /\ Last(scope) = "**")
    <3>1. class = [type |-> "glob", prefix |-> IF before = <<>> THEN <<>> ELSE Slashed(before)]
      BY <1>2, <1>6, <2>8
    <3>2. Classified(scope, class, n)
      BY <1>6, <2>3, <2>6, <3>1 DEF Classified
    <3>3. QED
      BY <2>3, <2>5, <3>2
  <2>9. QED
    BY <2>7, <2>8
<1>7. QED
  BY <1>4, <1>5, <1>6

(* The directories of a path, and the path. *)
LEMMA FoundInPrefixes ==
  ASSUME NEW T, NEW scope \in Seq(T), NEW path \in Seq(T), NEW n \in 0..Len(scope), NamesUpto(scope, n)
  PROVE  /\ n = Len(scope) => (scope \in pathPrefixes(path) <=> path = scope)
         /\ n > 0 => (Slashed(SubSeq(scope, 1, n)) \in pathPrefixes(path) <=>
                      Len(path) > n /\ SameUpto(scope, path, n))
<1> DEFINE S == Len(path)
           before == SubSeq(scope, 1, n)
           dir(i) == SubSeq(path, 1, i)
<1>1. S \in Nat /\ Len(scope) \in Nat /\ n \in Nat /\ n <= Len(scope)
  OBVIOUS
<1>2. pathPrefixes(path) = {Slashed(dir(i)) : i \in 1..S - 1} \cup {path}
  BY DEF pathPrefixes
<1>3. \A i \in 1..S - 1 : /\ dir(i) \in Seq(T) /\ Len(dir(i)) = i
                          /\ \A j \in 1..i : dir(i)[j] = path[j]
  <2> SUFFICES ASSUME NEW i \in 1..S - 1
               PROVE dir(i) \in Seq(T) /\ Len(dir(i)) = i /\ \A j \in 1..i : dir(i)[j] = path[j]
    OBVIOUS
  <2>1. i \in 0..Len(path)
    BY <1>1
  <2>2. QED
    BY <2>1, HeadOfSeq
<1>4. before \in Seq(T) /\ Len(before) = n /\ \A j \in 1..n : before[j] = scope[j]
  BY HeadOfSeq
<1> HIDE DEF before, dir
<1>5. ASSUME n = Len(scope) PROVE scope \in pathPrefixes(path) <=> path = scope
  <2>1. ASSUME NEW i \in 1..S - 1, scope = Slashed(dir(i)) PROVE FALSE
    <3> DEFINE d == dir(i)
    <3>1. d \in Seq(T) /\ Len(d) = i /\ scope = Slashed(d)
      BY <1>3, <2>1
    <3> HIDE DEF d
    <3>2. Len(scope) = i + 1 /\ scope[i + 1] = ""
      <4>1. Len(Slashed(d)) = Len(d) + 1 /\ Slashed(d)[Len(d) + 1] = ""
        BY <3>1, SlashedFacts
      <4>2. QED
        BY <3>1, <4>1
    <3>3. i + 1 \in 1..n
      <4> HIDE DEF S
      <4>1. i \in Nat /\ 1 <= i
        BY <1>1
      <4>2. n = i + 1
        BY <1>5, <3>2
      <4>3. QED
        BY <4>1, <4>2
    <3>4. QED
      BY <3>2, <3>3 DEF NamesUpto
  <2>2. QED
    BY <1>2, <2>1
<1>6. ASSUME n > 0, Len(path) > n, SameUpto(scope, path, n) PROVE Slashed(before) \in pathPrefixes(path)
  <2>1. n \in 1..S - 1
    BY <1>1, <1>6
  <2>2. dir(n) \in Seq(T) /\ Len(dir(n)) = Len(before) /\ \A j \in 1..Len(dir(n)) : dir(n)[j] = before[j]
    BY <1>3, <1>4, <1>6, <2>1 DEF SameUpto
  <2>3. dir(n) = before
    BY <1>4, <2>2, SeqEqual
  <2>4. QED
    BY <1>2, <2>1, <2>3
<1>7. ASSUME n > 0, Slashed(before) \in pathPrefixes(path) PROVE Len(path) > n /\ SameUpto(scope, path, n)
  <2>1. Len(Slashed(before)) = n + 1 /\ \A j \in 1..n : Slashed(before)[j] = scope[j]
    BY <1>4, SlashedFacts
  <2>2. CASE path = Slashed(before)
    BY <1>1, <2>1, <2>2 DEF SameUpto
  <2>3. ASSUME NEW i \in 1..S - 1, Slashed(before) = Slashed(dir(i)) PROVE Len(path) > n /\ SameUpto(scope, path, n)
    <3>1. Len(Slashed(dir(i))) = i + 1 /\ \A j \in 1..i : Slashed(dir(i))[j] = path[j]
      BY <1>3, SlashedFacts
    <3>2. i = n
      BY <1>1, <2>1, <2>3, <3>1
    <3>3. QED
      BY <1>1, <2>1, <2>3, <3>1, <3>2 DEF SameUpto
  <2>4. QED
    BY <1>2, <1>7, <2>2, <2>3
<1>8. QED
  BY <1>5, <1>6, <1>7 DEF before, S

(* LIKE compares the characters of a prefix, and takes more of some of them. *)
LEMMA LikeOfDirectory ==
  ASSUME NEW T, NEW scope \in Seq(T), NEW path \in Seq(T), NEW n \in 0..Len(scope)
  PROVE  LikePrefix(path, Slashed(SubSeq(scope, 1, n))) <=>
           Len(path) > n /\ \A i \in 1..n : path[i] \in Like[scope[i]]
<1> DEFINE before == SubSeq(scope, 1, n)
           like(p, s) == p \in Like[s]
<1>1. before \in Seq(T) /\ Len(before) = n /\ \A i \in 1..n : before[i] = scope[i]
  BY HeadOfSeq
<1> HIDE DEF before
<1> DEFINE dir == Slashed(before)
<1>2. Len(dir) = n + 1 /\ dir # <<>> /\ \A i \in 1..n : dir[i] = scope[i]
  BY <1>1, SlashedFacts
<1> HIDE DEF dir
<1>3. Len(dir) - 1 = n
  BY <1>2
<1>4. LikePrefix(path, dir) <=> Len(path) > n /\ \A i \in 1..n : path[i] \in Like[dir[i]]
  BY <1>2, <1>3 DEF LikePrefix
<1>5. \A i \in 1..n : like(path[i], dir[i]) <=> like(path[i], scope[i])
  <2> HIDE DEF like
  <2>1. QED
    BY <1>2
<1>6. QED
  BY <1>4, <1>5 DEF dir, before

(* What each way of finding a scope decides, once its class is known. *)
ByPath(scope, path) ==
  LET class == classifyScope(scope) IN
  \/ class.type = "universal"
  \/ class.type \in {"prefix", "exact"} /\ class.prefix \in pathPrefixes(path)
  \/ class.type = "glob" /\ GlobMatch(scope, path)

ByMatch(scope, path) == scope = <<"**">> \/ GlobMatch(scope, path)

ByBinding(scope, path) ==
  LET class == classifyScope(scope) IN
  \/ class.type = "universal"
  \/ class.type = "exact" /\ class.prefix = path
  \/ class.type = "prefix" /\ LikePrefix(path, class.prefix)
  \/ class.type = "glob" /\ LikePrefix(path, class.prefix) /\ GlobMatch(scope, path)

LEMMA ScopeByPath ==
  ASSUME NEW T, NEW scope \in Seq(T), NEW path \in Seq(T), PlainScope(scope)
  PROVE  ByPath(scope, path) <=> ByMatch(scope, path)
<1> DEFINE class == classifyScope(scope)
<1>1. PICK n \in 0..Len(scope) : NamesUpto(scope, n) /\ Classified(scope, class, n)
  BY ClassifiedByPrefix
<1> DEFINE dir == Slashed(SubSeq(scope, 1, n))
<1>2. /\ n = Len(scope) => (GlobMatch(scope, path) <=> path = scope)
      /\ n < Len(scope) => (GlobMatch(scope, path) => Len(path) > n /\ SameUpto(scope, path, n))
      /\ n = Len(scope) - 1 /\ scope[n + 1] = "**" =>
           (Len(path) > n /\ SameUpto(scope, path, n) => GlobMatch(scope, path))
  BY <1>1, GlobOfNames
<1>3. /\ n = Len(scope) => (scope \in pathPrefixes(path) <=> path = scope)
      /\ n > 0 => (dir \in pathPrefixes(path) <=> Len(path) > n /\ SameUpto(scope, path, n))
  BY <1>1, FoundInPrefixes
<1> HIDE DEF class, dir
<1>4. ByPath(scope, path) <=>
        \/ class.type = "universal"
        \/ class.type \in {"prefix", "exact"} /\ class.prefix \in pathPrefixes(path)
        \/ class.type = "glob" /\ GlobMatch(scope, path)
  BY DEF ByPath, class
<1>5. CASE scope = <<"**">> /\ class.type = "universal"
  BY <1>4, <1>5 DEF ByMatch
<1>6. CASE n = Len(scope) /\ class = [type |-> "exact", prefix |-> scope]
  <2>1. scope # <<"**">>
    <3>1. ASSUME scope = <<"**">> PROVE FALSE
      <4>1. 1 \in 1..n /\ HasWildcard(scope[1])
        BY <1>6, <3>1 DEF HasWildcard
      <4>2. QED
        BY <1>1, <4>1 DEF NamesUpto
    <3>2. QED
      BY <3>1
  <2>2. QED
    BY <1>2, <1>3, <1>4, <1>6, <2>1 DEF ByMatch
<1>7. CASE /\ n = Len(scope) - 1 /\ n > 0 /\ scope[n + 1] = "**"
           /\ class = [type |-> "prefix", prefix |-> dir]
  <2>1. n < Len(scope) /\ scope # <<"**">>
    BY <1>7
  <2>2. GlobMatch(scope, path) <=> dir \in pathPrefixes(path)
    BY <1>2, <1>3, <1>7, <2>1
  <2>3. QED
    BY <1>4, <1>7, <2>1, <2>2 DEF ByMatch
<1>8. CASE n < Len(scope) /\ scope # <<"**">> /\ class.type = "glob"
  BY <1>4, <1>8 DEF ByMatch
<1>9. QED
  BY <1>1, <1>5, <1>6, <1>7, <1>8 DEF Classified, dir

LEMMA ScopeByBinding ==
  ASSUME NEW T, NEW scope \in Seq(T), NEW path \in Seq(T), PlainScope(scope),
         \A i \in DOMAIN scope : ~HasWildcard(scope[i]) => scope[i] \in Like[scope[i]]
  PROVE  /\ ByMatch(scope, path) => ByBinding(scope, path)
         /\ (\A i \in DOMAIN scope : ~HasWildcard(scope[i]) => Like[scope[i]] = {scope[i]}) =>
              (ByBinding(scope, path) => ByMatch(scope, path))
<1> DEFINE class == classifyScope(scope)
           exactly == \A i \in DOMAIN scope : ~HasWildcard(scope[i]) => Like[scope[i]] = {scope[i]}
<1>1. PICK n \in 0..Len(scope) : NamesUpto(scope, n) /\ Classified(scope, class, n)
  BY ClassifiedByPrefix
<1> DEFINE dir == Slashed(SubSeq(scope, 1, n))
           under == Len(path) > n /\ SameUpto(scope, path, n)
<1>2. /\ n = Len(scope) => (GlobMatch(scope, path) <=> path = scope)
      /\ n < Len(scope) => (GlobMatch(scope, path) => under)
      /\ n = Len(scope) - 1 /\ scope[n + 1] = "**" => (under => GlobMatch(scope, path))
  BY <1>1, GlobOfNames
<1>3. (under => LikePrefix(path, dir)) /\ (exactly /\ LikePrefix(path, dir) => under)
  <2>1. LikePrefix(path, dir) <=> Len(path) > n /\ \A i \in 1..n : path[i] \in Like[scope[i]]
    BY LikeOfDirectory
  <2>2. \A i \in 1..n : i \in DOMAIN scope /\ ~HasWildcard(scope[i])
    <3>1. \A i \in 1..n : i \in DOMAIN scope
      <4>1. Len(scope) \in Nat /\ DOMAIN scope = 1..Len(scope)
        OBVIOUS
      <4>2. QED
        BY <4>1
    <3> HIDE DEF class
    <3>2. NamesUpto(scope, n)
      BY <1>1
    <3>3. \A i \in 1..n : ~HasWildcard(scope[i])
      BY <3>2 DEF NamesUpto
    <3>4. QED
      BY <3>1, <3>3
  <2>3. \A i \in 1..n : scope[i] \in Like[scope[i]]
    BY <2>2
  <2>4. exactly => \A i \in 1..n : Like[scope[i]] = {scope[i]}
    BY <2>2
  <2> HIDE DEF dir, exactly
  <2>5. QED
    BY <2>1, <2>3, <2>4 DEF SameUpto
<1> HIDE DEF class, dir, under, exactly
<1>4. ByBinding(scope, path) <=>
        \/ class.type = "universal"
        \/ class.type = "exact" /\ class.prefix = path
        \/ class.type = "prefix" /\ LikePrefix(path, class.prefix)
        \/ class.type = "glob" /\ LikePrefix(path, class.prefix) /\ GlobMatch(scope, path)
  BY DEF ByBinding, class
<1> SUFFICES /\ ByMatch(scope, path) => ByBinding(scope, path)
             /\ exactly => (ByBinding(scope, path) => ByMatch(scope, path))
  BY DEF exactly
<1>5. CASE scope = <<"**">> /\ class.type = "universal"
  BY <1>4, <1>5 DEF ByMatch
<1>6. CASE n = Len(scope) /\ class = [type |-> "exact", prefix |-> scope]
  <2>1. scope # <<"**">>
    <3>1. ASSUME scope = <<"**">> PROVE FALSE
      <4>1. 1 \in 1..n /\ HasWildcard(scope[1])
        BY <1>6, <3>1 DEF HasWildcard
      <4>2. QED
        BY <1>1, <4>1 DEF NamesUpto
    <3>2. QED
      BY <3>1
  <2>2. QED
    BY <1>2, <1>4, <1>6, <2>1 DEF ByMatch
<1>7. CASE /\ n = Len(scope) - 1 /\ n > 0 /\ scope[n + 1] = "**"
           /\ class = [type |-> "prefix", prefix |-> dir]
  <2>1. n < Len(scope) /\ scope # <<"**">>
    BY <1>7
  <2>2. GlobMatch(scope, path) <=> under
    BY <1>2, <1>7, <2>1
  <2>3. ByBinding(scope, path) <=> LikePrefix(path, dir)
    BY <1>4, <1>7
  <2>4. QED
    BY <1>3, <2>1, <2>2, <2>3 DEF ByMatch
<1>8. CASE /\ n < Len(scope) /\ scope # <<"**">> /\ class.type = "glob"
           /\ class.prefix = IF n = 0 THEN <<>> ELSE dir
  <2>1. ByBinding(scope, path) <=> LikePrefix(path, class.prefix) /\ GlobMatch(scope, path)
    BY <1>4, <1>8
  <2>2. GlobMatch(scope, path) => LikePrefix(path, class.prefix)
    <3>1. CASE n = 0
      BY <1>8, <3>1 DEF LikePrefix
    <3>2. CASE n # 0
      BY <1>2, <1>3, <1>8, <3>2
    <3>3. QED
      BY <3>1, <3>2
  <2>3. QED
    BY <1>8, <2>1, <2>2 DEF ByMatch
<1>9. QED
  BY <1>1, <1>5, <1>6, <1>7, <1>8 DEF Classified, dir

(* A segment of a scope without a wildcard is a name. *)
Plain(scopes) == \A scope \in scopes : PlainScope(scope)

(* LIKE takes at least the name itself. *)
LikeTakes(scopes) ==
  \A scope \in scopes : \A i \in DOMAIN scope : ~HasWildcard(scope[i]) => scope[i] \in Like[scope[i]]

LikeTakesNoMore(scopes) ==
  \A scope \in scopes : \A i \in DOMAIN scope : ~HasWildcard(scope[i]) => Like[scope[i]] = {scope[i]}

(* For every scope and every path: what QueryByPath finds by pattern type    *)
(* and by the index on path_prefix (path.go:77-141) is what the query        *)
(* engine's scopesMatchPath keeps of what another filter found (query.go:    *)
(* 738-759). The hypothesis is that in a glob a segment without * or ?       *)
(* stands for itself and is not empty.                                       *)
THEOREM MatchersAgree ==
  ASSUME NEW Segments, NEW scopes \in SUBSET Seq(Segments), NEW path \in Seq(Segments), Plain(scopes)
  PROVE  FoundByPath(scopes, path) <=> scopesMatchPath(scopes, path)
<1>1. \A scope \in scopes : ByPath(scope, path) <=> ByMatch(scope, path)
  <2> SUFFICES ASSUME NEW scope \in scopes PROVE ByPath(scope, path) <=> ByMatch(scope, path)
    OBVIOUS
  <2>1. scope \in Seq(Segments) /\ PlainScope(scope)
    BY DEF Plain
  <2>2. QED
    BY <2>1, ScopeByPath
<1>2. FoundByPath(scopes, path) <=> \E scope \in scopes : ByPath(scope, path)
  BY DEF FoundByPath, ByPath
<1>3. scopesMatchPath(scopes, path) <=> \E scope \in scopes : ByMatch(scope, path)
  BY DEF scopesMatchPath, ByMatch
<1>4. QED
  BY <1>1, <1>2, <1>3

(* For every scope and every path: what SQL leaves out of a page of          *)
(* capabilities (capability.go:577-601) and before the globs are matched     *)
(* (path.go:167-173) does not apply: LIKE takes at least the name itself.    *)
THEOREM PrefilterLosesNone ==
  ASSUME NEW Segments, NEW scopes \in SUBSET Seq(Segments), NEW path \in Seq(Segments), Plain(scopes),
         LikeTakes(scopes)
  PROVE  scopesMatchPath(scopes, path) => BoundTo(scopes, path)
<1>1. \A scope \in scopes : ByMatch(scope, path) => ByBinding(scope, path)
  <2> SUFFICES ASSUME NEW scope \in scopes PROVE ByMatch(scope, path) => ByBinding(scope, path)
    OBVIOUS
  <2>1. scope \in Seq(Segments) /\ PlainScope(scope)
    BY DEF Plain
  <2>2. \A i \in DOMAIN scope : ~HasWildcard(scope[i]) => scope[i] \in Like[scope[i]]
    BY DEF LikeTakes
  <2>3. QED
    BY <2>1, <2>2, ScopeByBinding
<1>2. BoundTo(scopes, path) <=> \E scope \in scopes : ByBinding(scope, path)
  BY DEF BoundTo, ByBinding
<1>3. scopesMatchPath(scopes, path) <=> \E scope \in scopes : ByMatch(scope, path)
  BY DEF scopesMatchPath, ByMatch
<1>4. QED
  BY <1>1, <1>2, <1>3

(* "activation and scope parity with skills" (technical-design.md:1234), for *)
(* every scope and every path: bound to the same scopes, a capability is     *)
(* found where a skill is, where LIKE takes a name for nothing else.         *)
THEOREM CapabilityScopeParity ==
  ASSUME NEW Segments, NEW scopes \in SUBSET Seq(Segments), NEW path \in Seq(Segments), Plain(scopes),
         LikeTakesNoMore(scopes)
  PROVE  BoundTo(scopes, path) <=> FoundByPath(scopes, path)
<1>1. LikeTakes(scopes)
  BY DEF LikeTakes, LikeTakesNoMore
<1>2. scopesMatchPath(scopes, path) => BoundTo(scopes, path)
  BY <1>1, PrefilterLosesNone
<1>3. ASSUME NEW scope \in scopes PROVE ByBinding(scope, path) => ByMatch(scope, path)
  <2>1. scope \in Seq(Segments) /\ PlainScope(scope)
    BY DEF Plain
  <2>2. \A i \in DOMAIN scope : ~HasWildcard(scope[i]) => scope[i] \in Like[scope[i]]
    BY <1>1 DEF LikeTakes
  <2>3. \A i \in DOMAIN scope : ~HasWildcard(scope[i]) => Like[scope[i]] = {scope[i]}
    BY DEF LikeTakesNoMore
  <2>4. QED
    BY <2>1, <2>2, <2>3, ScopeByBinding
<1>4. BoundTo(scopes, path) => scopesMatchPath(scopes, path)
  <2>1. BoundTo(scopes, path) <=> \E scope \in scopes : ByBinding(scope, path)
    BY DEF BoundTo, ByBinding
  <2>2. scopesMatchPath(scopes, path) <=> \E scope \in scopes : ByMatch(scope, path)
    BY DEF scopesMatchPath, ByMatch
  <2>3. QED
    BY <1>3, <2>1, <2>2
<1>5. QED
  BY <1>2, <1>4, MatchersAgree

------------------------------------------------------------------------------
(* What linking means. On paths of names the scopes that activation writes  *)
(* are decided by their directory alone.                                    *)

Anything == Denotes["*"] \cup Wild \cup {"**"}

LEMMA Wider ==
  ASSUME NEW S, NEW T, S \subseteq T, NEW s \in Seq(S)
  PROVE  s \in Seq(T)
<1>1. Len(s) \in Nat /\ \A i \in 1..Len(s) : s[i] \in T
  OBVIOUS
<1>2. s = [i \in 1..Len(s) |-> s[i]]
  OBVIOUS
<1>3. QED
  BY <1>1, <1>2

LEMMA NamedFacts ==
  ASSUME NEW path, NamedPath(path)
  PROVE  /\ path \in Seq(Denotes["*"]) /\ path \in Seq(Anything)
         /\ DOMAIN path = 1..Len(path) /\ Len(path) \in Nat
         /\ NamesUpto(path, Len(path))
<1>1. path \in Seq(Denotes["*"]) /\ \A i \in DOMAIN path : Name(path[i])
  BY DEF NamedPath, AnyPath
<1>2. DOMAIN path = 1..Len(path) /\ Len(path) \in Nat
  BY <1>1
<1>3. path \in Seq(Anything)
  BY <1>1, Wider DEF Anything
<1>4. NamesUpto(path, Len(path))
  BY <1>1, <1>2 DEF NamesUpto, Name
<1>5. QED
  BY <1>1, <1>2, <1>3, <1>4

LEMMA AppendFacts ==
  ASSUME NEW T, NEW s \in Seq(T), NEW e \in T
  PROVE  /\ Append(s, e) \in Seq(T) /\ Append(s, e) # <<>> /\ Len(Append(s, e)) = Len(s) + 1
         /\ \A i \in 1..Len(s) : Append(s, e)[i] = s[i]
         /\ Append(s, e)[Len(s) + 1] = e
BY AppendProperties

(* A directory and one segment more. *)
LEMMA OneMore ==
  ASSUME NEW dir, NamedPath(dir), NEW last \in Anything
  PROVE  LET scope == Append(dir, last) IN
         /\ scope \in Seq(Anything) /\ Len(scope) = Len(dir) + 1 /\ scope[Len(dir) + 1] = last
         /\ NamesUpto(scope, Len(dir)) /\ Len(dir) \in Nat
         /\ \A i \in 1..Len(dir) : scope[i] = dir[i]
<1> DEFINE scope == Append(dir, last)
<1>1. dir \in Seq(Anything) /\ Len(dir) \in Nat /\ NamesUpto(dir, Len(dir))
  BY NamedFacts
<1>2. /\ scope \in Seq(Anything) /\ Len(scope) = Len(dir) + 1 /\ scope[Len(dir) + 1] = last
      /\ \A i \in 1..Len(dir) : scope[i] = dir[i]
  BY <1>1, AppendFacts
<1> HIDE DEF scope
<1>3. NamesUpto(scope, Len(dir))
  BY <1>1, <1>2 DEF NamesUpto
<1>4. QED
  BY <1>1, <1>2, <1>3 DEF scope

LEMMA PrefixIsSame ==
  ASSUME NEW T, NEW dir \in Seq(T), NEW path \in Seq(T)
  PROVE  IsPrefix(dir, path) <=> Len(dir) <= Len(path) /\ \A i \in 1..Len(dir) : path[i] = dir[i]
<1> DEFINE n == Len(dir)
           heads == SubSeq(path, 1, n)
<1>1. n \in Nat /\ Len(path) \in Nat /\ SubSeq(dir, 1, n) = dir
  BY SubSeqFull
<1>2. CASE n <= Len(path)
  <2>1. n \in 0..Len(path)
    BY <1>1, <1>2
  <2>2. heads \in Seq(T) /\ Len(heads) = n /\ \A i \in 1..n : heads[i] = path[i]
    BY <2>1, HeadOfSeq
  <2> HIDE DEF heads
  <2>3. (\A i \in 1..n : path[i] = dir[i]) => heads = dir
    <3>1. ASSUME \A i \in 1..n : path[i] = dir[i] PROVE heads = dir
      <4>1. Len(heads) = Len(dir) /\ \A i \in 1..Len(heads) : heads[i] = dir[i]
        BY <2>2, <3>1
      <4>2. QED
        BY <2>2, <4>1, SeqEqual
    <3>2. QED
      BY <3>1
  <2>4. heads = dir => \A i \in 1..n : path[i] = dir[i]
    BY <2>2
  <2>5. IsPrefix(dir, path) <=> heads = dir
    BY <1>1, <1>2 DEF IsPrefix, heads
  <2>6. QED
    BY <1>2, <2>3, <2>4, <2>5
<1>3. CASE ~(n <= Len(path))
  BY <1>3 DEF IsPrefix
<1>4. QED
  BY <1>2, <1>3

(* "dir/**" is for what is inside dir. *)
LEMMA BelowMeans ==
  ASSUME NEW dir, NamedPath(dir), NEW path \in AnyPath
  PROVE  GlobMatch(Append(dir, "**"), path) <=> Inside(dir, path)
<1> DEFINE n == Len(dir)
           star == "**"
           scope == Append(dir, star)
<1>1. star \in Anything
  BY DEF Anything
<1> HIDE DEF star
<1>2. /\ scope \in Seq(Anything) /\ Len(scope) = n + 1 /\ scope[n + 1] = star
      /\ NamesUpto(scope, n) /\ n \in Nat /\ \A i \in 1..n : scope[i] = dir[i]
  BY <1>1, OneMore
<1> HIDE DEF scope
<1>3. path \in Seq(Anything) /\ path \in Seq(Denotes["*"]) /\ dir \in Seq(Denotes["*"])
  BY Wider, NamedFacts DEF Anything, AnyPath
<1> HIDE DEF n
<1>4. n \in 0..Len(scope) /\ n < Len(scope) /\ n = Len(scope) - 1
  BY <1>2
<1>5. GlobMatch(scope, path) <=> Len(path) > n /\ SameUpto(scope, path, n)
  BY <1>2, <1>3, <1>4, GlobOfNames DEF star
<1>6. Inside(dir, path) <=> Len(path) > n /\ \A i \in 1..n : path[i] = dir[i]
  <2>1. IsPrefix(dir, path) <=> n <= Len(path) /\ \A i \in 1..n : path[i] = dir[i]
    BY <1>3, PrefixIsSame DEF n
  <2>2. Len(path) \in Nat
    BY <1>3
  <2>3. QED
    BY <1>2, <2>1, <2>2 DEF Inside, n
<1>7. SameUpto(scope, path, n) <=> \A i \in 1..n : path[i] = dir[i]
  BY <1>2 DEF SameUpto
<1>8. QED
  BY <1>5, <1>6, <1>7 DEF scope, star

(* "dir/*" is for what is in dir itself. *)
LEMMA WithinMeans ==
  ASSUME "*" \in Wild, NEW dir, NamedPath(dir), NEW path \in AnyPath, path # <<>>
  PROVE  GlobMatch(Append(dir, "*"), path) <=> Front(path) = dir
<1> DEFINE n == Len(dir)
           star == "*"
           scope == Append(dir, star)
           S == Len(path)
<1>1. star \in Anything /\ star # "**"
  BY DEF Anything
<1>2. path \in Seq(Denotes[star]) /\ dir \in Seq(Denotes[star]) /\ S \in Nat /\ S > 0
  BY NamedFacts, EmptySeq DEF AnyPath
<1> HIDE DEF star
<1>3. /\ scope \in Seq(Anything) /\ Len(scope) = n + 1 /\ scope[n + 1] = star
      /\ NamesUpto(scope, n) /\ n \in Nat /\ \A i \in 1..n : scope[i] = dir[i]
  BY <1>1, OneMore
<1> HIDE DEF scope
<1>4. PICK f : GlobStarts(f, scope, path) /\ (GlobMatch(scope, path) <=> 1 \in f[1])
  BY <1>3, GlobUnfolds
<1> HIDE DEF n, S
<1>5. n + 1 \in Nat /\ n \in 0..n + 1 /\ n + 1 \in 1..n + 1 /\ n + 1 + 1 = n + 2
  BY <1>3
<1>6. GlobMatch(scope, path) <=> n <= S /\ SameUpto(scope, path, n) /\ n + 1 \in f[n + 1]
  BY <1>2, <1>3, <1>4, <1>5, NamesMatchThemselves DEF S
<1>7. f[n + 1] = {j \in 1..S : path[j] \in Denotes[star] /\ j + 1 \in {S + 1}}
  <2>1. f[n + 1] = StartsAt(scope, path, n + 1, f[n + 2]) /\ f[n + 2] = {S + 1}
    BY <1>3, <1>4, <1>5 DEF GlobStarts, S
  <2>2. QED
    BY <1>1, <1>3, <2>1 DEF StartsAt, S
<1>8. n + 1 \in f[n + 1] <=> S = n + 1
  <2>1. \A j \in 1..S : path[j] \in Denotes[star]
    BY <1>2 DEF S
  <2>2. QED
    BY <1>2, <1>3, <1>7, <2>1
<1>9. Front(path) = dir <=> S = n + 1 /\ \A i \in 1..n : path[i] = dir[i]
  <2> DEFINE front == SubSeq(path, 1, S - 1)
  <2>1. S - 1 \in 0..S
    BY <1>2
  <2>2. front \in Seq(Denotes[star]) /\ Len(front) = S - 1 /\ \A i \in 1..S - 1 : front[i] = path[i]
    BY <1>2, <2>1, HeadOfSeq DEF S
  <2>3. Front(path) = front
    BY DEF Front, S
  <2> HIDE DEF front
  <2>4. ASSUME front = dir PROVE S = n + 1 /\ \A i \in 1..n : path[i] = dir[i]
    <3>1. S - 1 = n
      BY <2>2, <2>4 DEF n
    <3>2. QED
      BY <1>2, <1>3, <2>2, <2>4, <3>1
  <2>5. ASSUME S = n + 1, \A i \in 1..n : path[i] = dir[i] PROVE front = dir
    <3>1. S - 1 = n
      BY <1>3, <2>5
    <3>2. Len(front) = Len(dir) /\ \A i \in 1..Len(front) : front[i] = dir[i]
      BY <2>2, <2>5, <3>1 DEF n
    <3>3. QED
      BY <1>2, <2>2, <3>2, SeqEqual
  <2>6. QED
    BY <2>3, <2>4, <2>5
<1>10. SameUpto(scope, path, n) <=> \A i \in 1..n : path[i] = dir[i]
  BY <1>3 DEF SameUpto
<1>11. S = n + 1 => n <= S
  BY <1>3
<1>12. QED
  BY <1>6, <1>8, <1>9, <1>10, <1>11 DEF scope, star

(* A path is for itself. *)
LEMMA ItselfMeans ==
  ASSUME NEW match, NamedPath(match), NEW path \in AnyPath
  PROVE  GlobMatch(match, path) <=> path = match
<1>1. match \in Seq(Anything) /\ Len(match) \in Nat /\ NamesUpto(match, Len(match))
  BY NamedFacts
<1>2. path \in Seq(Anything)
  BY Wider DEF Anything, AnyPath
<1>3. Len(match) \in 0..Len(match)
  BY <1>1
<1>4. QED
  BY <1>1, <1>2, <1>3, GlobOfNames

(* "**" is for every path. *)
LEMMA AnyMeans ==
  ASSUME NEW path \in AnyPath, path # <<>>
  PROVE  GlobMatch(<<"**">>, path)
<1>1. NamedPath(<<>>)
  BY DEF NamedPath, AnyPath
<1>2. Inside(<<>>, path)
  <2>1. IsPrefix(<<>>, path) /\ Len(path) \in Nat /\ Len(path) > 0
    <3>1. <<>> \in Seq(Denotes["*"]) /\ path \in Seq(Denotes["*"]) /\ Len(<<>>) = 0
      BY DEF AnyPath
    <3>2. Len(path) \in Nat /\ Len(path) > 0
      BY <3>1, EmptySeq
    <3> DEFINE none == <<>>
    <3>3. none \in Seq(Denotes["*"]) /\ Len(none) = 0
      BY <3>1
    <3> HIDE DEF none
    <3>4. IsPrefix(none, path)
      <4>1. Len(none) <= Len(path) /\ \A i \in 1..Len(none) : path[i] = none[i]
        BY <3>2, <3>3
      <4>2. path \in Seq(Denotes["*"])
        BY <3>1
      <4>3. QED
        BY <3>3, <4>1, <4>2, PrefixIsSame
    <3>5. QED
      BY <3>2, <3>4 DEF none
  <2>2. QED
    BY <2>1 DEF Inside
<1>3. Append(<<>>, "**") = <<"**">>
  OBVIOUS
<1>4. QED
  BY <1>1, <1>2, <1>3, BelowMeans

LEMMA PatternFacts ==
  ASSUME NEW scope, PlainPattern(scope)
  PROVE  /\ scope \in Seq(Anything) /\ PlainScope(scope)
         /\ \A i \in DOMAIN scope : ~HasWildcard(scope[i]) => Like[scope[i]] = {scope[i]}
BY DEF PlainPattern, PlainScope, Name, Anything

LEMMA NamedIsPlain ==
  ASSUME NEW path, NamedPath(path)
  PROVE  PlainPattern(path)
<1>1. path \in Seq(Anything)
  BY NamedFacts
<1>2. \A i \in DOMAIN path : Name(path[i])
  BY DEF NamedPath
<1>3. QED
  BY <1>1, <1>2 DEF PlainPattern, Anything

LEMMA OneMoreIsPlain ==
  ASSUME NEW dir, NamedPath(dir), NEW last \in Wild \cup {"**"}
  PROVE  PlainPattern(Append(dir, last))
<1> DEFINE scope == Append(dir, last)
           n == Len(dir)
<1>1. last \in Anything
  BY DEF Anything
<1>2. /\ scope \in Seq(Anything) /\ Len(scope) = n + 1 /\ scope[n + 1] = last
      /\ n \in Nat /\ \A i \in 1..n : scope[i] = dir[i]
  BY <1>1, OneMore
<1>3. DOMAIN dir = 1..n /\ \A i \in DOMAIN dir : Name(dir[i])
  BY NamedFacts DEF NamedPath
<1> HIDE DEF scope, n
<1>4. DOMAIN scope = 1..n + 1
  BY <1>2
<1>5. ASSUME NEW i \in DOMAIN scope PROVE HasWildcard(scope[i]) \/ Name(scope[i])
  <2>1. CASE i = n + 1
    BY <1>2, <2>1 DEF HasWildcard
  <2>2. CASE i # n + 1
    <3>1. i \in 1..n
      BY <1>2, <1>4, <2>2
    <3>2. QED
      BY <1>2, <1>3, <3>1
  <2>3. QED
    BY <2>1, <2>2
<1>6. QED
  BY <1>2, <1>5 DEF PlainPattern, Anything, scope

LEMMA FrontOfNamed ==
  ASSUME NEW match, NamedPath(match), match # <<>>
  PROVE  NamedPath(Front(match))
<1> DEFINE n == Len(match)
           front == SubSeq(match, 1, n - 1)
<1>1. match \in Seq(Denotes["*"]) /\ DOMAIN match = 1..n /\ n \in Nat /\ n > 0
  BY NamedFacts, EmptySeq
<1>2. n - 1 \in 0..n
  BY <1>1
<1>3. front \in Seq(Denotes["*"]) /\ Len(front) = n - 1 /\ \A i \in 1..n - 1 : front[i] = match[i]
  BY <1>1, <1>2, HeadOfSeq
<1>4. DOMAIN front = 1..n - 1
  BY <1>3
<1>5. Front(match) = front
  BY DEF Front
<1> HIDE DEF front, n
<1>6. \A i \in 1..n - 1 : i \in DOMAIN match
  BY <1>1
<1>7. \A i \in DOMAIN front : Name(front[i])
  BY <1>3, <1>4, <1>6 DEF NamedPath
<1>8. QED
  BY <1>3, <1>5, <1>7 DEF NamedPath, AnyPath

LEMMA PlainStars ==
  ASSUME "*" \in Wild, NEW dir, NamedPath(dir)
  PROVE  /\ PlainPattern(<<"**">>) /\ PlainPattern(Append(dir, "**")) /\ PlainPattern(Append(dir, "*"))
<1>1. NamedPath(<<>>)
  BY DEF NamedPath, AnyPath
<1>2. Append(<<>>, "**") = <<"**">>
  OBVIOUS
<1>3. PlainPattern(<<"**">>)
  BY <1>1, <1>2, OneMoreIsPlain
<1>4. PlainPattern(Append(dir, "**"))
  BY OneMoreIsPlain
<1>5. PlainPattern(Append(dir, "*"))
  BY OneMoreIsPlain
<1>6. QED
  BY <1>3, <1>4, <1>5

(* Of a path that is not the root, "**" says no more to scopesMatchPath. *)
LEMMA MatchOfOne ==
  ASSUME NEW path \in AnyPath, path # <<>>, NEW scopes
  PROVE  scopesMatchPath(scopes, path) <=> \E scope \in scopes : GlobMatch(scope, path)
BY AnyMeans DEF scopesMatchPath

(* README.md:649-654: what each kind of scope at a directory is for. *)
Fits(kind, dir, path) ==
  IF kind = "repo" THEN TRUE ELSE IF kind = "directory" THEN Front(path) = dir ELSE Inside(dir, path)

DirKinds == {"repo", "boundary", "subtree", "directory", "nearest-ancestor"}
Kinds == DirKinds \cup {"matching-files"}

BaseOf(boundary) == IF boundary = NoBoundary THEN <<>> ELSE boundary

LEMMA BaseIsNamed ==
  ASSUME NEW boundary, boundary = NoBoundary \/ NamedPath(boundary)
  PROVE  NamedPath(BaseOf(boundary))
<1>1. NamedPath(<<>>)
  BY DEF NamedPath, AnyPath
<1>2. QED
  BY <1>1 DEF BaseOf

(* ScopeForContext, pack.go. *)
LEMMA ContextMeans ==
  ASSUME "*" \in Wild, NEW boundary, boundary = NoBoundary \/ NamedPath(boundary), NEW kind \in Kinds,
         NEW path \in AnyPath, path # <<>>
  PROVE  /\ scopesMatchPath(ScopeForContext(boundary, kind), path) <=>
              kind \in DirKinds /\ Fits(kind, BaseOf(boundary), path)
         /\ \A scope \in ScopeForContext(boundary, kind) : PlainPattern(scope)
<1> DEFINE base == BaseOf(boundary)
           scopes == ScopeForContext(boundary, kind)
<1>1. NamedPath(base)
  BY BaseIsNamed
<1>2. PlainPattern(<<"**">>) /\ PlainPattern(Append(base, "**")) /\ PlainPattern(Append(base, "*"))
  BY <1>1, PlainStars
<1>3. /\ GlobMatch(<<"**">>, path)
      /\ GlobMatch(Append(base, "**"), path) <=> Inside(base, path)
      /\ GlobMatch(Append(base, "*"), path) <=> Front(path) = base
  BY <1>1, AnyMeans, BelowMeans, WithinMeans
<1> HIDE DEF base
<1>4. CASE kind = "repo"
  <2>1. scopes = {<<"**">>}
    BY <1>4 DEF ScopeForContext
  <2>2. QED
    BY <1>2, <1>3, <1>4, <2>1, MatchOfOne DEF Fits, DirKinds
<1>5. CASE kind = "directory"
  <2>1. scopes = {Append(base, "*")}
    BY <1>5 DEF ScopeForContext, base, BaseOf
  <2> HIDE DEF scopes
  <2>2. QED
    BY <1>2, <1>3, <1>5, <2>1, MatchOfOne DEF Fits, DirKinds, base, scopes
<1>6. CASE kind \in {"boundary", "subtree", "nearest-ancestor"}
  <2>1. scopes = {Append(base, "**")}
    BY <1>6 DEF ScopeForContext, base, BaseOf
  <2> HIDE DEF scopes
  <2>2. QED
    BY <1>2, <1>3, <1>6, <2>1, MatchOfOne DEF Fits, DirKinds, base, scopes
<1>7. CASE kind = "matching-files"
  <2>1. scopes = {}
    BY <1>7 DEF ScopeForContext
  <2>2. QED
    BY <1>7, <2>1 DEF scopesMatchPath, DirKinds
<1>8. QED
  BY <1>4, <1>5, <1>6, <1>7 DEF Kinds, DirKinds

(* ScopeForMatch, pack.go. *)
LEMMA MatchMeans ==
  ASSUME "*" \in Wild, NEW match, NamedPath(match), match # <<>>, NEW kind \in Kinds, kind # "boundary",
         NEW path \in AnyPath, path # <<>>
  PROVE  /\ scopesMatchPath(ScopeForMatch(match, kind), path) <=>
              IF kind = "matching-files" THEN path = match ELSE Fits(kind, Front(match), path)
         /\ \A scope \in ScopeForMatch(match, kind) : PlainPattern(scope)
<1> DEFINE dir == Front(match)
           scopes == ScopeForMatch(match, kind)
<1>1. NamedPath(dir)
  BY FrontOfNamed
<1>2. /\ PlainPattern(<<"**">>) /\ PlainPattern(Append(dir, "**")) /\ PlainPattern(Append(dir, "*"))
      /\ PlainPattern(match)
  BY <1>1, PlainStars, NamedIsPlain
<1>3. /\ GlobMatch(<<"**">>, path)
      /\ GlobMatch(Append(dir, "**"), path) <=> Inside(dir, path)
      /\ GlobMatch(Append(dir, "*"), path) <=> Front(path) = dir
      /\ GlobMatch(match, path) <=> path = match
  BY <1>1, AnyMeans, BelowMeans, WithinMeans, ItselfMeans
<1> HIDE DEF dir
<1>4. CASE kind = "repo"
  <2>1. scopes = {<<"**">>}
    BY <1>4 DEF ScopeForMatch
  <2>2. QED
    BY <1>2, <1>3, <1>4, <2>1, MatchOfOne DEF Fits
<1>5. CASE kind = "directory"
  <2>1. scopes = {Append(dir, "*")}
    BY <1>5 DEF ScopeForMatch, dir
  <2> HIDE DEF scopes
  <2>2. QED
    BY <1>2, <1>3, <1>5, <2>1, MatchOfOne DEF Fits, dir, scopes
<1>6. CASE kind \in {"subtree", "nearest-ancestor"}
  <2>1. scopes = {Append(dir, "**")}
    BY <1>6 DEF ScopeForMatch, dir
  <2> HIDE DEF scopes
  <2>2. QED
    BY <1>2, <1>3, <1>6, <2>1, MatchOfOne DEF Fits, dir, scopes
<1>7. CASE kind = "matching-files"
  <2>1. scopes = {match}
    BY <1>7 DEF ScopeForMatch
  <2>2. QED
    BY <1>2, <1>3, <1>7, <2>1, MatchOfOne
<1>8. QED
  BY <1>4, <1>5, <1>6, <1>7 DEF Kinds, DirKinds

LEMMA EvidenceIsFiles ==
  ASSUME NEW p, NEW e
  PROVE  Evidence(p, e) \subseteq p.files
BY DEF Evidence, AnyFile, MatchRepoFiles

LEMMA CoversFits ==
  ASSUME NEW p, NEW e, e.scope \in Kinds, NEW path
  PROVE  Covers(p, e, path) <=>
           /\ IsActive(p, e)
           /\ IF e.scope = "matching-files" THEN path \in Evidence(p, e)
              ELSE IF Evidence(p, e) = {} \/ e.scope = "boundary" THEN Fits(e.scope, BaseOf(e.boundary), path)
              ELSE \E m \in Evidence(p, e) : Fits(e.scope, Front(m), path)
<1> DEFINE matches == Evidence(p, e)
           base == BaseOf(e.boundary)
           dirs == IF matches = {} \/ e.scope = "boundary" THEN {base} ELSE {Front(m) : m \in matches}
           active == IsActive(p, e)
<1>1. Covers(p, e, path) <=>
        /\ active
        /\ CASE e.scope = "repo" -> TRUE
             [] e.scope = "matching-files" -> path \in matches
             [] e.scope = "directory" -> Front(path) \in dirs
             [] OTHER -> \E dir \in dirs : Inside(dir, path)
  BY DEF Covers, BaseOf
<1> HIDE DEF base, active
<1>2. (\E dir \in dirs : Fits(e.scope, dir, path)) <=>
        IF matches = {} \/ e.scope = "boundary" THEN Fits(e.scope, base, path)
        ELSE \E m \in matches : Fits(e.scope, Front(m), path)
  <2> HIDE DEF matches
  <2>1. QED
    OBVIOUS
<1>3. dirs # {}
  <2> HIDE DEF matches
  <2>1. QED
    OBVIOUS
<1> HIDE DEF dirs, matches
<1>4. CASE e.scope = "matching-files"
  BY <1>1, <1>4 DEF active, matches
<1>5. CASE e.scope = "repo"
  BY <1>1, <1>2, <1>3, <1>5 DEF Fits, active, matches, base
<1>6. CASE e.scope = "directory"
  BY <1>1, <1>2, <1>6 DEF Fits, active, matches, base
<1>7. CASE e.scope \in {"boundary", "subtree", "nearest-ancestor"}
  BY <1>1, <1>2, <1>7 DEF Fits, active, matches, base
<1>8. QED
  BY <1>4, <1>5, <1>6, <1>7 DEF Kinds, DirKinds


(* What Activate writes as scopes of an entry of a pack is what the entry is for. *)
LEMMA ActivationMeans ==
  ASSUME "*" \in Wild, NEW p, \A f \in p.files : f # <<>> /\ NamedPath(f), NEW e, PlainEntry(e),
         NEW path \in AnyPath, path # <<>>
  PROVE  /\ scopesMatchPath(Activate(p, e), path) <=> Covers(p, e, path)
         /\ \A scope \in Activate(p, e) : PlainPattern(scope)
<1> DEFINE matches == Evidence(p, e)
           kind == e.scope
           active == IsActive(p, e)
           context == ScopeForContext(e.boundary, kind)
           Of(m) == ScopeForMatch(m, kind)
           scopes == Activate(p, e)
<1>1. kind \in Kinds /\ (e.boundary = NoBoundary \/ NamedPath(e.boundary))
  BY DEF PlainEntry, Kinds, DirKinds
<1>2. \A m \in matches : m # <<>> /\ NamedPath(m)
  BY EvidenceIsFiles
<1>3. Covers(p, e, path) <=>
        /\ active
        /\ IF kind = "matching-files" THEN path \in matches
           ELSE IF matches = {} \/ kind = "boundary" THEN Fits(kind, BaseOf(e.boundary), path)
           ELSE \E m \in matches : Fits(kind, Front(m), path)
  BY <1>1, CoversFits
<1>4. scopes = IF ~active THEN {} ELSE IF kind = "boundary" \/ matches = {} THEN context
               ELSE UNION {Of(m) : m \in matches}
  BY DEF Activate
<1>5. /\ scopesMatchPath(context, path) <=> kind \in DirKinds /\ Fits(kind, BaseOf(e.boundary), path)
      /\ \A scope \in context : PlainPattern(scope)
  BY <1>1, ContextMeans
<1>6. \A m \in matches : kind # "boundary" =>
        /\ scopesMatchPath(Of(m), path) <=> IF kind = "matching-files" THEN path = m ELSE Fits(kind, Front(m), path)
        /\ \A scope \in Of(m) : PlainPattern(scope)
  BY <1>1, <1>2, MatchMeans
<1> HIDE DEF matches, kind, active, context, scopes, Of
<1>7. scopesMatchPath(UNION {Of(m) : m \in matches}, path) <=> \E m \in matches : scopesMatchPath(Of(m), path)
  BY DEF scopesMatchPath
<1>8. CASE ~active
  <2>1. scopes = {}
    BY <1>4, <1>8
  <2>2. QED
    BY <1>3, <1>8, <2>1 DEF scopesMatchPath, scopes
<1>9. CASE active /\ (kind = "boundary" \/ matches = {})
  <2>1. scopes = context
    BY <1>4, <1>9
  <2>2. kind \in DirKinds <=> kind # "matching-files"
    BY <1>1 DEF Kinds, DirKinds
  <2>3. QED
    BY <1>3, <1>5, <1>9, <2>1, <2>2 DEF scopes
<1>10. CASE active /\ kind # "boundary" /\ matches # {}
  <2>1. scopes = UNION {Of(m) : m \in matches}
    BY <1>4, <1>10
  <2>2. scopesMatchPath(scopes, path) <=> Covers(p, e, path)
    <3>1. CASE kind = "matching-files"
      BY <1>3, <1>6, <1>7, <1>10, <2>1, <3>1
    <3>2. CASE kind # "matching-files"
      BY <1>3, <1>6, <1>7, <1>10, <2>1, <3>2
    <3>3. QED
      BY <3>1, <3>2
  <2>3. \A scope \in scopes : PlainPattern(scope)
    BY <1>6, <1>10, <2>1
  <2>4. QED
    BY <2>2, <2>3 DEF scopes
<1>11. QED
  BY <1>8, <1>9, <1>10

(* All three matchers say the same of scopes of names. *)
LEMMA InScopeMeans ==
  ASSUME NEW scopes, \A scope \in scopes : PlainPattern(scope), NEW path \in AnyPath
  PROVE  /\ FoundByPath(scopes, path) <=> scopesMatchPath(scopes, path)
         /\ BoundTo(scopes, path) <=> scopesMatchPath(scopes, path)
         /\ \A q : q.path = path => (InScope(q, scopes) <=> scopesMatchPath(scopes, path))
<1>1. scopes \in SUBSET Seq(Anything) /\ path \in Seq(Anything)
  BY PatternFacts, Wider DEF AnyPath, Anything
<1>2. Plain(scopes) /\ LikeTakesNoMore(scopes)
  BY PatternFacts DEF Plain, LikeTakesNoMore
<1>3. FoundByPath(scopes, path) <=> scopesMatchPath(scopes, path)
  BY <1>1, <1>2, MatchersAgree
<1>4. BoundTo(scopes, path) <=> FoundByPath(scopes, path)
  BY <1>1, <1>2, CapabilityScopeParity
<1>5. QED
  BY <1>3, <1>4 DEF InScope

LEMMA CapabilitiesMean ==
  ASSUME "*" \in Wild, NEW p, PlainProject(p), NEW path \in AnyPath, path # <<>>, NEW c \in Range(Capabilities)
  PROVE  CapabilityApplies(p, c, path) <=> c \in KnownCapabilities(p) /\ BoundTo(CapabilityScopes(p, c), path)
<1> DEFINE known == c \in DOMAIN p.catalog
           own == IF ~known THEN {} ELSE IF p.catalog[c] = {} THEN {<<"**">>} ELSE p.catalog[c]
           about == AboutIt(p, c)
           suggested == Suggested(p, c)
<1>1. \A s \in about : /\ scopesMatchPath(Activate(p, s), path) <=> Covers(p, s, path)
                       /\ \A scope \in Activate(p, s) : PlainPattern(scope)
  <2>1. about \subseteq p.servers
    BY DEF AboutIt
  <2>2. (\A s \in about : PlainEntry(s)) /\ \A f \in p.files : f # <<>> /\ NamedPath(f)
    BY <2>1 DEF PlainProject
  <2> HIDE DEF about
  <2>3. QED
    BY <2>2, ActivationMeans
<1>2. suggested = UNION {Activate(p, s) : s \in about}
  BY DEF Suggested
<1> HIDE DEF about, suggested
<1>3. scopesMatchPath(suggested, path) <=> \E s \in about : Covers(p, s, path)
  BY <1>1, <1>2 DEF scopesMatchPath
<1>4. \A scope \in suggested : PlainPattern(scope)
  BY <1>1, <1>2
<1>5. PlainPattern(<<"**">>)
  <2>1. NamedPath(<<>>)
    BY DEF NamedPath, AnyPath
  <2>2. QED
    BY <2>1, PlainStars
<1>6. \A scope \in own : PlainPattern(scope)
  BY <1>5 DEF PlainProject
<1>7. scopesMatchPath(own, path) <=>
        \/ known /\ p.catalog[c] = {}
        \/ known /\ \E scope \in p.catalog[c] : GlobMatch(scope, path)
  <2>1. scopesMatchPath(own, path) <=> \E scope \in own : GlobMatch(scope, path)
    BY MatchOfOne
  <2>2. GlobMatch(<<"**">>, path)
    BY AnyMeans
  <2>3. QED
    BY <2>1, <2>2
<1>8. CapabilityScopes(p, c) = own \cup suggested
  BY DEF CapabilityScopes, suggested
<1> HIDE DEF own
<1>9. scopesMatchPath(own \cup suggested, path) <=> scopesMatchPath(own, path) \/ scopesMatchPath(suggested, path)
  BY DEF scopesMatchPath
<1>10. BoundTo(CapabilityScopes(p, c), path) <=> scopesMatchPath(own, path) \/ scopesMatchPath(suggested, path)
  BY <1>4, <1>6, <1>8, <1>9, InScopeMeans
<1>11. scopesMatchPath(suggested, path) => suggested # {}
  BY DEF scopesMatchPath
<1>12. c \in KnownCapabilities(p) <=> known \/ suggested # {}
  BY DEF KnownCapabilities, suggested
<1>13. CapabilityApplies(p, c, path) <=> scopesMatchPath(own, path) \/ scopesMatchPath(suggested, path)
  BY <1>3, <1>7 DEF CapabilityApplies, about
<1>14. scopesMatchPath(own, path) => known
  BY <1>7
<1>15. QED
  BY <1>10, <1>11, <1>12, <1>13, <1>14

------------------------------------------------------------------------------
(* What scanning says of an entry of a pack, and of a skill of an agent. *)
OfPack(p, e) == [skill |-> e.skill, boundary |-> e.boundary, scopes |-> Activate(p, e)]
OfAgent(a) == [skill |-> a.skill, boundary |-> NoBoundary, scopes |-> agentSkillScopes(a.anchor, a.globs)]

LEMMA MappedSeq ==
  ASSUME NEW s, s \in Seq(Range(s)), NEW f, f = [i \in DOMAIN s |-> f[i]]
  PROVE  f \in Seq(Range(f)) /\ Range(f) = {f[i] : i \in DOMAIN s}
<1>1. Len(s) \in Nat /\ DOMAIN s = 1..Len(s)
  OBVIOUS
<1>2. Range(f) = {f[i] : i \in DOMAIN s}
  BY DEF Range
<1>3. f \in [1..Len(s) -> Range(f)]
  BY <1>1, <1>2
<1>4. f \in Seq(Range(f))
  BY <1>1, <1>3
<1>5. QED
  BY <1>2, <1>4

LEMMA ActivatedAre ==
  ASSUME NEW p, p.packs \in Seq(Range(p.packs))
  PROVE  /\ Activated(p) \in Seq(Range(Activated(p)))
         /\ Range(Activated(p)) = {OfPack(p, e) : e \in {x \in Range(p.packs) : Activate(p, x) # {}}}
<1> DEFINE all == [i \in DOMAIN p.packs |->
                     [skill |-> p.packs[i].skill, boundary |-> p.packs[i].boundary,
                      scopes |-> Activate(p, p.packs[i])]]
           active == {e \in Range(all) : e.scopes # {}}
<1>1. Activated(p) = InOrder(all, active)
  BY DEF Activated
<1>2. all \in Seq(Range(all)) /\ Range(all) = {OfPack(p, p.packs[i]) : i \in DOMAIN p.packs}
  <2>1. all = [i \in DOMAIN p.packs |-> all[i]] /\ \A i \in DOMAIN p.packs : all[i] = OfPack(p, p.packs[i])
    BY DEF OfPack
  <2> HIDE DEF all
  <2>2. all \in Seq(Range(all)) /\ Range(all) = {all[i] : i \in DOMAIN p.packs}
    BY <2>1, MappedSeq
  <2>3. {all[i] : i \in DOMAIN p.packs} = {OfPack(p, p.packs[i]) : i \in DOMAIN p.packs}
    BY <2>1, Zenon
  <2>4. QED
    BY <2>2, <2>3, Zenon
<1> HIDE DEF all
<1>3. /\ InOrder(all, active) \in Seq(Range(all))
      /\ Range(InOrder(all, active)) = active
  <2>1. active \subseteq Range(all)
    OBVIOUS
  <2> HIDE DEF active
  <2>2. Range(InOrder(all, active)) = Range(all) \cap active /\ InOrder(all, active) \in Seq(Range(all))
    BY <1>2, InOrderFacts
  <2>3. QED
    BY <2>1, <2>2
<1>4. active = {OfPack(p, e) : e \in {x \in Range(p.packs) : Activate(p, x) # {}}}
  <2>1. Range(p.packs) = {p.packs[i] : i \in DOMAIN p.packs}
    BY DEF Range
  <2>2. \A e : OfPack(p, e).scopes = Activate(p, e)
    BY DEF OfPack
  <2>3. QED
    BY <1>2, <2>1, <2>2
<1>5. InOrder(all, active) \in Seq(Range(InOrder(all, active)))
  <2> DEFINE some == InOrder(all, active)
  <2>1. some \in Seq(Range(all))
    BY <1>3
  <2> HIDE DEF some
  <2>2. QED
    BY <2>1, SeqOfRange DEF some
<1>6. QED
  BY <1>1, <1>3, <1>4, <1>5

LEMMA WithScopesAre ==
  ASSUME NEW p, p.packs \in Seq(Range(p.packs)), p.agents \in Seq(Range(p.agents))
  PROVE  /\ WithScopes(p) \in Seq(Range(WithScopes(p)))
         /\ Range(WithScopes(p)) = {a \in Range(Activated(p)) : a.boundary = NoBoundary}
                                   \cup {OfAgent(a) : a \in Range(p.agents)}
<1> DEFINE acts == Activated(p)
           free == {e \in Range(acts) : e.boundary = NoBoundary}
           first == InOrder(acts, free)
           second == AgentSkills(p)
           T == Range(acts) \cup Range(second)
<1>1. acts \in Seq(Range(acts))
  BY ActivatedAre
<1>2. first \in Seq(Range(acts)) /\ Range(first) = free
  <2> HIDE DEF acts
  <2>1. QED
    BY <1>1, InOrderFacts
<1>3. second \in Seq(Range(second)) /\ Range(second) = {OfAgent(a) : a \in Range(p.agents)}
  <2>1. /\ second = [i \in DOMAIN p.agents |-> second[i]]
        /\ \A i \in DOMAIN p.agents : second[i] = OfAgent(p.agents[i])
    BY DEF AgentSkills, OfAgent
  <2> HIDE DEF second
  <2>2. second \in Seq(Range(second)) /\ Range(second) = {second[i] : i \in DOMAIN p.agents}
    BY <2>1, MappedSeq
  <2>3. Range(p.agents) = {p.agents[i] : i \in DOMAIN p.agents}
    BY DEF Range
  <2>4. {second[i] : i \in DOMAIN p.agents} = {OfAgent(p.agents[i]) : i \in DOMAIN p.agents}
    BY <2>1, Zenon
  <2>5. {OfAgent(p.agents[i]) : i \in DOMAIN p.agents} = {OfAgent(a) : a \in Range(p.agents)}
    BY <2>3, Zenon
  <2>6. QED
    BY <2>2, <2>4, <2>5, Zenon
<1>4. WithScopes(p) = first \o second
  BY DEF WithScopes
<1> HIDE DEF first, second, acts
<1>5. first \in Seq(T) /\ second \in Seq(T)
  BY <1>2, <1>3, Wider
<1> HIDE DEF T
<1>6. first \o second \in Seq(T) /\ Range(first \o second) = Range(first) \cup Range(second)
  BY <1>5, RangeConcatenation, ConcatProperties, Zenon
<1> DEFINE both == first \o second
<1>7. both \in Seq(T)
  BY <1>6
<1> HIDE DEF both
<1>8. both \in Seq(Range(both))
  BY <1>7, SeqOfRange
<1>9. QED
  BY <1>2, <1>3, <1>4, <1>6, <1>8 DEF both, acts

LEMMA AgentsMean ==
  ASSUME "*" \in Wild, NEW p, PlainProject(p), NEW path \in AnyPath, path # <<>>, GlobsQualify(p, path),
         NEW a \in Range(p.agents)
  PROVE  /\ scopesMatchPath(agentSkillScopes(a.anchor, a.globs), path) <=>
              Inside(a.anchor, path) /\ (a.globs = {} \/ \E g \in a.globs : StarMatch(g, path))
         /\ \A scope \in agentSkillScopes(a.anchor, a.globs) : PlainPattern(scope)
<1>1. NamedPath(a.anchor)
  BY DEF PlainProject
<1>2. CASE a.globs = {}
  <2>1. agentSkillScopes(a.anchor, a.globs) = {Append(a.anchor, "**")}
    BY <1>2 DEF agentSkillScopes
  <2>2. PlainPattern(Append(a.anchor, "**"))
    BY <1>1, PlainStars
  <2>3. GlobMatch(Append(a.anchor, "**"), path) <=> Inside(a.anchor, path)
    BY <1>1, BelowMeans
  <2>4. QED
    BY <1>2, <2>1, <2>2, <2>3, MatchOfOne
<1>3. CASE a.globs # {}
  BY <1>3 DEF GlobsQualify
<1>4. QED
  BY <1>2, <1>3

(* What a skill of the repository is for, and one of a dependency. *)
RepoApplies(p, k, path) ==
  \/ \E r \in Rules(p) : k \in r.skills /\ GlobMatch(r.scope, path)
  \/ \E e \in Range(p.packs) : e.skill = k /\ e.boundary = NoBoundary /\ Covers(p, e, path)
  \/ \E a \in Range(p.agents) :
        /\ a.skill = k
        /\ Inside(a.anchor, path)
        /\ a.globs = {} \/ \E g \in a.globs : StarMatch(g, path)

DepApplies(p, k, path) ==
  \/ \E e \in Range(p.packs) : e.skill = k /\ e.boundary \in Boundaries(p) /\ Covers(p, e, path)
  \/ \E d \in p.deps :
        /\ d.skill = k /\ d.boundary \in Boundaries(p)
        /\ IF d.visibility = "public"
           THEN \E r \in Rules(p) : r.boundary = d.boundary /\ GlobMatch(r.scope, path)
           ELSE Inside(d.root, path)

LEMMA AppliesSplit ==
  ASSUME NEW p, NEW k, NEW path
  PROVE  SkillApplies(p, k, path) <=> RepoApplies(p, k, path) \/ DepApplies(p, k, path)
BY DEF SkillApplies, RepoApplies, DepApplies

(* The entries of packs are for what Activate made of them. *)
LEMMA PacksMean ==
  ASSUME "*" \in Wild, NEW p, PlainProject(p), NEW path \in AnyPath, path # <<>>, NEW e \in Range(p.packs)
  PROVE  /\ scopesMatchPath(Activate(p, e), path) <=> Covers(p, e, path)
         /\ \A scope \in Activate(p, e) : PlainPattern(scope)
<1>1. PlainEntry(e) /\ \A f \in p.files : f # <<>> /\ NamedPath(f)
  BY DEF PlainProject
<1>2. QED
  BY <1>1, ActivationMeans

LEMMA NothingMatchesNone == ASSUME NEW path PROVE ~scopesMatchPath({}, path)
BY DEF scopesMatchPath

(* The first place where a skill was found is the only one. *)
LEMMA RepoScopesOf ==
  ASSUME NEW p, PlainProject(p), FoundOnce(p), NEW k
  PROVE  /\ k \in ByRule(p) => RepoScopes(p, k) = {r.scope : r \in {s \in Rules(p) : k \in s.skills}}
         /\ \A e \in Range(WithScopes(p)) : e.skill = k => k \notin ByRule(p) /\ RepoScopes(p, k) = e.scopes
<1> DEFINE all == WithScopes(p)
           found == {i \in DOMAIN all : all[i].skill = k}
           first == CHOOSE i \in found : \A j \in found : i <= j
<1>1. k \in ByRule(p) => RepoScopes(p, k) = {r.scope : r \in {s \in Rules(p) : k \in s.skills}}
  BY DEF RepoScopes
<1>2. k \notin ByRule(p) => RepoScopes(p, k) = all[first].scopes
  BY DEF RepoScopes
<1>3. all \in Seq(Range(all))
  BY WithScopesAre DEF PlainProject
<1>4. /\ \A i \in DOMAIN all : all[i].skill \notin ByRule(p)
      /\ \A i, j \in DOMAIN all : all[i].skill = all[j].skill => i = j
  BY DEF FoundOnce
<1>5. DOMAIN all \subseteq Nat
  <2> HIDE DEF all
  <2>1. QED
    BY <1>3
<1> HIDE DEF all
<1>6. ASSUME NEW e \in Range(all), e.skill = k PROVE k \notin ByRule(p) /\ RepoScopes(p, k) = e.scopes
  <2>1. PICK i \in DOMAIN all : all[i] = e
    BY DEF Range
  <2>2. k \notin ByRule(p)
    BY <1>4, <1>6, <2>1
  <2>3. \A j \in found : j = i
    BY <1>4, <1>6, <2>1
  <2>4. i \in found /\ i \in Nat
    BY <1>5, <1>6, <2>1
  <2>5. first = i
    <3> HIDE DEF found
    <3>1. \A j \in found : i <= j
      BY <2>3, <2>4
    <3>2. \E m \in found : \A j \in found : m <= j
      BY <2>4, <3>1
    <3>3. first \in found
      BY <3>2
    <3> HIDE DEF first
    <3>4. QED
      BY <2>3, <3>3
  <2> HIDE DEF first
  <2>6. QED
    BY <1>2, <2>1, <2>2, <2>5
<1>7. QED
  BY <1>1, <1>6 DEF all

LEMMA RepoMeans ==
  ASSUME "*" \in Wild, NEW p, PlainProject(p), FoundOnce(p), NEW path \in AnyPath, path # <<>>,
         GlobsQualify(p, path), NEW k
  PROVE  /\ k \in RepoSkills(p) => \A scope \in RepoScopes(p, k) : PlainPattern(scope)
         /\ k \in RepoSkills(p) /\ scopesMatchPath(RepoScopes(p, k), path) <=> RepoApplies(p, k, path)
<1> DEFINE all == WithScopes(p)
<1>1. /\ k \in ByRule(p) => RepoScopes(p, k) = {r.scope : r \in {s \in Rules(p) : k \in s.skills}}
      /\ \A e \in Range(all) : e.skill = k => k \notin ByRule(p) /\ RepoScopes(p, k) = e.scopes
  BY RepoScopesOf
<1>2. k \in RepoSkills(p) <=> k \in ByRule(p) \/ \E e \in Range(all) : e.skill = k
  BY DEF RepoSkills
<1>3. Range(all) = {OfPack(p, e) : e \in {x \in Range(p.packs) : Activate(p, x) # {} /\ x.boundary = NoBoundary}}
                   \cup {OfAgent(a) : a \in Range(p.agents)}
  <2>1. p.packs \in Seq(Range(p.packs)) /\ p.agents \in Seq(Range(p.agents))
    BY DEF PlainProject
  <2>2. \A e : OfPack(p, e).boundary = e.boundary
    BY DEF OfPack
  <2> DEFINE acts == Activated(p)
  <2>3. Range(acts) = {OfPack(p, e) : e \in {x \in Range(p.packs) : Activate(p, x) # {}}}
    BY <2>1, ActivatedAre
  <2>4. Range(all) = {a \in Range(acts) : a.boundary = NoBoundary} \cup {OfAgent(a) : a \in Range(p.agents)}
    BY <2>1, WithScopesAre
  <2> HIDE DEF acts, all
  <2>5. {a \in Range(acts) : a.boundary = NoBoundary} =
          {OfPack(p, e) : e \in {x \in Range(p.packs) : Activate(p, x) # {} /\ x.boundary = NoBoundary}}
    BY <2>2, <2>3
  <2>6. QED
    BY <2>4, <2>5
<1> HIDE DEF all
<1>4. /\ \A e : OfPack(p, e).skill = e.skill /\ OfPack(p, e).scopes = Activate(p, e)
      /\ \A a : OfAgent(a).skill = a.skill /\ OfAgent(a).scopes = agentSkillScopes(a.anchor, a.globs)
  BY DEF OfPack, OfAgent
<1>5. CASE k \in ByRule(p)
  <2>1. \A e \in Range(all) : e.skill # k
    BY <1>1, <1>5
  <2>2. \A a \in Range(p.agents) : a.skill # k
    BY <1>3, <1>4, <2>1
  <2>3. \A e \in Range(p.packs) : e.skill = k /\ e.boundary = NoBoundary => ~Covers(p, e, path)
    <3>1. SUFFICES ASSUME NEW e \in Range(p.packs), e.skill = k, e.boundary = NoBoundary PROVE ~Covers(p, e, path)
      OBVIOUS
    <3>2. Activate(p, e) = {}
      BY <1>3, <1>4, <2>1, <3>1
    <3>3. QED
      BY <3>2, PacksMean, NothingMatchesNone
  <2>4. RepoScopes(p, k) = {r.scope : r \in {s \in Rules(p) : k \in s.skills}}
    BY <1>1, <1>5
  <2>5. scopesMatchPath(RepoScopes(p, k), path) <=> \E r \in Rules(p) : k \in r.skills /\ GlobMatch(r.scope, path)
    BY <2>4, MatchOfOne
  <2>6. \A scope \in RepoScopes(p, k) : PlainPattern(scope)
    BY <2>4 DEF PlainProject
  <2>7. QED
    BY <1>2, <1>5, <2>2, <2>3, <2>5, <2>6 DEF RepoApplies
<1>6. CASE k \notin ByRule(p)
  <2>1. \A r \in Rules(p) : k \notin r.skills
    BY <1>6 DEF ByRule
  <2>2. ASSUME NEW e \in Range(p.packs), e.skill = k, e.boundary = NoBoundary, Activate(p, e) # {}
        PROVE  RepoScopes(p, k) = Activate(p, e) /\ k \in RepoSkills(p)
    BY <1>1, <1>2, <1>3, <1>4, <2>2
  <2>3. ASSUME NEW a \in Range(p.agents), a.skill = k
        PROVE  RepoScopes(p, k) = agentSkillScopes(a.anchor, a.globs) /\ k \in RepoSkills(p)
    BY <1>1, <1>2, <1>3, <1>4, <2>3
  <2>4. ASSUME RepoApplies(p, k, path) PROVE k \in RepoSkills(p) /\ scopesMatchPath(RepoScopes(p, k), path)
    <3>1. ASSUME NEW e \in Range(p.packs), e.skill = k, e.boundary = NoBoundary, Covers(p, e, path)
          PROVE  k \in RepoSkills(p) /\ scopesMatchPath(RepoScopes(p, k), path)
      <4>1. scopesMatchPath(Activate(p, e), path)
        BY <3>1, PacksMean
      <4>2. Activate(p, e) # {}
        BY <4>1, NothingMatchesNone
      <4>3. QED
        BY <2>2, <3>1, <4>1, <4>2
    <3>2. ASSUME NEW a \in Range(p.agents), a.skill = k, Inside(a.anchor, path),
                 a.globs = {} \/ \E g \in a.globs : StarMatch(g, path)
          PROVE  k \in RepoSkills(p) /\ scopesMatchPath(RepoScopes(p, k), path)
      <4>1. scopesMatchPath(agentSkillScopes(a.anchor, a.globs), path)
        BY <3>2, AgentsMean
      <4>2. QED
        BY <2>3, <3>2, <4>1
    <3>3. QED
      BY <2>1, <2>4, <3>1, <3>2 DEF RepoApplies
  <2>5. ASSUME k \in RepoSkills(p)
        PROVE  /\ \A scope \in RepoScopes(p, k) : PlainPattern(scope)
               /\ scopesMatchPath(RepoScopes(p, k), path) => RepoApplies(p, k, path)
    <3>1. CASE \E e \in Range(p.packs) : e.skill = k /\ e.boundary = NoBoundary /\ Activate(p, e) # {}
      <4>1. PICK e \in Range(p.packs) : e.skill = k /\ e.boundary = NoBoundary /\ Activate(p, e) # {}
        BY <3>1
      <4>2. RepoScopes(p, k) = Activate(p, e)
        BY <2>2, <4>1
      <4>3. QED
        BY <4>1, <4>2, PacksMean DEF RepoApplies
    <3>2. CASE \E a \in Range(p.agents) : a.skill = k
      <4>1. PICK a \in Range(p.agents) : a.skill = k
        BY <3>2
      <4>2. RepoScopes(p, k) = agentSkillScopes(a.anchor, a.globs)
        BY <2>3, <4>1
      <4>3. QED
        BY <4>1, <4>2, AgentsMean DEF RepoApplies
    <3>3. QED
      BY <1>2, <1>3, <1>4, <1>6, <2>5, <3>1, <3>2
  <2>6. QED
    BY <2>4, <2>5
<1>7. QED
  BY <1>5, <1>6

(* A dependency contributes what it exports, and the entries of its packs. *)
LEMMA DepMeans ==
  ASSUME "*" \in Wild, NEW p, PlainProject(p), NEW path \in AnyPath, path # <<>>, NEW k
  PROVE  /\ \A scope \in DepScopes(p, k) : PlainPattern(scope)
         /\ scopesMatchPath(DepScopes(p, k), path) <=> DepApplies(p, k, path)
         /\ scopesMatchPath(DepScopes(p, k), path) => k \in DepNames(p)
<1> DEFINE exported == {e \in p.deps : e.boundary \in Boundaries(p)}
           ScopesOf(d) == IF d.visibility = "public"
                          THEN {r.scope : r \in {s \in Rules(p) : s.boundary = d.boundary}}
                          ELSE {Append(d.root, "**")}
           active == {a \in Range(Activated(p)) : a.boundary \in Boundaries(p)}
           Rec(skill, scopes) == [skill |-> skill, scopes |-> scopes]
<1>1. /\ DepSkills(p) = {Rec(d.skill, ScopesOf(d)) : d \in exported} \cup {Rec(e.skill, e.scopes) : e \in active}
      /\ \A skill, scopes : Rec(skill, scopes).skill = skill /\ Rec(skill, scopes).scopes = scopes
  BY DEF DepSkills
<1> HIDE DEF Rec
<1>2. ASSUME NEW d \in exported
      PROVE  /\ \A scope \in ScopesOf(d) : PlainPattern(scope)
             /\ scopesMatchPath(ScopesOf(d), path) <=>
                  IF d.visibility = "public"
                  THEN \E r \in Rules(p) : r.boundary = d.boundary /\ GlobMatch(r.scope, path)
                  ELSE Inside(d.root, path)
  <2>1. NamedPath(d.root) /\ \A r \in Rules(p) : PlainPattern(r.scope)
    BY DEF PlainProject
  <2>2. CASE d.visibility = "public"
    <3>1. ScopesOf(d) = {r.scope : r \in {s \in Rules(p) : s.boundary = d.boundary}}
      BY <2>2
    <3> HIDE DEF ScopesOf
    <3>2. QED
      BY <2>1, <2>2, <3>1, MatchOfOne
  <2>3. CASE d.visibility # "public"
    <3>1. ScopesOf(d) = {Append(d.root, "**")}
      BY <2>3
    <3>2. PlainPattern(Append(d.root, "**")) /\ (GlobMatch(Append(d.root, "**"), path) <=> Inside(d.root, path))
      BY <2>1, PlainStars, BelowMeans
    <3> HIDE DEF ScopesOf
    <3>3. QED
      BY <2>3, <3>1, <3>2, MatchOfOne
  <2>4. QED
    BY <2>2, <2>3
<1> HIDE DEF ScopesOf
<1>3. active = {OfPack(p, e) : e \in {x \in Range(p.packs) : Activate(p, x) # {} /\ x.boundary \in Boundaries(p)}}
  <2>1. p.packs \in Seq(Range(p.packs))
    BY DEF PlainProject
  <2>2. \A e : OfPack(p, e).boundary = e.boundary
    BY DEF OfPack
  <2>3. QED
    BY <2>1, <2>2, ActivatedAre
<1>4. \A e : OfPack(p, e).skill = e.skill /\ OfPack(p, e).scopes = Activate(p, e)
  BY DEF OfPack
<1> HIDE DEF exported, active
<1>5. \A scopes : (\E d \in DepSkills(p) : d.skill = k /\ d.scopes = scopes) <=>
                    \/ \E d \in exported : d.skill = k /\ scopes = ScopesOf(d)
                    \/ \E e \in Range(p.packs) : /\ e.skill = k /\ e.boundary \in Boundaries(p)
                                                 /\ Activate(p, e) # {} /\ scopes = Activate(p, e)
  <2> SUFFICES ASSUME NEW scopes
               PROVE  (\E d \in DepSkills(p) : d.skill = k /\ d.scopes = scopes) <=>
                        \/ \E d \in exported : d.skill = k /\ scopes = ScopesOf(d)
                        \/ \E e \in Range(p.packs) : /\ e.skill = k /\ e.boundary \in Boundaries(p)
                                                     /\ Activate(p, e) # {} /\ scopes = Activate(p, e)
    OBVIOUS
  <2>1. (\E d \in DepSkills(p) : d.skill = k /\ d.scopes = scopes) <=>
          \/ \E d \in exported : d.skill = k /\ scopes = ScopesOf(d)
          \/ \E e \in active : e.skill = k /\ e.scopes = scopes
    BY <1>1
  <2>2. (\E e \in active : e.skill = k /\ e.scopes = scopes) <=>
          \E e \in Range(p.packs) : /\ e.skill = k /\ e.boundary \in Boundaries(p)
                                    /\ Activate(p, e) # {} /\ scopes = Activate(p, e)
    BY <1>3, <1>4
  <2>3. QED
    BY <2>1, <2>2
<1>6. DepScopes(p, k) = UNION {d.scopes : d \in {e \in DepSkills(p) : e.skill = k}}
  BY DEF DepScopes
<1> DEFINE OneOf(scopes) == \E d \in DepSkills(p) : d.skill = k /\ d.scopes = scopes
<1>7. \A scope : scope \in DepScopes(p, k) <=> \E scopes : OneOf(scopes) /\ scope \in scopes
  BY <1>6
<1>8. scopesMatchPath(DepScopes(p, k), path) <=> \E scopes : OneOf(scopes) /\ scopesMatchPath(scopes, path)
  <2> HIDE DEF OneOf
  <2>1. QED
    BY <1>7 DEF scopesMatchPath
<1>9. \A scopes : OneOf(scopes) => k \in DepNames(p)
  BY DEF DepNames
<1>10. \A scopes : OneOf(scopes) <=>
                    \/ \E d \in exported : d.skill = k /\ scopes = ScopesOf(d)
                    \/ \E e \in Range(p.packs) : /\ e.skill = k /\ e.boundary \in Boundaries(p)
                                                 /\ Activate(p, e) # {} /\ scopes = Activate(p, e)
  BY <1>5
<1> HIDE DEF OneOf
<1>11. ASSUME NEW scopes, OneOf(scopes)
       PROVE  /\ \A scope \in scopes : PlainPattern(scope)
              /\ scopesMatchPath(scopes, path) => DepApplies(p, k, path)
  <2>1. CASE \E d \in exported : d.skill = k /\ scopes = ScopesOf(d)
    BY <1>2, <2>1 DEF DepApplies, exported
  <2>2. CASE \E e \in Range(p.packs) : /\ e.skill = k /\ e.boundary \in Boundaries(p)
                                       /\ Activate(p, e) # {} /\ scopes = Activate(p, e)
    BY <2>2, PacksMean DEF DepApplies
  <2>3. QED
    BY <1>10, <1>11, <2>1, <2>2
<1>12. ASSUME DepApplies(p, k, path) PROVE \E scopes : OneOf(scopes) /\ scopesMatchPath(scopes, path)
  <2>1. ASSUME NEW e \in Range(p.packs), e.skill = k, e.boundary \in Boundaries(p), Covers(p, e, path)
        PROVE  \E scopes : OneOf(scopes) /\ scopesMatchPath(scopes, path)
    <3>1. scopesMatchPath(Activate(p, e), path)
      BY <2>1, PacksMean
    <3>2. Activate(p, e) # {}
      BY <3>1, NothingMatchesNone
    <3>3. OneOf(Activate(p, e))
      BY <1>10, <2>1, <3>2
    <3>4. QED
      BY <3>1, <3>3
  <2>2. ASSUME NEW d \in p.deps, d.skill = k, d.boundary \in Boundaries(p),
               IF d.visibility = "public"
               THEN \E r \in Rules(p) : r.boundary = d.boundary /\ GlobMatch(r.scope, path)
               ELSE Inside(d.root, path)
        PROVE  \E scopes : OneOf(scopes) /\ scopesMatchPath(scopes, path)
    <3>1. d \in exported
      BY <2>2 DEF exported
    <3>2. scopesMatchPath(ScopesOf(d), path)
      BY <1>2, <2>2, <3>1
    <3>3. OneOf(ScopesOf(d))
      BY <1>10, <2>2, <3>1
    <3>4. QED
      BY <3>2, <3>3
  <2>3. QED
    BY <1>12, <2>1, <2>2 DEF DepApplies
<1>13. QED
  BY <1>7, <1>8, <1>9, <1>11, <1>12

(* What scanner (scanner.go:89-358), linker (linker.go:30-158) and           *)
(* activation (pack.go:565-799) make of a project means to the matchers what *)
(* README.md says of rules, packs, agents and dependencies, if paths are of  *)
(* names that stand for themselves, no skill is found twice, and the globs   *)
(* of agents' skills mean what their authors wrote once they are qualified   *)
(* (PlainProjects, about constants alone).                                   *)
THEOREM ScopesMeanTheSame == ASSUME PlainProjects PROVE ScopesMean
<1> SUFFICES ASSUME NEW p \in Projects, NEW q \in Questions, q.path # NoPath
             PROVE  /\ \A k \in Range(Skills) :
                         /\ SkillApplies(p, k, q.path) =>
                              \/ k \in DepNames(p) /\ InScope(q, DepScopes(p, k))
                              \/ k \in RepoSkills(p) \ DepNames(p) /\ InScope(q, RepoScopes(p, k))
                         /\ k \in DepNames(p) /\ InScope(q, DepScopes(p, k)) => SkillApplies(p, k, q.path)
                         /\ k \in RepoSkills(p) /\ InScope(q, RepoScopes(p, k)) => SkillApplies(p, k, q.path)
                    /\ \A c \in Range(Capabilities) :
                         CapabilityApplies(p, c, q.path) <=>
                         c \in KnownCapabilities(p) /\ BoundTo(CapabilityScopes(p, c), q.path)
  BY DEF ScopesMean
<1>1. /\ "*" \in Wild /\ PlainProject(p) /\ FoundOnce(p)
      /\ q.path \in AnyPath /\ q.path # <<>> /\ GlobsQualify(p, q.path)
  BY DEF PlainProjects, NoPath
<1>2. ASSUME NEW k \in Range(Skills)
      PROVE  /\ SkillApplies(p, k, q.path) =>
                  \/ k \in DepNames(p) /\ InScope(q, DepScopes(p, k))
                  \/ k \in RepoSkills(p) \ DepNames(p) /\ InScope(q, RepoScopes(p, k))
             /\ k \in DepNames(p) /\ InScope(q, DepScopes(p, k)) => SkillApplies(p, k, q.path)
             /\ k \in RepoSkills(p) /\ InScope(q, RepoScopes(p, k)) => SkillApplies(p, k, q.path)
  <2>1. /\ k \in RepoSkills(p) => \A scope \in RepoScopes(p, k) : PlainPattern(scope)
        /\ k \in RepoSkills(p) /\ scopesMatchPath(RepoScopes(p, k), q.path) <=> RepoApplies(p, k, q.path)
    BY <1>1, RepoMeans
  <2>2. /\ \A scope \in DepScopes(p, k) : PlainPattern(scope)
        /\ scopesMatchPath(DepScopes(p, k), q.path) <=> DepApplies(p, k, q.path)
        /\ scopesMatchPath(DepScopes(p, k), q.path) => k \in DepNames(p)
    BY <1>1, DepMeans
  <2>3. InScope(q, DepScopes(p, k)) <=> scopesMatchPath(DepScopes(p, k), q.path)
    BY <1>1, <2>2, InScopeMeans
  <2>4. k \in RepoSkills(p) => (InScope(q, RepoScopes(p, k)) <=> scopesMatchPath(RepoScopes(p, k), q.path))
    BY <1>1, <2>1, InScopeMeans
  <2>5. SkillApplies(p, k, q.path) <=> RepoApplies(p, k, q.path) \/ DepApplies(p, k, q.path)
    BY AppliesSplit
  <2>6. k \in RepoSkills(p) => k \notin DepNames(p)
    BY <1>1 DEF FoundOnce
  <2>7. QED
    BY <2>1, <2>2, <2>3, <2>4, <2>5, <2>6
<1>3. ASSUME NEW c \in Range(Capabilities)
      PROVE  CapabilityApplies(p, c, q.path) <=>
             c \in KnownCapabilities(p) /\ BoundTo(CapabilityScopes(p, c), q.path)
  BY <1>1, CapabilitiesMean
<1>4. QED
  BY <1>2, <1>3

(* So for such projects listings are exact and hold nothing else, from what  *)
(* the project declares to the last page (README.md:400, query.go:213-370).  *)
THEOREM PlainListingsAreExact ==
  ASSUME PlainProjects
  PROVE  DiscoverySpec => []ListingExact /\ []NothingElse
<1>1. ScopesMean
  BY ScopesMeanTheSame
<1>2. (DiscoverySpec => []ListingExact) /\ (DiscoverySpec => []NothingElse)
  BY <1>1, ListingsAreExact, ListingsHoldNothingElse
<1>3. QED
  BY <1>2
=============================================================================
