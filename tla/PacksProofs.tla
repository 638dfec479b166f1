----------------------------- MODULE PacksProofs -----------------------------
(***************************************************************************)
(* Installs appear at once, only edited packs are refused, and the index   *)
(* holds what the registry signed, for any callers, versions, archives,    *)
(* publications and edits.                                                 *)
(***************************************************************************)
EXTENDS Packs, TLAPS

LEMMA Apart ==
  /\ None \notin Versions /\ None \notin Archives /\ Edited \notin Archives
  /\ None \notin Tree /\ None \notin Lock /\ EmptyTree \in Tree /\ EmptyTree # None
  /\ MaxCalls \in Nat /\ MaxEdits \in Nat /\ MaxPublish \in Nat
<1>1. EmptyTree \in Tree
  BY DEF EmptyTree, Tree
<1>2. QED
  BY <1>1, PacksAssumption, NoneAssumption DEF PacksAssumption

(* Entries the registry has signed, once for their version, and that can   *)
(* be installed.                                                           *)
Authentic(e) == \E m \in signed : OfVersion(m, e.version) = {e} /\ e.version \notin m.revoked
Genuine == {e \in Entry : Authentic(e) /\ e.archive \notin Unfit}

Chosen == {"fetch", "confirm", "target", "files", "lock", "save", "rename"}
Looking == {"archive", "compare"}

(* What an install has fetched, and what its stage holds so far.           *)
InstallOf(c) ==
  /\ pc[c] = "bundle" => job[c].manifest \in signed
  /\ pc[c] \in Chosen => /\ job[c].entry \in Entry /\ job[c].manifest \in signed
                         /\ OfVersion(job[c].manifest, job[c].entry.version) = {job[c].entry}
                         /\ job[c].entry.version \notin job[c].manifest.revoked
  /\ pc[c] \in Chosen \ {"fetch"} => job[c].entry.archive \notin Unfit
  /\ pc[c] \in {"files", "lock", "save", "rename"} => stages[c] \in Tree
  /\ pc[c] \in {"lock", "save", "rename"} => stages[c].files = job[c].entry.archive
  /\ pc[c] \in {"save", "rename"} =>
       stages[c].lock = [entry |-> job[c].entry, manifest |-> job[c].manifest]
  /\ pc[c] = "rename" => stages[c].archive = job[c].entry.archive
InstallInv == \A c \in Callers : InstallOf(c)

(* What a scan has loaded was signed, and so is what it is reading.        *)
ScanOf(c) ==
  /\ pc[c] = "idle" => job[c] = NoJob
  /\ job[c].scanning => job[c].kind # "list"
  /\ pc[c] \in {"clear", "insert"} => job[c].scanning
  /\ job[c].loaded \subseteq Genuine
  /\ pc[c] \in Looking => /\ job[c].at \in Versions /\ job[c].entry \in Entry
                          /\ job[c].entry.version = job[c].at /\ Authentic(job[c].entry)
  /\ pc[c] = "compare" => job[c].entry.archive \notin Unfit
ScanInv == \A c \in Callers : ScanOf(c)

(* A directory nobody has edited is missing or whole, and stays what a     *)
(* call has seen.                                                          *)
SeenBy(c) ==
  /\ \A v \in job[c].todo \ touched : installed[v] # None
  /\ pc[c] \in Looking /\ job[c].at \notin touched =>
       installed[job[c].at] # None /\ job[c].entry = installed[job[c].at].lock.entry
TouchInv ==
  /\ \A v \in Versions \ touched : installed[v] = None \/ Whole(installed[v], v)
  /\ \A c \in Callers : SeenBy(c)
IndexInv == \A v \in Versions : index[v] # None => [version |-> v, archive |-> index[v]] \in Genuine
Inv == TypeOK /\ InstallInv /\ ScanInv /\ TouchInv /\ IndexInv

Moves(c) == Begin(c) \/ Step(c) \/ \E v \in Versions : Refuse(c, v)

USE DEF Goto, Leave

---------------------------------------------------------------------------
(* Types.                                                                  *)

LEMMA InitTypes == Init => TypeOK
<1> SUFFICES ASSUME Init PROVE TypeOK
  OBVIOUS
<1>1. RegistryTypes
  BY Apart DEF Init, RegistryTypes, Manifest
<1>2. DiskTypes
  BY DEF Init, DiskTypes, Indexes
<1>3. CallTypes
  <2>1. NoJob \in Job
    BY DEF NoJob, Job
  <2>2. QED
    BY <2>1, Apart DEF Init, CallTypes, Places
<1>4. \A c \in Callers : pc[c] = "idle"
  BY DEF Init
<1>5. QED
  BY <1>1, <1>2, <1>3, <1>4 DEF TypeOK

LEMMA RegistryStep == TypeOK /\ Next => RegistryTypes' /\ signed \subseteq signed'
<1> SUFFICES ASSUME TypeOK, Next PROVE RegistryTypes' /\ signed \subseteq signed'
  OBVIOUS
<1>0. /\ manifest \in signed /\ signed \subseteq Manifest
      /\ edits \in 0..MaxEdits /\ touched \subseteq Versions
  BY DEF TypeOK, RegistryTypes
<1>1. CASE UNCHANGED world
  BY <1>0, <1>1 DEF world, RegistryTypes
<1>2. ASSUME NEW c \in Callers, Moves(c) PROVE UNCHANGED world
  BY <1>2 DEF Moves, Begin, Step, Refuse, FetchManifest, FetchBundle, FetchArchive, Confirm, MakeStage,
     WriteTree, WriteLock, SaveArchive, Write, Rename, ReadNames, ReadEvidence, ReadArchive, Compare,
     Listed, Clear, Insert, Fail
<1>3. CASE Publish
  <2>1. manifest' \in Manifest
    <3>1. manifest \in Manifest
      BY <1>0
    <3>2. QED
      BY <1>3, <3>1 DEF Publish, Manifest, Entry
  <2>2. signed' = signed \cup {manifest'} /\ UNCHANGED <<edits, touched>>
    BY <1>3 DEF Publish
  <2>3. QED
    BY <1>0, <2>1, <2>2 DEF RegistryTypes
<1>4. ASSUME NEW v \in Versions, Edit(v) PROVE RegistryTypes' /\ signed \subseteq signed'
  <2>1. edits' \in 0..MaxEdits
    BY <1>0, <1>4, Apart DEF Edit
  <2>2. touched' = touched \cup {v} /\ UNCHANGED <<manifest, signed>>
    BY <1>4 DEF Edit
  <2>3. QED
    BY <1>0, <2>1, <2>2 DEF RegistryTypes
<1>5. QED
  BY <1>1, <1>2, <1>3, <1>4 DEF Next, Moves

LEMMA Local ==
  ASSUME TypeOK, NEW c \in Callers, Moves(c)
  PROVE  /\ \A d \in Callers \ {c} : pc'[d] = pc[d] /\ job'[d] = job[d] /\ stages'[d] = stages[d]
         /\ UNCHANGED world
<1>1. pc \in [Callers -> Places] /\ job \in [Callers -> Job] /\ stages \in [Callers -> Tree \cup {None}]
  BY DEF TypeOK, CallTypes, DiskTypes
<1>2. \A d \in Callers \ {c} : pc'[d] = pc[d]
  BY <1>1 DEF Moves, Begin, Step, Refuse, FetchManifest, FetchBundle, FetchArchive, Confirm, MakeStage,
     WriteTree, WriteLock, SaveArchive, Write, Rename, ReadNames, ReadEvidence, ReadArchive, Compare,
     Listed, Clear, Insert, Fail
<1>3. \A d \in Callers \ {c} : job'[d] = job[d]
  BY <1>1 DEF Moves, Begin, Step, Refuse, FetchManifest, FetchBundle, FetchArchive, Confirm, MakeStage,
     WriteTree, WriteLock, SaveArchive, Write, Rename, ReadNames, ReadEvidence, ReadArchive, Compare,
     Listed, Clear, Insert, Fail
<1>4. \A d \in Callers \ {c} : stages'[d] = stages[d]
  BY <1>1 DEF Moves, Begin, Step, Refuse, FetchManifest, FetchBundle, FetchArchive, Confirm, MakeStage,
     WriteTree, WriteLock, SaveArchive, Write, Rename, ReadNames, ReadEvidence, ReadArchive, Compare,
     Listed, Clear, Insert, Fail, disk
<1>5. UNCHANGED world
  BY DEF Moves, Begin, Step, Refuse, FetchManifest, FetchBundle, FetchArchive, Confirm, MakeStage,
     WriteTree, WriteLock, SaveArchive, Write, Rename, ReadNames, ReadEvidence, ReadArchive, Compare,
     Listed, Clear, Insert, Fail
<1>6. QED
  BY <1>2, <1>3, <1>4, <1>5

(* What a refused directory leaves of the call.                            *)
LEMMA Refused ==
  ASSUME TypeOK, NEW c \in Callers, NEW v \in Versions, Refuse(c, v)
  PROVE  /\ pc'[c] \in {"evidence", "idle"} /\ UNCHANGED disk
         /\ job'[c] \in {NoJob, [job[c] EXCEPT !.todo = job[c].todo \ {v}, !.at = None]}
<1>1. pc \in [Callers -> Places] /\ job \in [Callers -> Job]
  BY DEF TypeOK, CallTypes
<1>2. QED
  BY <1>1 DEF Refuse

LEMMA CallStep == TypeOK /\ ScanInv /\ Next => CallTypes'
<1> SUFFICES ASSUME TypeOK, ScanInv, Next PROVE CallTypes'
  OBVIOUS
<1>0. /\ pc \in [Callers -> Places] /\ job \in [Callers -> Job] /\ calls \in 0..MaxCalls
      /\ installed \in [Versions -> Tree \cup {None}]
      /\ manifest \in Manifest
  BY DEF TypeOK, RegistryTypes, CallTypes, DiskTypes
<1>1. ASSUME NEW c \in Callers, Moves(c) PROVE CallTypes'
  <2> USE DEF CallTypes
  <2>0. job[c] \in Job /\ NoJob \in Job
    BY <1>0 DEF NoJob, Job
  <2>1. CASE Begin(c)
    <3>1. PICK kind \in {"get", "list", "refresh"} :
            /\ job' = [job EXCEPT ![c].kind = kind]
            /\ pc' = [pc EXCEPT ![c] = IF kind = "get" THEN "manifest" ELSE "list"]
      BY <2>1 DEF Begin
    <3>2. pc' \in [Callers -> Places]
      BY <1>0, <3>1 DEF Places
    <3>3. [job[c] EXCEPT !.kind = kind] \in Job
      BY <2>0 DEF Job
    <3>4. job' \in [Callers -> Job]
      BY <1>0, <3>1, <3>3
    <3>5. calls' \in 0..MaxCalls
      BY <1>0, <2>1, Apart DEF Begin
    <3>6. QED
      BY <3>2, <3>4, <3>5
  <2>2. ASSUME Step(c) \/ \E v \in Versions : Refuse(c, v) PROVE calls' = calls /\ pc' \in [Callers -> Places]
    <3>1. calls' = calls
      BY <2>2 DEF Step, Refuse, FetchManifest, FetchBundle, FetchArchive, Confirm, MakeStage,
         WriteTree, WriteLock, SaveArchive, Write, Rename, ReadNames, ReadEvidence, ReadArchive, Compare,
         Listed, Clear, Insert, Fail
    <3>2. \E p \in Places : pc' = [pc EXCEPT ![c] = p]
      BY <2>2, <1>0 DEF Step, Refuse, FetchManifest, FetchBundle, FetchArchive, Confirm, MakeStage,
         WriteTree, WriteLock, SaveArchive, Write, Rename, ReadNames, ReadEvidence, ReadArchive, Compare,
         Listed, Clear, Insert, Fail, Places
    <3>3. QED
      BY <3>1, <3>2, <1>0
  <2>3. CASE UNCHANGED job
    BY <2>1, <2>2, <2>3, <1>0, <1>1 DEF Moves
  <2>4. ASSUME \E j \in Job : job' = [job EXCEPT ![c] = j], ~Begin(c) PROVE CallTypes'
    BY <2>2, <2>4, <1>0, <1>1 DEF Moves
  <2>5. CASE FetchManifest(c)
    <3>1. [job[c] EXCEPT !.manifest = manifest] \in Job
      BY <1>0, <2>0 DEF Job
    <3>2. job' = [job EXCEPT ![c] = [job[c] EXCEPT !.manifest = manifest]]
      BY <1>0, <2>5 DEF FetchManifest
    <3>3. QED
      BY <2>1, <2>4, <3>1, <3>2
  <2>6. CASE FetchBundle(c)
    <3>1. PICK e \in Entry : job' = [job EXCEPT ![c].entry = e]
      BY <2>6 DEF FetchBundle
    <3>2. [job[c] EXCEPT !.entry = e] \in Job
      BY <2>0 DEF Job
    <3>3. job' = [job EXCEPT ![c] = [job[c] EXCEPT !.entry = e]]
      BY <1>0, <3>1
    <3>4. QED
      BY <2>1, <2>4, <3>2, <3>3
  <2>7. CASE ReadNames(c)
    <3>1. PICK t \in SUBSET Versions : job' = [job EXCEPT ![c].todo = t]
      BY <2>7 DEF ReadNames, Named, WithManifest
    <3>2. [job[c] EXCEPT !.todo = t] \in Job
      BY <2>0 DEF Job
    <3>3. job' = [job EXCEPT ![c] = [job[c] EXCEPT !.todo = t]]
      BY <1>0, <3>1
    <3>4. QED
      BY <2>1, <2>4, <3>2, <3>3
  <2>8. CASE ReadEvidence(c)
    <3>1. PICK v \in job[c].todo : /\ installed[v] # None /\ Holds(installed[v].lock, v)
                                   /\ job' = [job EXCEPT ![c].at = v, ![c].entry = installed[v].lock.entry]
      BY <2>8 DEF ReadEvidence
    <3>2. v \in Versions /\ installed[v].lock.entry \in Entry
      BY <1>0, <2>0, <3>1 DEF Job, Tree, Lock, Holds
    <3>3. [job[c] EXCEPT !.at = v, !.entry = installed[v].lock.entry] \in Job
      BY <2>0, <3>2 DEF Job
    <3>4. job' = [job EXCEPT ![c] = [job[c] EXCEPT !.at = v, !.entry = installed[v].lock.entry]]
      BY <1>0, <3>1
    <3>5. QED
      BY <2>1, <2>4, <3>3, <3>4
  <2>9. CASE Compare(c)
    <3>1. installed[job[c].at].files = job[c].entry.archive /\ pc[c] = "compare"
      BY <2>9 DEF Compare
    <3>2. PICK j : j = [job[c] EXCEPT !.todo = @ \ {job[c].at}, !.at = None, !.loaded = Load(c)]
      OBVIOUS
    <3>3. job' = [job EXCEPT ![c] = j]
      BY <1>0, <2>9, <3>2 DEF Compare
    <3>4. Load(c) \subseteq Entry
      BY <2>0, <3>1 DEF Job, Load, ScanInv, ScanOf, Looking
    <3>5. j \in Job
      BY <2>0, <3>2, <3>4 DEF Job
    <3>6. QED
      BY <2>1, <2>4, <3>3, <3>5
  <2>10. CASE Listed(c)
    <3>1. [job[c] EXCEPT !.scanning = TRUE] \in Job
      BY <2>0 DEF Job
    <3>2. \/ job' = job \/ job' = [job EXCEPT ![c] = NoJob]
          \/ job' = [job EXCEPT ![c] = [job[c] EXCEPT !.scanning = TRUE]]
      BY <1>0, <2>10 DEF Listed
    <3>3. QED
      BY <2>0, <2>1, <2>3, <2>4, <3>1, <3>2
  <2>11. ASSUME NEW v \in Versions, Refuse(c, v) PROVE CallTypes'
    <3>1. [job[c] EXCEPT !.todo = job[c].todo \ {v}, !.at = None] \in Job
      BY <2>0 DEF Job
    <3>2. \/ job' = [job EXCEPT ![c] = NoJob]
          \/ job' = [job EXCEPT ![c] = [job[c] EXCEPT !.todo = job[c].todo \ {v}, !.at = None]]
      BY <1>0, <2>11 DEF Refuse
    <3>3. QED
      BY <2>0, <2>1, <2>4, <3>1, <3>2
  <2>12. CASE Confirm(c) \/ Insert(c) \/ Fail(c)
    <3>1. job' = job \/ job' = [job EXCEPT ![c] = NoJob]
      BY <2>12 DEF Confirm, Insert, Fail
    <3>2. QED
      BY <2>0, <2>1, <2>3, <2>4, <3>1
  <2>13. CASE \/ FetchArchive(c) \/ MakeStage(c) \/ WriteTree(c) \/ WriteLock(c) \/ SaveArchive(c)
              \/ Rename(c) \/ ReadArchive(c) \/ Clear(c)
    <3>1. job' = job
      BY <2>13 DEF FetchArchive, MakeStage, WriteTree, WriteLock, SaveArchive, Write, Rename, ReadArchive, Clear
    <3>2. QED
      BY <2>3, <3>1
  <2>20. QED
    BY <1>1, <2>1, <2>5, <2>6, <2>7, <2>8, <2>9, <2>10, <2>11, <2>12, <2>13 DEF Moves, Step
<1>2. CASE Publish \/ \E v \in Versions : Edit(v)
  BY <1>0, <1>2 DEF Publish, Edit, CallTypes
<1>20. QED
  BY <1>1, <1>2 DEF Next, Moves

LEMMA DiskStep == TypeOK /\ InstallInv /\ ScanInv /\ Next => DiskTypes'
<1> SUFFICES ASSUME TypeOK, InstallInv, ScanInv, Next PROVE DiskTypes'
  OBVIOUS
<1>0. /\ installed \in [Versions -> Tree \cup {None}] /\ stages \in [Callers -> Tree \cup {None}]
      /\ index \in Indexes /\ job \in [Callers -> Job] /\ signed \subseteq Manifest
  BY DEF TypeOK, DiskTypes, CallTypes, RegistryTypes
<1>1. CASE UNCHANGED disk
  BY <1>0, <1>1 DEF disk, DiskTypes
<1>2. ASSUME NEW c \in Callers, Moves(c) PROVE DiskTypes'
  <2>1. CASE MakeStage(c) \/ WriteTree(c) \/ WriteLock(c) \/ SaveArchive(c)
    <3>1. \E tree \in Tree : stages' = [stages EXCEPT ![c] = tree]
      <4>1. CASE MakeStage(c)
        BY <4>1, Apart DEF MakeStage, Write
      <4>2. CASE WriteTree(c)
        <5>1. stages[c] \in Tree /\ job[c].entry \in Entry
          BY <4>2 DEF WriteTree, InstallInv, InstallOf, Chosen
        <5>2. [stages[c] EXCEPT !.files = job[c].entry.archive] \in Tree
          BY <5>1 DEF Tree, Entry
        <5>3. QED
          BY <4>2, <5>2 DEF WriteTree, Write
      <4>3. CASE WriteLock(c)
        <5>1. stages[c] \in Tree /\ job[c].entry \in Entry /\ job[c].manifest \in Manifest
          BY <1>0, <4>3 DEF WriteLock, InstallInv, InstallOf, Chosen
        <5>2. [entry |-> job[c].entry, manifest |-> job[c].manifest] \in Lock
          BY <5>1 DEF Lock
        <5>3. [stages[c] EXCEPT !.lock = [entry |-> job[c].entry, manifest |-> job[c].manifest]] \in Tree
          BY <5>1, <5>2 DEF Tree
        <5>4. QED
          BY <4>3, <5>3 DEF WriteLock, Write
      <4>4. CASE SaveArchive(c)
        <5>1. stages[c] \in Tree /\ job[c].entry \in Entry
          BY <4>4 DEF SaveArchive, InstallInv, InstallOf, Chosen
        <5>2. [stages[c] EXCEPT !.archive = job[c].entry.archive] \in Tree
          BY <5>1 DEF Tree, Entry
        <5>3. QED
          BY <4>4, <5>2 DEF SaveArchive, Write
      <4>5. QED
        BY <2>1, <4>1, <4>2, <4>3, <4>4
    <3>2. UNCHANGED <<installed, index>>
      BY <2>1 DEF MakeStage, WriteTree, WriteLock, SaveArchive, Write
    <3>3. QED
      BY <1>0, <3>1, <3>2 DEF DiskTypes, Indexes
  <2>2. CASE Rename(c)
    <3>1. stages[c] \in Tree /\ job[c].entry.version \in Versions
      BY <2>2 DEF Rename, InstallInv, InstallOf, Chosen, Entry
    <3>2. /\ installed' = [installed EXCEPT ![job[c].entry.version] = stages[c]]
          /\ stages' = [stages EXCEPT ![c] = None] /\ index' = index
      BY <2>2 DEF Rename
    <3>3. QED
      BY <1>0, <3>1, <3>2 DEF DiskTypes, Indexes
  <2>3. CASE Clear(c) \/ Insert(c)
    <3>1. index' \in Indexes
      BY <2>3 DEF Clear, Insert, Indexes, Skills
    <3>2. UNCHANGED <<installed, stages>>
      BY <2>3 DEF Clear, Insert
    <3>3. QED
      BY <1>0, <3>1, <3>2 DEF DiskTypes, Indexes
  <2>4. CASE Fail(c)
    <3>1. stages' \in [Callers -> Tree \cup {None}]
      BY <1>0, <2>4 DEF Fail
    <3>2. QED
      BY <1>0, <2>4, <3>1 DEF Fail, DiskTypes, Indexes
  <2>5. CASE \/ Begin(c) \/ FetchManifest(c) \/ FetchBundle(c) \/ FetchArchive(c) \/ Confirm(c)
             \/ ReadNames(c) \/ ReadEvidence(c) \/ ReadArchive(c) \/ Compare(c) \/ Listed(c)
             \/ \E v \in Versions : Refuse(c, v)
    <3>1. UNCHANGED disk
      BY <2>5 DEF Begin, FetchManifest, FetchBundle, FetchArchive, Confirm, ReadNames, ReadEvidence,
         ReadArchive, Compare, Listed, Refuse
    <3>2. QED
      BY <1>1, <3>1
  <2>6. QED
    BY <1>2, <2>1, <2>2, <2>3, <2>4, <2>5 DEF Moves, Step
<1>3. CASE Publish
  BY <1>1, <1>3 DEF Publish
<1>4. ASSUME NEW v \in Versions, Edit(v) PROVE DiskTypes'
  <2>1. \E tree \in Tree \cup {None} : installed' = [installed EXCEPT ![v] = tree]
    <3>1. PICK tree \in IF installed[v] = None THEN {EmptyTree}
            ELSE {None} \cup {[installed[v] EXCEPT !.files = Edited], [installed[v] EXCEPT !.archive = Edited],
                              [installed[v] EXCEPT !.lock = None]}
                 \cup {[installed[v] EXCEPT !.lock = l] : l \in [entry : Entry, manifest : signed]} :
            installed' = [installed EXCEPT ![v] = tree]
      BY <1>4 DEF Edit
    <3>2. CASE tree \in {None, EmptyTree}
      BY <3>1, <3>2, Apart
    <3>3. CASE tree \notin {None, EmptyTree}
      <4>1. installed[v] \in Tree
        BY <1>0, <3>1, <3>3
      <4>2. \A l \in [entry : Entry, manifest : signed] : l \in Lock
        BY <1>0 DEF Lock
      <4>3. \A l \in Lock \cup {None} : [installed[v] EXCEPT !.lock = l] \in Tree
        BY <4>1 DEF Tree
      <4>4. [installed[v] EXCEPT !.files = Edited] \in Tree /\ [installed[v] EXCEPT !.archive = Edited] \in Tree
        BY <4>1 DEF Tree
      <4>5. tree \in Tree
        BY <3>1, <3>3, <4>2, <4>3, <4>4
      <4>6. QED
        BY <3>1, <4>5
    <3>4. QED
      BY <3>2, <3>3
  <2>2. UNCHANGED <<stages, index>>
    BY <1>4 DEF Edit
  <2>3. QED
    BY <1>0, <2>1, <2>2 DEF DiskTypes, Indexes
<1>5. QED
  BY <1>2, <1>3, <1>4 DEF Next, Moves

---------------------------------------------------------------------------
(* What was signed stays signed.                                           *)

LEMMA Signed ==
  ASSUME signed \subseteq signed'
  PROVE  /\ Genuine \subseteq Genuine'
         /\ \A e : Authentic(e) => Authentic(e)'
         /\ \A tree, v : Whole(tree, v) => Whole(tree, v)'
<1>1. \A e : Authentic(e) => Authentic(e)'
  BY DEF Authentic
<1>2. \A lock, v : Holds(lock, v) => Holds(lock, v)'
  BY DEF Holds
<1>3. \A tree, v : Whole(tree, v) => Whole(tree, v)'
  BY <1>2 DEF Whole
<1>4. Genuine \subseteq Genuine'
  BY <1>1 DEF Genuine
<1>5. QED
  BY <1>1, <1>3, <1>4

---------------------------------------------------------------------------
(* An install.                                                             *)

LEMMA InstallStep == TypeOK /\ InstallInv /\ Next => InstallInv'
<1> SUFFICES ASSUME TypeOK, InstallInv, Next PROVE InstallInv'
  OBVIOUS
<1>0. /\ pc \in [Callers -> Places] /\ job \in [Callers -> Job] /\ stages \in [Callers -> Tree \cup {None}]
      /\ manifest \in signed /\ signed \subseteq signed'
  BY RegistryStep DEF TypeOK, RegistryTypes, CallTypes, DiskTypes
<1>1. ASSUME NEW d \in Callers, pc'[d] = pc[d], job'[d] = job[d], stages'[d] = stages[d]
      PROVE  InstallOf(d)'
  <2>1. InstallOf(d)
    BY DEF InstallInv
  <2>2. QED
    BY <1>0, <1>1, <2>1 DEF InstallOf
<1>2. CASE UNCHANGED <<pc, job, stages>>
  BY <1>1, <1>2 DEF InstallInv
<1>3. ASSUME NEW c \in Callers, Moves(c) PROVE InstallInv'
  <2>1. \A d \in Callers \ {c} : InstallOf(d)'
    BY <1>1, <1>3, Local
  <2> SUFFICES InstallOf(c)'
    BY <2>1 DEF InstallInv
  <2>2. InstallOf(c)
    BY DEF InstallInv
  <2>3. ASSUME pc'[c] \notin Chosen \cup {"bundle"} PROVE InstallOf(c)'
    BY <2>3 DEF InstallOf, Chosen
  <2>4. CASE FetchManifest(c)
    <3>1. pc'[c] = "bundle" /\ job'[c].manifest = manifest
      BY <1>0, <2>4 DEF FetchManifest, Job
    <3>2. QED
      BY <1>0, <3>1 DEF InstallOf, Chosen
  <2>5. CASE FetchBundle(c)
    <3>1. PICK e \in Entry : Resolves(manifest, e) /\ job' = [job EXCEPT ![c].entry = e]
      BY <2>5 DEF FetchBundle
    <3>2. pc'[c] = "fetch" /\ job'[c].entry = e /\ job'[c].manifest = manifest
      BY <1>0, <2>5, <3>1 DEF FetchBundle, Job
    <3>3. OfVersion(manifest, e.version) = {e}
      BY <3>1 DEF Resolves, Unambiguous, OfVersion
    <3>4. e.version \notin manifest.revoked
      BY <3>1 DEF Resolves
    <3>5. QED
      BY <1>0, <3>2, <3>3, <3>4 DEF InstallOf, Chosen
  <2>6. CASE FetchArchive(c)
    <3>1. /\ pc[c] = "fetch" /\ pc'[c] = "confirm" /\ job'[c] = job[c]
          /\ job[c].entry.archive \notin Unfit
      BY <1>0, <2>6 DEF FetchArchive, Verified
    <3>2. QED
      BY <1>0, <2>2, <3>1 DEF InstallOf, Chosen
  <2>7. CASE Confirm(c)
    <3>1. \/ pc'[c] = "idle"
          \/ pc[c] = "confirm" /\ pc'[c] = "target" /\ job'[c] = job[c]
      BY <1>0, <2>7 DEF Confirm
    <3>2. QED
      BY <1>0, <2>2, <3>1 DEF InstallOf, Chosen
  <2>8. CASE MakeStage(c)
    <3>1. pc[c] = "target" /\ pc'[c] = "files" /\ job'[c] = job[c] /\ stages'[c] \in Tree
      BY <1>0, <2>8, Apart DEF MakeStage, Write
    <3>2. QED
      BY <1>0, <2>2, <3>1 DEF InstallOf, Chosen
  <2>9. CASE WriteTree(c)
    <3>1. pc[c] = "files" /\ pc'[c] = "lock" /\ job'[c] = job[c]
      BY <1>0, <2>9 DEF WriteTree, Write
    <3>2. stages[c] \in Tree /\ job[c].entry \in Entry
      BY <2>2, <3>1 DEF InstallOf, Chosen
    <3>3. stages'[c] \in Tree /\ stages'[c].files = job[c].entry.archive
      BY <1>0, <2>9, <3>2 DEF WriteTree, Write, Tree, Entry
    <3>4. QED
      BY <1>0, <2>2, <3>1, <3>3 DEF InstallOf, Chosen
  <2>10. CASE WriteLock(c)
    <3>1. pc[c] = "lock" /\ pc'[c] = "save" /\ job'[c] = job[c]
      BY <1>0, <2>10 DEF WriteLock, Write
    <3>2. stages[c] \in Tree /\ stages[c].files = job[c].entry.archive
      BY <2>2, <3>1 DEF InstallOf
    <3>3. /\ stages'[c].files = job[c].entry.archive
          /\ stages'[c].lock = [entry |-> job[c].entry, manifest |-> job[c].manifest]
      BY <1>0, <2>10, <3>2 DEF WriteLock, Write, Tree
    <3>4. stages'[c] \in Tree
      <4>1. [entry |-> job[c].entry, manifest |-> job[c].manifest] \in Lock
        BY <1>0, <2>2, <3>1 DEF InstallOf, Chosen, Lock, TypeOK, RegistryTypes
      <4>2. QED
        BY <1>0, <2>10, <3>2, <4>1 DEF WriteLock, Write, Tree
    <3>5. QED
      BY <1>0, <2>2, <3>1, <3>3, <3>4 DEF InstallOf, Chosen
  <2>11. CASE SaveArchive(c)
    <3>1. pc[c] = "save" /\ pc'[c] = "rename" /\ job'[c] = job[c]
      BY <1>0, <2>11 DEF SaveArchive, Write
    <3>2. /\ stages[c] \in Tree /\ stages[c].files = job[c].entry.archive /\ job[c].entry \in Entry
          /\ stages[c].lock = [entry |-> job[c].entry, manifest |-> job[c].manifest]
      BY <2>2, <3>1 DEF InstallOf, Chosen
    <3>3. stages'[c] = [stages[c] EXCEPT !.archive = job[c].entry.archive]
      BY <1>0, <2>11 DEF SaveArchive, Write
    <3>4. /\ stages'[c] \in Tree /\ stages'[c].files = stages[c].files
          /\ stages'[c].lock = stages[c].lock /\ stages'[c].archive = job[c].entry.archive
      BY <3>2, <3>3 DEF Tree, Entry
    <3>5. QED
      BY <1>0, <2>2, <3>1, <3>2, <3>4 DEF InstallOf, Chosen
  <2>12. CASE \/ Begin(c) \/ Rename(c) \/ ReadNames(c) \/ ReadEvidence(c) \/ ReadArchive(c) \/ Compare(c)
              \/ Listed(c) \/ Clear(c) \/ Insert(c) \/ Fail(c) \/ \E v \in Versions : Refuse(c, v)
    <3>1. pc'[c] \in {"idle", "manifest", "list", "evidence", "archive", "compare", "clear", "insert"}
      BY <1>0, <2>12 DEF Begin, Rename, ReadNames, ReadEvidence, ReadArchive, Compare, Listed, Clear,
         Insert, Fail, Refuse
    <3>2. QED
      BY <2>3, <3>1 DEF Chosen
  <2>13. QED
    BY <1>3, <2>4, <2>5, <2>6, <2>7, <2>8, <2>9, <2>10, <2>11, <2>12 DEF Moves, Step
<1>4. CASE Publish \/ \E v \in Versions : Edit(v)
  BY <1>2, <1>4 DEF Publish, Edit, disk
<1>5. QED
  BY <1>3, <1>4 DEF Next, Moves

---------------------------------------------------------------------------
(* A scan.                                                                 *)

LEMMA ScanStep == TypeOK /\ ScanInv /\ Next => ScanInv'
<1> SUFFICES ASSUME TypeOK, ScanInv, Next PROVE ScanInv'
  OBVIOUS
<1>0. /\ pc \in [Callers -> Places] /\ job \in [Callers -> Job]
      /\ installed \in [Versions -> Tree \cup {None}] /\ signed \subseteq signed'
  BY RegistryStep DEF TypeOK, CallTypes, DiskTypes
<1>1. Genuine \subseteq Genuine' /\ \A e : Authentic(e) => Authentic(e)'
  BY <1>0, Signed
<1>2. ASSUME NEW d \in Callers, pc'[d] = pc[d], job'[d] = job[d] PROVE ScanOf(d)'
  <2>1. ScanOf(d)
    BY DEF ScanInv
  <2>2. /\ pc[d] = "idle" => job[d] = NoJob
        /\ job[d].scanning => job[d].kind # "list"
        /\ pc[d] \in {"clear", "insert"} => job[d].scanning
        /\ job[d].loaded \subseteq Genuine'
        /\ pc[d] = "compare" => job[d].entry.archive \notin Unfit
    BY <1>1, <2>1 DEF ScanOf
  <2>3. ASSUME pc[d] \in Looking
        PROVE  /\ job[d].at \in Versions /\ job[d].entry \in Entry
               /\ job[d].entry.version = job[d].at /\ (\A e : e = job[d].entry => Authentic(e)')
    BY <1>1, <2>1, <2>3 DEF ScanOf
  <2>4. pc'[d] \in Looking => Authentic(job[d].entry)'
    BY <1>2, <2>3 DEF Authentic
  <2>5. QED
    BY <1>2, <2>2, <2>3, <2>4 DEF ScanOf
<1>3. CASE UNCHANGED <<pc, job>>
  BY <1>2, <1>3 DEF ScanInv
<1>4. ASSUME NEW c \in Callers, Moves(c) PROVE ScanInv'
  <2>1. \A d \in Callers \ {c} : ScanOf(d)'
    BY <1>2, <1>4, Local
  <2> SUFFICES ScanOf(c)'
    BY <2>1 DEF ScanInv
  <2>2. ScanOf(c) /\ job[c] \in Job /\ UNCHANGED signed
    BY <1>0, <1>4, Local DEF ScanInv, world
  <2>3. Genuine' = Genuine /\ (\A e : Authentic(e)' <=> Authentic(e))
    BY <2>2 DEF Genuine, Authentic
  <2>4. ASSUME pc'[c] \notin Looking \cup {"idle", "clear", "insert"}, job'[c].loaded = job[c].loaded,
               job'[c].scanning => job'[c].kind # "list"
        PROVE  ScanOf(c)'
    BY <2>2, <2>3, <2>4 DEF ScanOf, Looking
  <2>5. ASSUME pc'[c] = "idle", job'[c] = NoJob PROVE ScanOf(c)'
    BY <2>5 DEF ScanOf, NoJob, Looking
  <2>6. CASE Begin(c)
    <3>1. PICK kind \in {"get", "list", "refresh"} :
            /\ job' = [job EXCEPT ![c].kind = kind]
            /\ pc' = [pc EXCEPT ![c] = IF kind = "get" THEN "manifest" ELSE "list"]
      BY <2>6 DEF Begin
    <3>2. pc[c] = "idle" /\ job[c] = NoJob
      BY <2>2, <2>6 DEF Begin, ScanOf
    <3>3. job'[c] = [job[c] EXCEPT !.kind = kind]
      BY <1>0, <3>1
    <3>4. job'[c].loaded = job[c].loaded /\ job'[c].scanning = FALSE
      BY <3>2, <3>3 DEF NoJob
    <3>5. pc'[c] \in {"manifest", "list"}
      BY <1>0, <3>1
    <3>6. QED
      BY <2>4, <3>4, <3>5 DEF Looking
  <2>7. CASE FetchManifest(c) \/ FetchBundle(c) \/ ReadNames(c)
    <3>1. pc'[c] \in {"bundle", "fetch", "evidence"}
      BY <1>0, <2>7 DEF FetchManifest, FetchBundle, ReadNames
    <3>2. \/ job'[c] = [job[c] EXCEPT !.manifest = manifest]
          \/ \E e : job'[c] = [job[c] EXCEPT !.entry = e]
          \/ \E t : job'[c] = [job[c] EXCEPT !.todo = t]
      BY <1>0, <2>7 DEF FetchManifest, FetchBundle, ReadNames
    <3>3. /\ job'[c].loaded = job[c].loaded
          /\ job'[c].scanning = job[c].scanning /\ job'[c].kind = job[c].kind
      BY <2>2, <3>2 DEF Job
    <3>4. QED
      BY <2>2, <2>4, <3>1, <3>3 DEF Looking, ScanOf
  <2>8. CASE ReadEvidence(c)
    <3>1. PICK v \in job[c].todo : /\ installed[v] # None /\ Holds(installed[v].lock, v)
                                   /\ job' = [job EXCEPT ![c].at = v, ![c].entry = installed[v].lock.entry]
      BY <2>8 DEF ReadEvidence
    <3>2. v \in Versions /\ installed[v].lock.entry \in Entry /\ installed[v].lock.entry.version = v
      BY <1>0, <2>2, <3>1 DEF Job, Tree, Lock, Holds
    <3>3. Authentic(installed[v].lock.entry)
      BY <3>1 DEF Holds, Authentic
    <3>4. job'[c] = [job[c] EXCEPT !.at = v, !.entry = installed[v].lock.entry] /\ pc'[c] = "archive"
      BY <1>0, <2>8, <3>1 DEF ReadEvidence
    <3>5. /\ job'[c].at = v /\ job'[c].entry = installed[v].lock.entry /\ job'[c].loaded = job[c].loaded
          /\ job'[c].scanning = job[c].scanning /\ job'[c].kind = job[c].kind
      BY <2>2, <3>4 DEF Job
    <3>6. Authentic(job[c].entry)'
      BY <2>2, <3>3, <3>5 DEF Authentic
    <3>7. QED
      BY <2>2, <2>3, <3>2, <3>4, <3>5, <3>6 DEF ScanOf, Looking
  <2>9. CASE ReadArchive(c)
    <3>1. /\ pc[c] = "archive" /\ pc'[c] = "compare" /\ job'[c] = job[c]
          /\ job[c].entry.archive \notin Unfit
      BY <1>0, <2>9 DEF ReadArchive, Verified
    <3>2. Authentic(job[c].entry)'
      BY <2>2, <3>1 DEF Authentic, ScanOf, Looking
    <3>3. QED
      BY <2>2, <2>3, <3>1, <3>2 DEF ScanOf, Looking
  <2>10. CASE Compare(c)
    <3>1. pc[c] = "compare" /\ pc'[c] = "evidence"
      BY <1>0, <2>10 DEF Compare
    <3>2. job[c].entry \in Genuine
      BY <2>2, <3>1 DEF ScanOf, Looking, Genuine
    <3>3. Load(c) \subseteq Genuine
      BY <2>2, <3>2 DEF ScanOf, Load
    <3>4. job'[c] = [job[c] EXCEPT !.todo = job[c].todo \ {job[c].at}, !.at = None, !.loaded = Load(c)]
      BY <1>0, <2>10 DEF Compare
    <3>5. /\ job'[c].loaded = Load(c)
          /\ job'[c].scanning = job[c].scanning /\ job'[c].kind = job[c].kind
      BY <2>2, <3>4 DEF Job
    <3>6. QED
      BY <2>2, <2>3, <3>1, <3>3, <3>5 DEF ScanOf, Looking
  <2>11. ASSUME NEW v \in Versions, Refuse(c, v) PROVE ScanOf(c)'
    <3>1. CASE job[c].scanning
      <4>1. pc'[c] = "evidence" /\ job'[c] = [job[c] EXCEPT !.todo = job[c].todo \ {v}, !.at = None]
        BY <1>0, <2>11, <3>1 DEF Refuse
      <4>2. /\ job'[c].loaded = job[c].loaded
            /\ job'[c].scanning = job[c].scanning /\ job'[c].kind = job[c].kind
        BY <2>2, <4>1 DEF Job
      <4>3. QED
        BY <2>2, <2>4, <4>1, <4>2 DEF Looking, ScanOf
    <3>2. CASE ~job[c].scanning
      BY <1>0, <2>5, <2>11, <3>2 DEF Refuse
    <3>3. QED
      BY <3>1, <3>2
  <2>12. CASE Listed(c)
    <3>1. CASE job[c].kind # "list" /\ pc'[c] = "list" /\ job'[c] = [job[c] EXCEPT !.scanning = TRUE]
      <4>1. job'[c].loaded = job[c].loaded /\ job'[c].kind = job[c].kind
        BY <2>2, <3>1 DEF Job
      <4>2. QED
        BY <2>4, <3>1, <4>1 DEF Looking
    <3>2. CASE job[c].scanning /\ pc'[c] = "clear" /\ job'[c] = job[c]
      BY <2>2, <2>3, <3>2 DEF ScanOf, Looking
    <3>3. QED
      BY <1>0, <2>5, <2>12, <3>1, <3>2 DEF Listed
  <2>13. CASE Clear(c)
    <3>1. pc[c] = "clear" /\ pc'[c] = "insert" /\ job'[c] = job[c]
      BY <1>0, <2>13 DEF Clear
    <3>2. QED
      BY <2>2, <2>3, <3>1 DEF ScanOf, Looking
  <2>14. CASE Insert(c) \/ Fail(c)
    BY <1>0, <2>5, <2>14 DEF Insert, Fail
  <2>15. CASE \/ FetchArchive(c) \/ MakeStage(c) \/ WriteTree(c) \/ WriteLock(c)
              \/ SaveArchive(c) \/ Rename(c)
    <3>1. pc'[c] \in {"confirm", "files", "lock", "save", "rename", "list"} /\ job'[c] = job[c]
      BY <1>0, <2>15 DEF FetchArchive, MakeStage, WriteTree, WriteLock, SaveArchive, Write, Rename
    <3>2. QED
      BY <2>2, <2>4, <3>1 DEF Looking, ScanOf
  <2>16. CASE Confirm(c)
    <3>1. \/ pc'[c] = "idle" /\ job'[c] = NoJob
          \/ pc'[c] = "target" /\ job'[c] = job[c]
      BY <1>0, <2>16 DEF Confirm
    <3>2. QED
      BY <2>2, <2>4, <2>5, <3>1 DEF Looking, ScanOf
  <2>20. QED
    BY <1>4, <2>6, <2>7, <2>8, <2>9, <2>10, <2>11, <2>12, <2>13, <2>14, <2>15, <2>16 DEF Moves, Step
<1>5. CASE Publish \/ \E v \in Versions : Edit(v)
  BY <1>3, <1>5 DEF Publish, Edit
<1>6. QED
  BY <1>4, <1>5 DEF Next, Moves

LEMMA TypeStep == TypeOK /\ InstallInv /\ ScanInv /\ Next => TypeOK'
<1> SUFFICES ASSUME TypeOK, InstallInv, ScanInv, Next PROVE TypeOK'
  OBVIOUS
<1>1. RegistryTypes' /\ DiskTypes' /\ CallTypes' /\ ScanInv'
  BY RegistryStep, DiskStep, CallStep, ScanStep
<1>2. QED
  BY <1>1 DEF TypeOK, ScanInv, ScanOf

---------------------------------------------------------------------------
(* What is installed.                                                      *)

(* A call changes a directory by Rename alone.                             *)
LEMMA Installs ==
  ASSUME TypeOK, InstallInv, NEW c \in Callers, Moves(c), NEW v \in Versions, installed'[v] # installed[v]
  PROVE  installed[v] \in {None, EmptyTree} /\ Whole(installed'[v], v)
<1>0. installed \in [Versions -> Tree \cup {None}]
  BY DEF TypeOK, DiskTypes
<1>1. Rename(c)
  BY DEF Moves, Begin, Step, Refuse, FetchManifest, FetchBundle, FetchArchive, Confirm, MakeStage,
     WriteTree, WriteLock, SaveArchive, Write, ReadNames, ReadEvidence, ReadArchive, Compare,
     Listed, Clear, Insert, Fail, disk
<1>2. /\ pc[c] = "rename" /\ installed[job[c].entry.version] \in {None, EmptyTree}
      /\ installed' = [installed EXCEPT ![job[c].entry.version] = stages[c]]
  BY <1>1 DEF Rename
<1>3. v = job[c].entry.version /\ installed'[v] = stages[c]
  BY <1>0, <1>2
<1>4. InstallOf(c)
  BY DEF InstallInv
<1>5. /\ stages[c] \in Tree /\ stages[c].files = job[c].entry.archive /\ stages[c].archive = job[c].entry.archive
      /\ stages[c].lock = [entry |-> job[c].entry, manifest |-> job[c].manifest]
      /\ job[c].entry \in Entry /\ job[c].manifest \in signed
      /\ OfVersion(job[c].manifest, v) = {job[c].entry} /\ v \notin job[c].manifest.revoked
      /\ job[c].entry.archive \notin Unfit
  BY <1>2, <1>3, <1>4 DEF InstallOf, Chosen
<1>6. stages[c].lock # None
  <2>1. stages[c].lock \in Lock
    BY <1>5 DEF Lock, TypeOK, RegistryTypes
  <2>2. QED
    BY <2>1, Apart
<1>7. Holds(stages[c].lock, v)
  BY <1>3, <1>5, <1>6 DEF Holds
<1>8. Whole(stages[c], v)
  BY <1>5, <1>7, Apart DEF Whole, Verified
<1>9. Whole(installed'[v], v)
  BY <1>3, <1>8
<1>10. QED
  BY <1>2, <1>3, <1>9

LEMMA NotWholeEmpty == \A v : ~Whole(EmptyTree, v)
  BY DEF Whole, Holds, EmptyTree

LEMMA TouchStep == TypeOK /\ InstallInv /\ ScanInv /\ TouchInv /\ Next => TouchInv'
<1> SUFFICES ASSUME TypeOK, InstallInv, ScanInv, TouchInv, Next PROVE TouchInv'
  OBVIOUS
<1>0. /\ pc \in [Callers -> Places] /\ job \in [Callers -> Job] /\ touched \subseteq Versions
      /\ installed \in [Versions -> Tree \cup {None}] /\ signed \subseteq signed'
      /\ \A tree, v : Whole(tree, v) => Whole(tree, v)'
  BY RegistryStep, Signed DEF TypeOK, RegistryTypes, CallTypes, DiskTypes
<1>1. ASSUME \A v \in Versions \ touched' : installed'[v] = installed[v], touched \subseteq touched'
      PROVE  \A v \in Versions \ touched' : installed'[v] = None \/ Whole(installed[v], v)'
  <2>1. SUFFICES ASSUME NEW v \in Versions \ touched' PROVE installed'[v] = None \/ Whole(installed[v], v)'
    OBVIOUS
  <2>2. installed'[v] = installed[v] /\ (installed[v] = None \/ Whole(installed[v], v))
    BY <1>1 DEF TouchInv
  <2>3. PICK t : t = installed[v]
    OBVIOUS
  <2>4. Whole(t, v) => Whole(t, v)'
    BY <1>0
  <2>5. QED
    BY <2>2, <2>3, <2>4 DEF Whole
<1>2. ASSUME NEW d \in Callers, touched \subseteq touched',
             \A v \in Versions \ touched' : installed[v] # None => installed'[v] = installed[v],
             job'[d].todo \subseteq job[d].todo,
             pc'[d] \in Looking => pc[d] \in Looking /\ job'[d].at = job[d].at /\ job'[d].entry = job[d].entry
      PROVE  SeenBy(d)'
  <2>1. SeenBy(d) /\ ScanOf(d) /\ job[d].todo \subseteq Versions
    BY <1>0 DEF TouchInv, ScanInv, Job
  <2>2. \A v \in job'[d].todo \ touched' : installed'[v] # None
    BY <1>2, <2>1 DEF SeenBy
  <2>3. ASSUME pc'[d] \in Looking, job'[d].at \notin touched'
        PROVE  installed'[job'[d].at] # None /\ job'[d].entry = installed'[job'[d].at].lock.entry
    <3>1. pc[d] \in Looking /\ job[d].at \in Versions \ touched' /\ job'[d].at = job[d].at /\ job'[d].entry = job[d].entry
      BY <1>2, <2>1, <2>3 DEF ScanOf
    <3>2. installed[job[d].at] # None /\ job[d].entry = installed[job[d].at].lock.entry
      BY <1>2, <2>1, <3>1 DEF SeenBy
    <3>3. installed'[job[d].at] = installed[job[d].at]
      BY <1>2, <3>1, <3>2
    <3>4. QED
      BY <3>1, <3>2, <3>3
  <2>4. QED
    BY <2>2, <2>3 DEF SeenBy
<1>3. CASE UNCHANGED <<installed, pc, job, touched>>
  BY <1>1, <1>2, <1>3 DEF TouchInv
<1>4. ASSUME NEW c \in Callers, Moves(c) PROVE TouchInv'
  <2>1. touched' = touched /\ \A d \in Callers \ {c} : pc'[d] = pc[d] /\ job'[d] = job[d]
    BY <1>4, Local DEF world
  <2>2. ASSUME NEW v \in Versions \ touched', installed[v] # None PROVE installed'[v] = installed[v]
    <3>1. Whole(installed[v], v)
      BY <2>1, <2>2 DEF TouchInv
    <3>2. installed[v] \notin {None, EmptyTree}
      BY <2>2, <3>1, NotWholeEmpty
    <3>3. QED
      BY <1>4, <3>2, Installs
  <2>3. \A d \in Callers \ {c} : SeenBy(d)'
    BY <1>2, <2>1, <2>2
  <2>4. \A v \in Versions \ touched' : installed'[v] = None \/ Whole(installed[v], v)'
    <3>1. SUFFICES ASSUME NEW v \in Versions \ touched' PROVE installed'[v] = None \/ Whole(installed[v], v)'
      OBVIOUS
    <3>2. installed'[v] = None \/ Whole(installed'[v], v)
      BY <1>4, <2>1, Installs DEF TouchInv
    <3>3. PICK t : t = installed'[v]
      OBVIOUS
    <3>4. Whole(t, v) => Whole(t, v)'
      BY <1>0
    <3>5. QED
      BY <3>2, <3>3, <3>4 DEF Whole
  <2> SUFFICES SeenBy(c)'
    BY <2>3, <2>4 DEF TouchInv
  <2>5. job[c] \in Job /\ SeenBy(c)
    BY <1>0 DEF TouchInv
  <2>6. ASSUME job'[c].todo \subseteq job[c].todo, pc'[c] \notin Looking PROVE SeenBy(c)'
    BY <1>2, <2>1, <2>2, <2>6
  <2>7. CASE ReadNames(c)
    <3>1. PICK t \in SUBSET Named : job'[c] = [job[c] EXCEPT !.todo = t]
      BY <1>0, <2>7 DEF ReadNames, Named, WithManifest
    <3>2. pc'[c] = "evidence" /\ job'[c].todo = t /\ installed' = installed
      BY <1>0, <2>5, <2>7, <3>1 DEF ReadNames, Job, disk
    <3>3. QED
      BY <3>2 DEF SeenBy, Named, Looking
  <2>8. CASE ReadEvidence(c)
    <3>1. PICK v \in job[c].todo : /\ installed[v] # None
                                   /\ job' = [job EXCEPT ![c].at = v, ![c].entry = installed[v].lock.entry]
      BY <2>8 DEF ReadEvidence
    <3>2. job'[c] = [job[c] EXCEPT !.at = v, !.entry = installed[v].lock.entry] /\ installed' = installed
      BY <1>0, <2>8, <3>1 DEF ReadEvidence, disk
    <3>3. job'[c].todo = job[c].todo /\ job'[c].at = v /\ job'[c].entry = installed[v].lock.entry
      BY <2>5, <3>2 DEF Job
    <3>4. QED
      BY <2>1, <2>5, <3>1, <3>2, <3>3 DEF SeenBy
  <2>9. CASE ReadArchive(c)
    BY <1>0, <1>2, <2>1, <2>2, <2>9 DEF ReadArchive, Looking
  <2>10. CASE Compare(c)
    <3>1. pc'[c] = "evidence"
      BY <1>0, <2>10 DEF Compare
    <3>2. job'[c].todo = job[c].todo \ {job[c].at}
      <4>1. job'[c] = [job[c] EXCEPT !.todo = job[c].todo \ {job[c].at}, !.at = None, !.loaded = Load(c)]
        BY <1>0, <2>10 DEF Compare
      <4>2. QED
        BY <2>5, <4>1 DEF Job
    <3>3. QED
      BY <2>6, <3>1, <3>2 DEF Looking
  <2>11. ASSUME NEW v \in Versions, Refuse(c, v) PROVE SeenBy(c)'
    <3>1. /\ pc'[c] \in {"evidence", "idle"}
          /\ job'[c] \in {NoJob, [job[c] EXCEPT !.todo = job[c].todo \ {v}, !.at = None]}
      BY <2>11, Refused
    <3>2. job'[c].todo \subseteq job[c].todo
      <4>1. CASE job'[c] = NoJob
        BY <4>1 DEF NoJob
      <4>2. CASE job'[c] = [job[c] EXCEPT !.todo = job[c].todo \ {v}, !.at = None]
        BY <2>5, <4>2 DEF Job
      <4>3. QED
        BY <3>1, <4>1, <4>2
    <3>3. QED
      BY <2>6, <3>1, <3>2 DEF Looking
  <2>12. CASE Begin(c) \/ FetchManifest(c) \/ FetchBundle(c) \/ Listed(c)
    <3>1. pc'[c] \in {"manifest", "list", "bundle", "fetch", "idle", "clear"}
      BY <1>0, <2>12 DEF Begin, FetchManifest, FetchBundle, Listed
    <3>2. \/ job'[c] \in {NoJob, job[c]}
          \/ \E k : job'[c] = [job[c] EXCEPT !.kind = k]
          \/ \E m : job'[c] = [job[c] EXCEPT !.manifest = m]
          \/ \E e : job'[c] = [job[c] EXCEPT !.entry = e]
          \/ \E s : job'[c] = [job[c] EXCEPT !.scanning = s]
      <4>1. CASE Begin(c)
        BY <1>0, <4>1 DEF Begin
      <4>2. CASE FetchManifest(c) \/ FetchBundle(c)
        BY <1>0, <4>2 DEF FetchManifest, FetchBundle
      <4>3. CASE Listed(c)
        BY <1>0, <4>3 DEF Listed
      <4>4. QED
        BY <2>12, <4>1, <4>2, <4>3
    <3>3. job'[c].todo \subseteq job[c].todo
      <4>1. CASE job'[c] = NoJob
        BY <4>1 DEF NoJob
      <4>2. CASE job'[c] # NoJob
        BY <2>5, <3>2, <4>2 DEF Job
      <4>3. QED
        BY <4>1, <4>2
    <3>4. QED
      BY <2>6, <3>1, <3>3 DEF Looking
  <2>13. CASE Confirm(c) \/ Insert(c) \/ Fail(c)
    <3>1. pc'[c] \in {"idle", "target"} /\ job'[c] \in {NoJob, job[c]}
      BY <1>0, <2>13 DEF Confirm, Insert, Fail
    <3>2. QED
      BY <2>6, <3>1 DEF Looking, NoJob
  <2>14. CASE \/ FetchArchive(c) \/ MakeStage(c) \/ WriteTree(c) \/ WriteLock(c) \/ SaveArchive(c)
              \/ Rename(c) \/ Clear(c)
    <3>1. pc'[c] \in {"confirm", "files", "lock", "save", "rename", "list", "insert"} /\ job'[c] = job[c]
      BY <1>0, <2>14 DEF FetchArchive, MakeStage, WriteTree, WriteLock, SaveArchive, Write, Rename, Clear
    <3>2. QED
      BY <2>6, <3>1 DEF Looking
  <2>20. QED
    BY <1>4, <2>7, <2>8, <2>9, <2>10, <2>11, <2>12, <2>13, <2>14 DEF Moves, Step
<1>5. CASE Publish
  BY <1>3, <1>5 DEF Publish, disk
<1>6. ASSUME NEW v \in Versions, Edit(v) PROVE TouchInv'
  <2>1. touched' = touched \cup {v} /\ pc' = pc /\ job' = job /\ \A w \in Versions \ {v} : installed'[w] = installed[w]
    BY <1>0, <1>6 DEF Edit
  <2>2. \A d \in Callers : SeenBy(d)'
    BY <1>2, <2>1
  <2>3. QED
    BY <1>1, <2>1, <2>2 DEF TouchInv
<1>7. QED
  BY <1>4, <1>5, <1>6 DEF Next, Moves

---------------------------------------------------------------------------
(* The index.                                                              *)

LEMMA IndexStep == TypeOK /\ ScanInv /\ IndexInv /\ Next => IndexInv'
<1> SUFFICES ASSUME TypeOK, ScanInv, IndexInv, Next PROVE IndexInv'
  OBVIOUS
<1>0. /\ index \in Indexes /\ Genuine \subseteq Genuine'
  BY RegistryStep, Signed DEF TypeOK, DiskTypes
<1>1. CASE UNCHANGED index
  BY <1>0, <1>1 DEF IndexInv
<1>2. ASSUME NEW c \in Callers, Moves(c) PROVE IndexInv'
  <2>1. CASE Clear(c)
    BY <2>1 DEF Clear, IndexInv
  <2>2. CASE Insert(c)
    <3>1. \A v \in Versions : index'[v] = index[v] \/ [version |-> v, archive |-> index'[v]] \in job[c].loaded
      BY <2>2 DEF Insert, Skills
    <3>2. job[c].loaded \subseteq Genuine
      BY DEF ScanInv, ScanOf
    <3>3. QED
      BY <1>0, <3>1, <3>2 DEF IndexInv
  <2>3. CASE ~Clear(c) /\ ~Insert(c)
    <3>1. UNCHANGED index
      BY <1>2, <2>3 DEF Moves, Begin, Step, Refuse, FetchManifest, FetchBundle, FetchArchive, Confirm,
         MakeStage, WriteTree, WriteLock, SaveArchive, Write, Rename, ReadNames, ReadEvidence, ReadArchive,
         Compare, Listed, Fail, disk
    <3>2. QED
      BY <1>1, <3>1
  <2>4. QED
    BY <2>1, <2>2, <2>3
<1>3. CASE Publish \/ \E v \in Versions : Edit(v)
  BY <1>1, <1>3 DEF Publish, Edit, disk
<1>4. QED
  BY <1>2, <1>3 DEF Next, Moves

---------------------------------------------------------------------------
(* The whole.                                                              *)

LEMMA InvInit == Init => Inv
<1> SUFFICES ASSUME Init PROVE Inv
  OBVIOUS
<1>1. TypeOK
  BY InitTypes
<1>2. /\ \A c \in Callers : pc[c] = "idle" /\ job[c] = NoJob
      /\ \A v \in Versions : installed[v] = None /\ index[v] = None
  BY DEF Init
<1>3. InstallInv
  BY <1>2 DEF InstallInv, InstallOf, Chosen
<1>4. ScanInv
  <2>1. ASSUME NEW c \in Callers PROVE ScanOf(c)
    <3>1. pc[c] = "idle" /\ job[c] = NoJob
      BY <1>2
    <3>2. ~NoJob.scanning /\ NoJob.loaded = {}
      BY DEF NoJob
    <3>3. QED
      BY <3>1, <3>2 DEF ScanOf, Looking
  <2>2. QED
    BY <2>1 DEF ScanInv
<1>5. TouchInv
  BY <1>2 DEF TouchInv, SeenBy, NoJob, Looking
<1>6. IndexInv
  BY <1>2 DEF IndexInv
<1>7. QED
  BY <1>1, <1>3, <1>4, <1>5, <1>6 DEF Inv

LEMMA InvStep == Inv /\ [Next]_vars => Inv'
<1> SUFFICES ASSUME Inv, [Next]_vars PROVE Inv'
  OBVIOUS
<1>1. CASE Next
  BY <1>1, TypeStep, InstallStep, ScanStep, TouchStep, IndexStep DEF Inv
<1>2. CASE UNCHANGED vars
  <2>1. TypeOK'
    BY <1>2 DEF Inv, TypeOK, RegistryTypes, DiskTypes, CallTypes, vars
  <2>2. InstallInv'
    BY <1>2 DEF Inv, InstallInv, InstallOf, vars
  <2>3. ScanInv'
    <3>1. Genuine' = Genuine
      BY <1>2 DEF Genuine, Authentic, vars
    <3>2. \A c \in Callers : Authentic(job[c].entry)' <=> Authentic(job[c].entry)
      BY <1>2 DEF Authentic, vars
    <3>3. QED
      BY <1>2, <3>1, <3>2 DEF Inv, ScanInv, ScanOf, vars
  <2>4. TouchInv'
    BY <1>2 DEF Inv, TouchInv, SeenBy, Whole, Holds, vars
  <2>5. IndexInv'
    BY <1>2 DEF Inv, IndexInv, Genuine, Authentic, vars
  <2>6. QED
    BY <2>1, <2>2, <2>3, <2>4, <2>5 DEF Inv
<1>3. QED
  BY <1>1, <1>2

LEMMA Always == Spec => []Inv
  BY InvInit, InvStep, PTL DEF Spec

(* Every variable keeps its type.                                          *)
THEOREM TypeCorrect == Spec => []TypeOK
<1>1. Inv => TypeOK
  BY DEF Inv
<1>2. QED
  BY Always, <1>1, PTL

(* The index holds what the registry has signed, whatever is edited while  *)
(* a refresh validates, loads and inserts (Snapshot in packregistry).      *)
THEOREM SignedIsIndexed == Spec => []IndexAuthentic
<1>1. Inv => IndexAuthentic
  <2>1. SUFFICES ASSUME Inv, NEW v \in Versions, index[v] # None
                 PROVE  /\ index[v] \notin Unfit
                        /\ \E m \in signed : /\ OfVersion(m, v) = {[version |-> v, archive |-> index[v]]}
                                             /\ v \notin m.revoked
    BY DEF IndexAuthentic
  <2>2. PICK e : e = [version |-> v, archive |-> index[v]]
    OBVIOUS
  <2>3. e \in Genuine /\ e.version = v /\ e.archive = index[v]
    BY <2>1, <2>2 DEF Inv, IndexInv
  <2>4. QED
    BY <2>2, <2>3 DEF Genuine, Authentic
<1>2. QED
  BY Always, <1>1, PTL

(* Validation refuses no pack that nobody has edited.                      *)
THEOREM UneditedIsAccepted == Spec => OnlyEditedRefused
<1>1. ASSUME Inv, [Next]_vars
      PROVE  [\A c \in Callers, v \in Versions : Refuse(c, v) => v \in touched]_vars
  <2>1. SUFFICES ASSUME NEW c \in Callers, NEW v \in Versions, Refuse(c, v), v \notin touched PROVE FALSE
    OBVIOUS
  <2>2. SeenBy(c) /\ ScanOf(c) /\ v \in job[c].todo /\ job[c].at \in {None, v} /\ Fails(c, v)
    BY <1>1, <2>1 DEF Inv, TouchInv, ScanInv, Refuse
  <2>3. installed[v] # None /\ Whole(installed[v], v)
    BY <1>1, <2>1, <2>2 DEF Inv, TouchInv, SeenBy
  <2>4. CASE pc[c] = "evidence"
    BY <2>2, <2>3, <2>4 DEF Fails, Whole
  <2>5. CASE pc[c] \in Looking
    <3>1. job[c].at = v
      BY <2>2, <2>5, Apart DEF ScanOf
    <3>2. job[c].entry = installed[v].lock.entry
      BY <2>1, <2>2, <2>5, <3>1 DEF SeenBy
    <3>3. Verified(installed[v].archive, job[c].entry) /\ installed[v].files = job[c].entry.archive
      BY <2>3, <3>2 DEF Whole, Verified
    <3>4. QED
      BY <2>2, <2>3, <2>5, <3>3 DEF Fails, Looking
  <2>6. QED
    BY <2>2, <2>4, <2>5 DEF Fails, Looking
<1>2. QED
  BY Always, <1>1, PTL DEF Spec, OnlyEditedRefused

(* An installation appears at once, whole, where nothing was.              *)
THEOREM InstallsAppearWhole == Spec => InstallsAtOnce
<1>1. ASSUME Inv, [Next]_vars
      PROVE  [\A v \in Versions : installed'[v] # installed[v] =>
                \/ edits' # edits
                \/ installed[v] \in {None, EmptyTree} /\ Whole(installed'[v], v)]_vars
  <2>1. SUFFICES ASSUME NEW v \in Versions, installed'[v] # installed[v], Next
                 PROVE  \/ edits' # edits
                        \/ installed[v] \in {None, EmptyTree} /\ Whole(installed'[v], v)
    BY <1>1 DEF vars
  <2>2. CASE \E c \in Callers : Moves(c)
    BY <1>1, <2>1, <2>2, Installs DEF Inv
  <2>3. CASE Publish
    BY <2>1, <2>3 DEF Publish, disk
  <2>4. CASE \E w \in Versions : Edit(w)
    <3>1. edits \in Nat /\ edits' = edits + 1
      BY <1>1, <2>4, Apart DEF Edit, Inv, TypeOK, RegistryTypes
    <3>2. QED
      BY <3>1
  <2>5. QED
    BY <2>1, <2>2, <2>3, <2>4 DEF Next, Moves
<1>2. QED
  BY Always, <1>1, PTL DEF Spec, InstallsAtOnce
=============================================================================
