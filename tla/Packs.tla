-------------------------------- MODULE Packs --------------------------------
(***************************************************************************)
(* Registry packs: internal/packregistry (registry.go), cli/pack.go, and   *)
(* the packs' way into the index (internal/registry/refresh.go,            *)
(* internal/packs/pack.go, internal/scanner/scanner.go).                   *)
(*                                                                         *)
(* One pack in several versions.  A call is `pack get`, `pack list` or     *)
(* `refresh`; each is a process of its own.  An archive stands for its     *)
(* bytes and their digest, a manifest for what its bundle signs.  On disk  *)
(* are the installed trees, by directory name, and the staging trees;      *)
(* users edit what is installed, the registry publishes, processes stop.   *)
(***************************************************************************)
EXTENDS Integers, FiniteSets

CONSTANTS
  Callers,    \* processes at work at one time
  Versions,   \* stable versions of the pack
  Archives,   \* contents a version may be published with
  Unfit,      \* the archives that Extract, or the identity in pack.yaml, refuses
  None, Edited,
  MaxCalls,   \* bound: calls
  MaxPublish, \* bound: publications
  MaxEdits    \* bound: edits of installed trees

ASSUME PacksAssumption ==
  /\ Versions \subseteq Nat /\ Unfit \subseteq Archives
  /\ None \notin Versions \cup Archives /\ Edited \notin Archives /\ None # Edited
  /\ MaxCalls \in Nat /\ MaxPublish \in Nat /\ MaxEdits \in Nat

Entry == [version : Versions, archive : Archives]
Manifest == [packs : SUBSET Entry, revoked : SUBSET Versions]
Lock == [entry : Entry, manifest : Manifest]
Tree == [lock : Lock \cup {None}, archive : Archives \cup {None, Edited},
         files : Archives \cup {None, Edited}]
ASSUME NoneAssumption == None \notin Tree \cup Lock

EmptyTree == [lock |-> None, archive |-> None, files |-> None]
Job == [kind : {"get", "list", "refresh", None}, manifest : Manifest \cup {None},
        entry : Entry \cup {None}, todo : SUBSET Versions, at : Versions \cup {None},
        scanning : BOOLEAN, loaded : SUBSET Entry]
NoJob == [kind |-> None, manifest |-> None, entry |-> None, todo |-> {}, at |-> None,
          scanning |-> FALSE, loaded |-> {}]

VARIABLES
  manifest,   \* what the registry serves, with a bundle that signs it
  signed,     \* history: every manifest that was served
  installed,  \* .skillex/packs/<name>@<version>, None when there is nothing
  stages,     \* .skillex/packs/.install-* of each caller's last install
  index,      \* the indexed skills of the pack, by directory
  pc, job,
  calls, edits,
  touched     \* history: the directories somebody has edited

vars == <<manifest, signed, installed, stages, index, pc, job, calls, edits, touched>>
disk == <<installed, stages, index>>
world == <<manifest, signed, edits, touched>>

Init ==
  /\ manifest \in {[packs |-> {e}, revoked |-> {}] : e \in Entry} /\ signed = {manifest}
  /\ installed = [v \in Versions |-> None] /\ stages = [c \in Callers |-> None]
  /\ index = [v \in Versions |-> None]
  /\ pc = [c \in Callers |-> "idle"] /\ job = [c \in Callers |-> NoJob]
  /\ calls = 0 /\ edits = 0 /\ touched = {}

Goto(c, l) == pc' = [pc EXCEPT ![c] = l]
Leave(c) == Goto(c, "idle") /\ job' = [job EXCEPT ![c] = NoJob]

-----------------------------------------------------------------------------
(* pack get: Prepare. *)
OfVersion(m, v) == {e \in m.packs : e.version = v}
Unambiguous(m, v) == \A e, f \in OfVersion(m, v) : e = f

(* The newest stable version, never an older one in its place. *)
Resolves(m, e) ==
  /\ e \in m.packs /\ \A f \in m.packs : f.version <= e.version /\ Unambiguous(m, f.version)
  /\ e.version \notin m.revoked

Begin(c) ==
  /\ pc[c] = "idle" /\ calls < MaxCalls /\ calls' = calls + 1
  /\ \E kind \in {"get", "list", "refresh"} :
       /\ job' = [job EXCEPT ![c].kind = kind]
       /\ Goto(c, IF kind = "get" THEN "manifest" ELSE "list")
  /\ UNCHANGED <<disk, world>>

FetchManifest(c) ==
  /\ pc[c] = "manifest" /\ Goto(c, "bundle")
  /\ job' = [job EXCEPT ![c].manifest = manifest]
  /\ UNCHANGED <<disk, world, calls>>

(* The bundle is a request of its own: a publication in between makes the  *)
(* verification fail.                                                      *)
FetchBundle(c) ==
  /\ pc[c] = "bundle" /\ manifest = job[c].manifest /\ Goto(c, "fetch")
  /\ \E e \in Entry : Resolves(manifest, e) /\ job' = [job EXCEPT ![c].entry = e]
  /\ UNCHANGED <<disk, world, calls>>

Verified(archive, e) == archive = e.archive /\ archive \notin Unfit

(* The archive of the signed digest; anything else fails. *)
FetchArchive(c) ==
  /\ pc[c] = "fetch" /\ Verified(job[c].entry.archive, job[c].entry)
  /\ Goto(c, "confirm") /\ UNCHANGED <<disk, world, calls, job>>

(* The preview, and the answer to it. *)
Confirm(c) ==
  /\ pc[c] = "confirm" /\ (Leave(c) \/ (Goto(c, "target") /\ UNCHANGED job))
  /\ UNCHANGED <<disk, world, calls>>

-----------------------------------------------------------------------------
(* mutant: the files are written where they will be used *)
WriteInPlace(c, tree, l) ==
  /\ stages' = [stages EXCEPT ![c] = tree] /\ Goto(c, l)
  /\ installed' = [installed EXCEPT ![job[c].entry.version] = tree]
  /\ UNCHANGED <<index, world, calls, job>>

(* pack get: Install. *)
Write(c, tree, l) ==
  /\ stages' = [stages EXCEPT ![c] = tree] /\ Goto(c, l)
  /\ UNCHANGED <<installed, index, world, calls, job>>

MakeStage(c) ==
  pc[c] = "target" /\ installed[job[c].entry.version] = None /\ Write(c, EmptyTree, "files")
WriteTree(c) ==
  pc[c] = "files" /\ Write(c, [stages[c] EXCEPT !.files = job[c].entry.archive], "lock")
WriteLock(c) ==
  /\ pc[c] = "lock"
  /\ Write(c, [stages[c] EXCEPT !.lock = [entry |-> job[c].entry, manifest |-> job[c].manifest]], "save")
SaveArchive(c) ==
  pc[c] = "save" /\ Write(c, [stages[c] EXCEPT !.archive = job[c].entry.archive], "rename")

(* mutant: whatever is there is replaced *)
RenameOver(c) ==
  /\ pc[c] = "rename" /\ Goto(c, "list")
  /\ installed' = [installed EXCEPT ![job[c].entry.version] = stages[c]]
  /\ stages' = [stages EXCEPT ![c] = None]
  /\ UNCHANGED <<index, world, calls, job>>

(* rename(2) replaces an empty directory and no other. *)
Rename(c) ==
  LET v == job[c].entry.version IN
  /\ pc[c] = "rename" /\ installed[v] \in {None, EmptyTree}
  /\ installed' = [installed EXCEPT ![v] = stages[c]] /\ stages' = [stages EXCEPT ![c] = None]
  /\ Goto(c, "list") /\ UNCHANGED <<index, world, calls, job>>

-----------------------------------------------------------------------------
(* List, and the manifests a scan loads: names first, then each directory. *)
(* Names that begin with a dot are skipped.                                *)
Named == {v \in Versions : installed[v] # None}
WithManifest == {v \in Named : installed[v].files # None}

ReadNames(c) ==
  /\ pc[c] = "list" /\ Goto(c, "evidence")
  /\ job' = [job EXCEPT ![c].todo = IF job[c].scanning THEN WithManifest ELSE Named]
  /\ UNCHANGED <<disk, world, calls>>

(* ValidateDirectory: the signed manifest in the lock has this entry, once,*)
(* for this directory, and does not revoke it.                             *)
Holds(lock, v) ==
  /\ lock # None /\ lock.manifest \in signed /\ lock.entry.version = v
  /\ OfVersion(lock.manifest, v) = {lock.entry} /\ v \notin lock.manifest.revoked

ReadEvidence(c) ==
  /\ pc[c] = "evidence" /\ Goto(c, "archive")
  /\ \E v \in job[c].todo :
       /\ installed[v] # None /\ Holds(installed[v].lock, v)
       /\ job' = [job EXCEPT ![c].at = v, ![c].entry = installed[v].lock.entry]
  /\ UNCHANGED <<disk, world, calls>>

ReadArchive(c) ==
  LET tree == installed[job[c].at] IN
  /\ pc[c] = "archive" /\ tree # None /\ Verified(tree.archive, job[c].entry)
  /\ Goto(c, "compare") /\ UNCHANGED <<disk, world, calls, job>>

(* What a scan goes on with is the archive it has verified, not the files. *)
Load(c) == job[c].loaded \cup (IF job[c].scanning THEN {job[c].entry} ELSE {})

Compare(c) ==
  LET tree == installed[job[c].at] IN
  /\ pc[c] = "compare" /\ tree # None /\ tree.files = job[c].entry.archive
  /\ Goto(c, "evidence")
  /\ job' = [job EXCEPT ![c].todo = @ \ {job[c].at}, ![c].at = None, ![c].loaded = Load(c)]
  /\ UNCHANGED <<disk, world, calls>>

(* A directory fails the validation: listing ends there, a scan leaves it out. *)
Fails(c, v) ==
  LET tree == installed[v] IN
  \/ pc[c] = "evidence" /\ ~(tree # None /\ Holds(tree.lock, v))
  \/ pc[c] = "archive" /\ ~(tree # None /\ Verified(tree.archive, job[c].entry))
  \/ pc[c] = "compare" /\ ~(tree # None /\ tree.files = job[c].entry.archive)
Refuse(c, v) ==
  /\ v \in job[c].todo /\ job[c].at \in {None, v} /\ Fails(c, v)
  /\ IF job[c].scanning
     THEN Goto(c, "evidence") /\ job' = [job EXCEPT ![c].todo = @ \ {v}, ![c].at = None]
     ELSE Leave(c)
  /\ UNCHANGED <<disk, world, calls>>

(* Every directory was listed: a refresh scans, then it clears. *)
Listed(c) ==
  /\ pc[c] = "evidence" /\ job[c].todo = {}
  /\ \/ job[c].kind = "list" /\ Leave(c)
     \/ job[c].kind # "list" /\ ~job[c].scanning /\ Goto(c, "list")
        /\ job' = [job EXCEPT ![c].scanning = TRUE]
     \/ job[c].scanning /\ Goto(c, "clear") /\ UNCHANGED job
  /\ UNCHANGED <<disk, world, calls>>

Clear(c) ==
  /\ pc[c] = "clear" /\ Goto(c, "insert") /\ index' = [v \in Versions |-> None]
  /\ UNCHANGED <<installed, stages, world, calls, job>>

Indexes == [Versions -> Archives \cup {None, Edited}]

(* mutant: the installed files are read again *)
SkillsReopened(loaded) ==
  {new \in Indexes : \A v \in Versions :
     new[v] = index[v] \/ (installed[v] # None /\ new[v] = installed[v].files /\ \E e \in loaded : e.version = v)}

(* Inserts that fail are reported and skipped. *)
Skills(loaded) ==
  {new \in Indexes : \A v \in Versions : new[v] = index[v] \/ [version |-> v, archive |-> new[v]] \in loaded}

Insert(c) ==
  /\ pc[c] = "insert" /\ Leave(c) /\ index' \in Skills(job[c].loaded)
  /\ UNCHANGED <<installed, stages, world, calls>>

-----------------------------------------------------------------------------
(* An error ends the call and removes its stage, as far as that works; a   *)
(* process that stops leaves it there.                                     *)
Fail(c) ==
  /\ pc[c] # "idle" /\ Leave(c)
  /\ \/ UNCHANGED stages
     \/ pc[c] \in {"files", "lock", "save", "rename"} /\ stages' = [stages EXCEPT ![c] = None]
  /\ UNCHANGED <<installed, index, world, calls>>

(* The registry adds, withdraws or revokes a version. *)
Publish ==
  /\ manifest' \in {[manifest EXCEPT !.packs = @ \cup {e}] : e \in Entry}
              \cup {[manifest EXCEPT !.packs = @ \ {e}] : e \in Entry}
              \cup {[manifest EXCEPT !.revoked = @ \cup {v}] : v \in Versions}
  /\ Cardinality(signed) <= MaxPublish /\ manifest' \notin signed /\ signed' = signed \cup {manifest'}
  /\ UNCHANGED <<disk, pc, job, calls, edits, touched>>

(* Somebody edits what is installed: contents, the archive, the lock (with *)
(* another signed manifest too), all of it.                                *)
Edit(v) ==
  /\ edits < MaxEdits /\ edits' = edits + 1 /\ touched' = touched \cup {v}
  /\ installed' \in {[installed EXCEPT ![v] = tree] : tree \in
       IF installed[v] = None THEN {EmptyTree}
       ELSE {None} \cup {[installed[v] EXCEPT !.files = Edited], [installed[v] EXCEPT !.archive = Edited],
                         [installed[v] EXCEPT !.lock = None]}
            \cup {[installed[v] EXCEPT !.lock = l] : l \in [entry : Entry, manifest : signed]}}
  /\ UNCHANGED <<manifest, signed, stages, index, pc, job, calls>>

Step(c) ==
  \/ FetchManifest(c) \/ FetchBundle(c) \/ FetchArchive(c) \/ Confirm(c)
  \/ MakeStage(c) \/ WriteTree(c) \/ WriteLock(c) \/ SaveArchive(c) \/ Rename(c)
  \/ ReadNames(c) \/ ReadEvidence(c) \/ ReadArchive(c) \/ Compare(c) \/ Listed(c)
  \/ Clear(c) \/ Insert(c) \/ Fail(c)

Next ==
  \/ \E c \in Callers : Begin(c) \/ Step(c) \/ \E v \in Versions : Refuse(c, v)
  \/ Publish \/ \E v \in Versions : Edit(v)

Spec == Init /\ [][Next]_vars
-----------------------------------------------------------------------------
Places == {"idle", "manifest", "bundle", "fetch", "confirm", "target", "files", "lock",
           "save", "rename", "list", "evidence", "archive", "compare", "clear", "insert"}
RegistryTypes ==
  /\ manifest \in signed /\ signed \subseteq Manifest
  /\ edits \in 0..MaxEdits /\ touched \subseteq Versions
DiskTypes ==
  /\ installed \in [Versions -> Tree \cup {None}] /\ stages \in [Callers -> Tree \cup {None}]
  /\ index \in Indexes
CallTypes ==
  /\ pc \in [Callers -> Places] /\ job \in [Callers -> Job] /\ calls \in 0..MaxCalls
TypeOK ==
  /\ RegistryTypes /\ DiskTypes /\ CallTypes
  /\ \A c \in Callers : pc[c] \in {"clear", "insert"} => job[c].kind # "list" /\ job[c].scanning

Whole(tree, v) ==
  /\ tree # None /\ Holds(tree.lock, v)
  /\ Verified(tree.archive, tree.lock.entry) /\ tree.files = tree.archive

(* A pack that nobody has edited is never refused, whatever installs,      *)
(* failures and publications go on beside the call that validates it.      *)
OnlyEditedRefused ==
  [][\A c \in Callers, v \in Versions : Refuse(c, v) => v \in touched]_vars

(* Install publishes at once and never over another install: a directory   *)
(* that changes by itself was empty or missing, and is whole from then on. *)
InstallsAtOnce ==
  [][\A v \in Versions : installed'[v] # installed[v] =>
       \/ edits' # edits
       \/ installed[v] \in {None, EmptyTree} /\ Whole(installed'[v], v)]_vars

(* What is indexed is what the registry has signed for that version in a   *)
(* manifest that did not revoke it, however files change while a refresh   *)
(* is at work (VerifiedFiles is a snapshot).                               *)
IndexAuthentic ==
  \A v \in Versions : index[v] # None =>
    /\ index[v] \notin Unfit
    /\ \E m \in signed : OfVersion(m, v) = {[version |-> v, archive |-> index[v]]} /\ v \notin m.revoked
=============================================================================
