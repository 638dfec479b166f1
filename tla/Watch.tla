------------------------------- MODULE Watch -------------------------------
(***************************************************************************)
(* The skill watcher of the MCP server, internal/watch.                    *)
(*                                                                         *)
(* A request arms the watcher: it scans the project's skill roots, brings  *)
(* the index up to date and registers every directory below the roots with *)
(* a new fsnotify watcher (a generation).  The event loop of a generation  *)
(* turns file events into debounced timers, whose callbacks update one     *)
(* skill each.  The idle clock disarms; a refresh in another process       *)
(* rewrites the index behind the watcher's back.  Each step below is what  *)
(* one goroutine does between two points where another may run.            *)
(***************************************************************************)
EXTENDS Integers, FiniteSets

CONSTANTS
  Roots,      \* skill roots (.agents/skills, .claude/skills, ...)
  Skills,     \* skill directories, each below one root
  RootOf,     \* the root a skill directory is in
  Requests,   \* goroutines serving MCP requests
  Workers,    \* timer goroutines; one means callbacks never overlap
  MaxGen,     \* bound: how often the watcher is armed
  MaxEdits,   \* bound: changes of the disk
  MaxRefresh, \* bound: refreshes by other processes
  None,
  Malformed,  \* content whose frontmatter does not parse
  InitialRoots,      \* roots that exist from the start
  InitialDirs,       \* skill directories that exist from the start
  DirsAppear,        \* may directories be created?
  DirsVanish,        \* may directories be removed?
  EditsWhileArming,  \* may the disk change while a request arms?
  EditsWhileApplying,\* may it change between a callback's read and its write?
  FilesBreak         \* may a file become malformed?

ASSUME WatchAssumption ==
  /\ RootOf \in [Skills -> Roots]
  /\ MaxGen \in Nat /\ MaxEdits \in Nat \ {0} /\ MaxRefresh \in Nat
  /\ InitialRoots \subseteq Roots /\ InitialDirs \subseteq Skills
  /\ \A s \in InitialDirs : RootOf[s] \in InitialRoots
  /\ {DirsAppear, DirsVanish, EditsWhileArming, EditsWhileApplying, FilesBreak} \subseteq BOOLEAN
  /\ IsFiniteSet(Workers)
  /\ Workers \cap 1..MaxGen = {} /\ None \notin Requests \cup 0..MaxGen
  /\ Malformed \notin 0..MaxEdits

Gens == 1..MaxGen
Nodes == Roots \cup Skills
Walkers == Gens \cup Workers

VARIABLES
  there,     \* disk: the directories that exist
  file,      \* disk: the SKILL.md of each directory, 0 when absent
  edits,     \* number of disk changes so far; also the newest content
  index,     \* registry: the content indexed for each skill, 0 when absent
  stale,     \* the database's stamp differs from the one noted last
  refresh,   \* the other process: how many refreshes ran, what one has scanned,
             \* and whether its index is newer than the watcher's last scan
  kern,      \* inotify: directories each generation watches
  queue,     \* inotify: events not yet taken, per generation
  open,      \* generations that are not closed
  fs,        \* Watcher.fs: the current generation, or None
  armed,     \* Watcher.armed
  writing,   \* Watcher.writing
  roots,     \* Watcher.roots
  watched,   \* Watcher.watched
  pending,   \* Watcher.pending: the timers that may still fire
  jobs,      \* Watcher.jobs
  quiet,     \* nothing has touched lastBusy for the idle timeout
  idler,     \* the idle loop: "wait" or about to "disarm"
  closer,    \* Close: "no", "wait" for the jobs, or "done"
  rearmMu,   \* Watcher.rearmMu: the request holding it, or None
  req,       \* where each request is
  scan,      \* what the rearming request found: roots and files
  todo,      \* directories its walk has still to visit
  walk,      \* event loops and callbacks: where each one is in watchTree
  job        \* the callback each timer goroutine runs

disk == <<there, file, edits>>
registry == <<index, stale>>
inotify == <<kern, queue, open>>
watcher == <<fs, armed, writing, roots, watched, pending, jobs, quiet>>
clock == <<idler, closer>>
threads == <<clock, rearmMu, req, scan, todo, walk, job>>
vars == <<disk, registry, refresh, inotify, watcher, threads>>

Rearming == {"scan", "insert", "delete", "open", "walk"}
Contents == 0..MaxEdits \cup {Malformed}
Keys == [kind : {"sync", "tree", "forget"}, skill : Skills, gen : Gens \cup {0}]
NoJob == [key |-> None, pc |-> "free", read |-> 0]
NoScan == [roots |-> {}, files |-> [s \in Skills |-> 0]]
AtRest == [pc |-> "off", skill |-> None, gen |-> 0]

Init ==
  /\ there = InitialRoots \cup InitialDirs
  /\ edits = 1
  /\ file = [s \in Skills |-> IF s \in InitialDirs THEN 1 ELSE 0]
  /\ index \in {file, [s \in Skills |-> 0]}
  /\ stale = FALSE
  /\ refresh = [runs |-> 0, scanned |-> None, unseen |-> FALSE]
  /\ kern = [g \in Gens |-> {}]
  /\ queue = [g \in Gens |-> {}]
  /\ open = {}
  /\ fs = None /\ armed = FALSE /\ writing = 0 /\ roots = {} /\ watched = {}
  /\ pending = {} /\ jobs = 0 /\ quiet = FALSE
  /\ idler = "wait" /\ closer = "no" /\ rearmMu = None
  /\ req = [q \in Requests |-> "idle"]
  /\ scan = NoScan /\ todo = {}
  /\ walk = [a \in Walkers |-> AtRest]
  /\ job = [w \in Workers |-> NoJob]

---------------------------------------------------------------------------
(* The disk and the kernel.                                                *)

(* Every generation watching directory d is told. *)
Notify(d, event) ==
  queue' = [g \in Gens |-> IF d \in kern[g] THEN queue[g] \cup {event} ELSE queue[g]]

Event(kind, s) == [kind |-> kind, skill |-> s]

MayEdit ==
  /\ edits < MaxEdits
  /\ EditsWhileArming \/ rearmMu = None
  /\ EditsWhileApplying \/ \A w \in Workers : job[w].pc # "apply"
  /\ edits' = edits + 1

MakeRoot(r) ==
  /\ MayEdit /\ DirsAppear
  /\ r \notin there
  /\ there' = there \cup {r}
  /\ UNCHANGED <<file, registry, refresh, inotify, watcher, threads>>

MakeDir(s) ==
  /\ MayEdit /\ DirsAppear
  /\ RootOf[s] \in there /\ s \notin there
  /\ there' = there \cup {s}
  /\ Notify(RootOf[s], Event("create", s))
  /\ UNCHANGED <<file, registry, refresh, kern, open, watcher, threads>>

WriteFile(s) ==
  /\ MayEdit
  /\ s \in there
  /\ \/ file' = [file EXCEPT ![s] = edits + 1]
     \/ FilesBreak /\ file' = [file EXCEPT ![s] = Malformed]
  /\ Notify(s, Event("file", s))
  /\ UNCHANGED <<there, registry, refresh, kern, open, watcher, threads>>

RemoveFile(s) ==
  /\ MayEdit
  /\ file[s] # 0
  /\ file' = [file EXCEPT ![s] = 0]
  /\ Notify(s, Event("file", s))
  /\ UNCHANGED <<there, registry, refresh, kern, open, watcher, threads>>

(* The kernel forgets its watches of a directory that is gone. *)
RemoveDir(s) ==
  /\ MayEdit /\ DirsVanish
  /\ s \in there /\ file[s] = 0
  /\ there' = there \ {s}
  /\ kern' = [g \in Gens |-> kern[g] \ {s}]
  /\ Notify(RootOf[s], Event("remove", s))
  /\ UNCHANGED <<file, registry, refresh, open, watcher, threads>>

Disk ==
  \/ \E r \in Roots : MakeRoot(r)
  \/ \E s \in Skills : MakeDir(s) \/ WriteFile(s) \/ RemoveFile(s) \/ RemoveDir(s)

---------------------------------------------------------------------------
(* Another process runs skillex refresh: it scans, then rebuilds the index. *)

RefreshScan ==
  /\ refresh.runs < MaxRefresh /\ refresh.scanned = None
  /\ refresh' = [refresh EXCEPT !.runs = @ + 1, !.scanned = file]
  /\ UNCHANGED <<disk, registry, inotify, watcher, threads>>

RefreshWrite ==
  /\ refresh.scanned # None
  /\ index' = [s \in Skills |-> IF refresh.scanned[s] = Malformed THEN 0 ELSE refresh.scanned[s]]
  /\ stale' = TRUE
  /\ refresh' = [refresh EXCEPT !.scanned = None, !.unseen = TRUE]
  /\ UNCHANGED <<disk, inotify, watcher, threads>>

---------------------------------------------------------------------------
(* Timers.                                                                 *)

SameTimer(p, k) == p.kind = k.kind /\ p.skill = k.skill

(* Mutant: a replaced timer is counted again. *)
ScheduleCountsTwice(keys) ==
  /\ pending' = {p \in pending : \A k \in keys : ~SameTimer(p, k)} \cup keys
  /\ jobs' = jobs + Cardinality(keys)

(* A timer for the key that has not fired is replaced and its job reused. *)
ScheduleAll(keys) ==
  /\ pending' = {p \in pending : \A k \in keys : ~SameTimer(p, k)} \cup keys
  /\ jobs' = jobs + Cardinality({k \in keys : \A p \in pending : ~SameTimer(p, k)})

Key(kind, s, g) == [kind |-> kind, skill |-> s, gen |-> g]

(* Mutant: the old watcher is not closed. *)
DisarmLeavesOpen ==
  /\ fs' = None /\ pending' = {} /\ watched' = {} /\ armed' = FALSE
  /\ jobs' = jobs - Cardinality(pending)
  /\ UNCHANGED <<open, kern>>

(* Stop every timer and forget the current generation. *)
Disarm ==
  /\ open' = open \ {fs}
  /\ kern' = [g \in Gens |-> IF g = fs THEN {} ELSE kern[g]]
  /\ fs' = None
  /\ jobs' = jobs - Cardinality(pending)
  /\ pending' = {}
  /\ watched' = {}
  /\ armed' = FALSE

---------------------------------------------------------------------------
(* A request: BeforeRequest, and the rearm it may lead to.                 *)

ReqGoto(q, pc) == req' = [req EXCEPT ![q] = pc]

Touch(q) ==
  /\ req[q] = "idle" /\ closer = "no"
  /\ quiet' = FALSE
  /\ ReqGoto(q, "check")
  /\ UNCHANGED <<disk, registry, refresh, inotify, fs, armed, writing, roots, watched,
                 pending, jobs, clock, rearmMu, scan, todo, walk, job>>

ShouldRearm == writing = 0 /\ (armed => stale)

Check(q) ==
  /\ req[q] = "check"
  /\ ReqGoto(q, IF ShouldRearm THEN "rearm" ELSE "idle")
  /\ UNCHANGED <<disk, registry, refresh, inotify, watcher, clock, rearmMu, scan, todo, walk, job>>

RearmLock(q) ==
  /\ req[q] = "rearm"
  /\ rearmMu = None
  /\ rearmMu' = q
  /\ Disarm
  /\ ReqGoto(q, "scan")
  /\ UNCHANGED <<disk, registry, refresh, queue, writing, roots, quiet, clock, scan, todo, walk, job>>

(* DiscoverAgentSkills walks the project, then syncDiscovered begins: it    *)
(* inserts what the scan found, lists the index and deletes the rest.      *)
Found(files) == {s \in Skills : files[s] \notin {0, Malformed}}

Discover(q) ==
  /\ req[q] = "scan"
  /\ scan' = [roots |-> Roots \cap there, files |-> file]
  /\ todo' = Found(file)
  /\ refresh' = [refresh EXCEPT !.unseen = FALSE]
  /\ writing' = writing + 1
  /\ ReqGoto(q, "insert")
  /\ UNCHANGED <<disk, registry, inotify, fs, armed, roots, watched, pending, jobs, quiet,
                 clock, rearmMu, walk, job>>

SyncInsert(q) ==
  /\ req[q] = "insert"
  /\ \E s \in todo :
       /\ todo' = todo \ {s}
       /\ index' = [index EXCEPT ![s] = scan.files[s]]
  /\ stale' = TRUE
  /\ UNCHANGED <<disk, refresh, inotify, watcher, clock, rearmMu, req, scan, walk, job>>

(* Mutant: allowDelete is not consulted. *)
DeleteAnyway == {s \in Skills : index[s] # 0 /\ s \notin Found(scan.files)}

(* What the scan did not see is deleted, unless the scan had errors. *)
ToDelete ==
  IF \E s \in Skills : scan.files[s] = Malformed THEN {}
  ELSE {s \in Skills : index[s] # 0 /\ s \notin Found(scan.files)}

SyncList(q) ==
  /\ req[q] = "insert" /\ todo = {}
  /\ todo' = ToDelete
  /\ ReqGoto(q, "delete")
  /\ UNCHANGED <<disk, registry, refresh, inotify, watcher, clock, rearmMu, scan, walk, job>>

SyncDelete(q) ==
  /\ req[q] = "delete"
  /\ \E s \in todo :
       /\ todo' = todo \ {s}
       /\ index' = [index EXCEPT ![s] = 0]
       /\ stale' = (stale \/ index[s] # 0)
  /\ UNCHANGED <<disk, refresh, inotify, watcher, clock, rearmMu, req, scan, walk, job>>

EndSync(q) ==
  /\ req[q] = "delete" /\ todo = {}
  /\ stale' = FALSE
  /\ writing' = writing - 1
  /\ ReqGoto(q, "open")
  /\ UNCHANGED <<disk, index, refresh, inotify, fs, armed, roots, watched, pending, jobs,
                 quiet, clock, rearmMu, scan, todo, walk, job>>

(* Mutant: the error path leaves rearmMu locked. *)
SyncFailsLocked(q) ==
  /\ req[q] \in {"insert", "delete"}
  /\ stale' = FALSE
  /\ writing' = writing - 1
  /\ scan' = NoScan /\ todo' = {}
  /\ ReqGoto(q, "idle")
  /\ UNCHANGED <<disk, index, refresh, inotify, fs, armed, roots, watched, pending, jobs,
                 quiet, clock, rearmMu, walk, job>>

(* A database error: endWrite still runs, and rearm returns the error. *)
SyncFails(q) ==
  /\ req[q] \in {"insert", "delete"}
  /\ stale' = FALSE
  /\ writing' = writing - 1
  /\ rearmMu' = None
  /\ scan' = NoScan /\ todo' = {}
  /\ ReqGoto(q, "idle")
  /\ UNCHANGED <<disk, index, refresh, inotify, fs, armed, roots, watched, pending, jobs,
                 quiet, clock, walk, job>>

(* A closed generation's number may serve again once nothing refers to it. *)
FreeGens ==
  {g \in Gens : /\ g \notin open /\ walk[g].pc = "off"
                /\ \A p \in pending : p.gen # g
                /\ \A w \in Workers : job[w].key # None => job[w].key.gen # g}

(* A new generation.  Its walk starts at the roots: each is watched, then  *)
(* listed.                                                                 *)
OpenWatcher(q) ==
  /\ req[q] = "open"
  /\ \E g \in FreeGens :
       /\ \A h \in FreeGens : g <= h
       /\ open' = open \cup {g}
       /\ kern' = [kern EXCEPT ![g] = scan.roots \ watched]
       /\ walk' = [walk EXCEPT ![g].gen = g]
  /\ roots' = scan.roots
  /\ watched' = watched \cup scan.roots
  /\ todo' = {s \in Skills \cap there : RootOf[s] \in scan.roots}
  /\ ReqGoto(q, "walk")
  /\ UNCHANGED <<disk, registry, refresh, queue, fs, armed, writing, pending, jobs, quiet,
                 clock, rearmMu, scan, job>>

(* No inotify instance is left. *)
OpenFails(q) ==
  /\ req[q] = "open"
  /\ rearmMu' = None
  /\ scan' = NoScan
  /\ ReqGoto(q, "idle")
  /\ UNCHANGED <<disk, registry, refresh, inotify, watcher, clock, todo, walk, job>>

(* The generation being set up: open, but its loop does not run yet. *)
Building == CHOOSE g \in open : walk[g].pc = "off"

(* addWatch for one directory of the walk.  Files are not scheduled. *)
WatchDir(q) ==
  /\ req[q] = "walk"
  /\ \E s \in todo :
       /\ todo' = todo \ {s}
       /\ \/ /\ s \in there /\ s \notin watched
             /\ kern' = [kern EXCEPT ![Building] = @ \cup {s}]
             /\ watched' = watched \cup {s}
          \/ /\ s \notin there \/ s \in watched
             /\ UNCHANGED <<kern, watched>>
  /\ UNCHANGED <<disk, registry, refresh, queue, open, fs, armed, writing, roots, pending,
                 jobs, quiet, clock, rearmMu, req, scan, walk, job>>

Armed(q) ==
  /\ req[q] = "walk" /\ todo = {}
  /\ fs' = Building
  /\ walk' = [walk EXCEPT ![Building].pc = "idle"]
  /\ armed' = TRUE
  /\ quiet' = FALSE
  /\ stale' = FALSE
  /\ rearmMu' = None
  /\ scan' = NoScan
  /\ ReqGoto(q, "idle")
  /\ UNCHANGED <<disk, index, refresh, inotify, writing, roots, watched, pending, jobs,
                 clock, todo, job>>

Rearm(q) ==
  \/ RearmLock(q) \/ Discover(q) \/ SyncInsert(q) \/ SyncList(q) \/ SyncDelete(q) \/ EndSync(q)
  \/ SyncFails(q) \/ OpenWatcher(q) \/ OpenFails(q) \/ WatchDir(q) \/ Armed(q)

---------------------------------------------------------------------------
(* The idle clock, and Close.                                              *)

TimePasses ==
  /\ ~quiet
  /\ quiet' = TRUE
  /\ UNCHANGED <<disk, registry, refresh, inotify, fs, armed, writing, roots, watched,
                 pending, jobs, threads>>

(* quiet is read under the lock, the disarm takes the lock again. *)
IdleCheck ==
  /\ idler = "wait" /\ closer = "no"
  /\ armed /\ quiet
  /\ idler' = "disarm"
  /\ UNCHANGED <<disk, registry, refresh, inotify, watcher, closer, rearmMu, req, scan, todo,
                 walk, job>>

IdleDisarm ==
  /\ idler = "disarm"
  /\ idler' = "wait"
  /\ Disarm
  /\ UNCHANGED <<disk, registry, refresh, queue, writing, roots, quiet, closer, rearmMu, req,
                 scan, todo, walk, job>>

(* The server has stopped, so no request runs; Close waits for the jobs. *)
Close ==
  /\ closer = "no" /\ \A q \in Requests : req[q] = "idle"
  /\ closer' = "wait"
  /\ Disarm
  /\ UNCHANGED <<disk, registry, refresh, queue, writing, roots, quiet, idler, rearmMu, req,
                 scan, todo, walk, job>>

CloseReturns ==
  /\ closer = "wait" /\ jobs = 0
  /\ closer' = "done"
  /\ UNCHANGED <<disk, registry, refresh, inotify, watcher, idler, rearmMu, req, scan, todo,
                 walk, job>>

---------------------------------------------------------------------------
(* watchTree on a directory that appeared, run by walker a for generation  *)
(* walk[a].gen: addWatch looks, adds and records with the lock released    *)
(* around the add; then the files below are scheduled.                     *)

Foreign(g) == fs # None /\ fs # g

WalkGoto(a, pc) == walk' = [walk EXCEPT ![a].pc = pc]

LookUp(a) ==
  /\ walk[a].pc = "look"
  /\ WalkGoto(a, IF Foreign(walk[a].gen) \/ walk[a].skill \in watched THEN "visit" ELSE "add")
  /\ UNCHANGED <<disk, registry, refresh, inotify, watcher, clock, rearmMu, req, scan, todo, job>>

(* Adding to a closed watcher, or a directory that is gone, is an error. *)
AddWatch(a) ==
  /\ walk[a].pc = "add"
  /\ \/ /\ walk[a].gen \in open /\ walk[a].skill \in there
        /\ kern' = [kern EXCEPT ![walk[a].gen] = @ \cup {walk[a].skill}]
        /\ WalkGoto(a, "record")
     \/ /\ walk[a].gen \notin open \/ walk[a].skill \notin there
        /\ WalkGoto(a, "visit")
        /\ UNCHANGED kern
  /\ UNCHANGED <<disk, registry, refresh, queue, open, watcher, clock, rearmMu, req, scan,
                 todo, job>>

Record(a) ==
  /\ walk[a].pc = "record"
  /\ watched' = IF Foreign(walk[a].gen) THEN watched ELSE watched \cup {walk[a].skill}
  /\ WalkGoto(a, "visit")
  /\ UNCHANGED <<disk, registry, refresh, inotify, fs, armed, writing, roots, pending, jobs,
                 quiet, clock, rearmMu, req, scan, todo, job>>

Present(s) == IF s \in there /\ file[s] # 0 THEN {Key("sync", s, 0)} ELSE {}

---------------------------------------------------------------------------
(* The event loop of a generation.                                         *)

Take(g, kind, s) ==
  /\ walk[g].pc = "idle"
  /\ g \in open
  /\ Event(kind, s) \in queue[g]
  /\ queue' = [queue EXCEPT ![g] = @ \ {Event(kind, s)}]
  /\ quiet' = FALSE

(* Mutant: no timer is set while a callback for the skill runs. *)
HandleFileOnce(g, s) ==
  /\ Take(g, "file", s)
  /\ ScheduleAll(IF \E w \in Workers : job[w].pc # "free" /\ job[w].key.skill = s THEN {}
                 ELSE {Key("sync", s, 0)})
  /\ UNCHANGED <<disk, registry, refresh, kern, open, fs, armed, writing, roots, watched,
                 threads>>

(* A SKILL.md, or its test file, was written or removed. *)
HandleFile(g, s) ==
  /\ Take(g, "file", s)
  /\ ScheduleAll({Key("sync", s, 0)})
  /\ UNCHANGED <<disk, registry, refresh, kern, open, fs, armed, writing, roots, watched,
                 threads>>

(* A directory appeared.  Lstat may already find it gone. *)
HandleCreate(g, s) ==
  /\ Take(g, "create", s)
  /\ walk' = IF s \in there THEN [walk EXCEPT ![g] = [pc |-> "look", skill |-> s, gen |-> g]]
             ELSE walk
  /\ UNCHANGED <<disk, registry, refresh, kern, open, fs, armed, writing, roots, watched,
                 pending, jobs, clock, rearmMu, req, scan, todo, job>>

(* The walk of the loop ends: a second walk is scheduled. *)
LoopVisit(g) ==
  /\ walk[g].pc = "visit"
  /\ ScheduleAll(Present(walk[g].skill) \cup {Key("tree", walk[g].skill, g)})
  /\ walk' = [walk EXCEPT ![g] = [pc |-> "idle", skill |-> None, gen |-> g]]
  /\ UNCHANGED <<disk, registry, refresh, inotify, fs, armed, writing, roots, watched, quiet,
                 clock, rearmMu, req, scan, todo, job>>

HandleRemove(g, s) ==
  /\ Take(g, "remove", s)
  /\ ScheduleAll({Key("forget", s, 0)})
  /\ UNCHANGED <<disk, registry, refresh, kern, open, fs, armed, writing, roots, watched,
                 threads>>

LoopExit(g) ==
  /\ walk[g].pc = "idle"
  /\ g \notin open
  /\ walk' = [walk EXCEPT ![g] = AtRest]
  /\ queue' = [queue EXCEPT ![g] = {}]
  /\ UNCHANGED <<disk, registry, refresh, kern, open, watcher, clock, rearmMu, req, scan,
                 todo, job>>

Loop(g) ==
  \/ \E s \in Skills : HandleFile(g, s) \/ HandleCreate(g, s) \/ HandleRemove(g, s)
  \/ LookUp(g) \/ AddWatch(g) \/ Record(g) \/ LoopVisit(g) \/ LoopExit(g)

---------------------------------------------------------------------------
(* The timer callbacks.                                                    *)

JobGoto(w, pc) == job' = [job EXCEPT ![w].pc = pc]

JobDone(w) ==
  /\ job' = [job EXCEPT ![w] = NoJob]
  /\ jobs' = jobs - 1

Fire(w) ==
  /\ job[w].pc = "free"
  /\ \E p \in pending :
       /\ pending' = pending \ {p}
       /\ job' = [job EXCEPT ![w] = [key |-> p, pc |-> "begin", read |-> 0]]
  /\ quiet' = FALSE
  /\ UNCHANGED <<disk, registry, refresh, inotify, fs, armed, writing, roots, watched, jobs,
                 clock, rearmMu, req, scan, todo, walk>>

(* syncOne and forgetMissing read the disk first. *)
ReadFile(w) ==
  /\ job[w].pc = "begin" /\ job[w].key.kind \in {"sync", "forget"}
  /\ writing' = writing + 1
  /\ LET s == job[w].key.skill
         apply == IF job[w].key.kind = "sync" THEN file[s] # Malformed
                  ELSE file[s] = 0 /\ index[s] # 0
     IN  job' = [job EXCEPT ![w].read = file[s], ![w].pc = IF apply THEN "apply" ELSE "end"]
  /\ UNCHANGED <<disk, registry, refresh, inotify, fs, armed, roots, watched, pending, jobs,
                 quiet, clock, rearmMu, req, scan, todo, walk>>

(* The registry is changed; deleting what is not there writes nothing. *)
Apply(w) ==
  /\ job[w].pc = "apply"
  /\ LET s == job[w].key.skill IN
       /\ index' = [index EXCEPT ![s] = job[w].read]
       /\ stale' = (stale \/ job[w].read # 0 \/ index[s] # 0)
  /\ JobGoto(w, "end")
  /\ UNCHANGED <<disk, refresh, inotify, watcher, clock, rearmMu, req, scan, todo, walk>>

(* Mutant: the stamp is not noted after the write. *)
EndWriteUnnoted(w) ==
  /\ job[w].pc = "end"
  /\ writing' = writing - 1
  /\ JobDone(w)
  /\ UNCHANGED <<disk, registry, refresh, inotify, fs, armed, roots, watched, pending, quiet,
                 clock, rearmMu, req, scan, todo, walk>>

EndWrite(w) ==
  /\ job[w].pc = "end"
  /\ stale' = FALSE
  /\ writing' = writing - 1
  /\ JobDone(w)
  /\ UNCHANGED <<disk, index, refresh, inotify, fs, armed, roots, watched, pending, quiet,
                 clock, rearmMu, req, scan, todo, walk>>

(* The second walk of a new directory, unless its generation is over. *)
TreeAgain(w) ==
  /\ job[w].pc = "begin" /\ job[w].key.kind = "tree"
  /\ \/ /\ fs = job[w].key.gen
        /\ walk' = [walk EXCEPT ![w] =
                      [pc |-> "look", skill |-> job[w].key.skill, gen |-> job[w].key.gen]]
        /\ JobGoto(w, "tree")
        /\ UNCHANGED jobs
     \/ fs # job[w].key.gen /\ JobDone(w) /\ UNCHANGED walk
  /\ UNCHANGED <<disk, registry, refresh, inotify, fs, armed, writing, roots, watched,
                 pending, quiet, clock, rearmMu, req, scan, todo>>

TreeVisit(w) ==
  /\ walk[w].pc = "visit"
  /\ pending' = {p \in pending : \A k \in Present(walk[w].skill) : ~SameTimer(p, k)}
                  \cup Present(walk[w].skill)
  /\ jobs' = jobs - 1 + Cardinality({k \in Present(walk[w].skill) :
                                       \A p \in pending : ~SameTimer(p, k)})
  /\ walk' = [walk EXCEPT ![w] = AtRest]
  /\ job' = [job EXCEPT ![w] = NoJob]
  /\ UNCHANGED <<disk, registry, refresh, inotify, fs, armed, writing, roots, watched, quiet,
                 clock, rearmMu, req, scan, todo>>

Callback(w) ==
  \/ ReadFile(w) \/ Apply(w) \/ EndWrite(w) \/ TreeAgain(w)
  \/ LookUp(w) \/ AddWatch(w) \/ Record(w) \/ TreeVisit(w)

---------------------------------------------------------------------------
Next ==
  \/ Disk
  \/ RefreshScan \/ RefreshWrite
  \/ \E q \in Requests : Touch(q) \/ Check(q) \/ Rearm(q)
  \/ TimePasses \/ IdleCheck \/ IdleDisarm \/ Close \/ CloseReturns
  \/ \E g \in Gens : Loop(g)
  \/ \E w \in Workers : Fire(w) \/ Callback(w)

Spec == Init /\ [][Next]_vars

(* Goroutines that can run do, and a timer that is not stopped fires.      *)
(* Nothing makes users edit, clients call, time pass or others refresh.    *)
Fairness ==
  /\ \A q \in Requests : WF_vars(Check(q)) /\ WF_vars(Rearm(q))
  /\ \A g \in Gens : WF_vars(Loop(g))
  /\ \A w \in Workers : WF_vars(Fire(w)) /\ WF_vars(Callback(w))
  /\ WF_vars(RefreshWrite)
  /\ WF_vars(CloseReturns)

FairSpec == Spec /\ Fairness

---------------------------------------------------------------------------
DiskTypes ==
  /\ there \subseteq Nodes /\ file \in [Skills -> Contents] /\ edits \in 1..MaxEdits
IndexTypes ==
  /\ index \in [Skills -> Contents \ {Malformed}] /\ stale \in BOOLEAN
  /\ refresh \in [runs : 0..MaxRefresh, scanned : [Skills -> Contents] \cup {None}, unseen : BOOLEAN]
InotifyTypes ==
  /\ kern \in [Gens -> SUBSET Nodes] /\ open \subseteq Gens
  /\ queue \in [Gens -> SUBSET [kind : {"create", "file", "remove"}, skill : Skills]]
WatcherTypes ==
  /\ fs \in Gens \cup {None} /\ armed \in BOOLEAN /\ writing \in Nat
  /\ roots \subseteq Roots /\ watched \subseteq Nodes
  /\ pending \subseteq Keys /\ jobs \in Nat /\ quiet \in BOOLEAN
  /\ idler \in {"wait", "disarm"} /\ closer \in {"no", "wait", "done"}
RequestTypes ==
  /\ rearmMu \in Requests \cup {None}
  /\ req \in [Requests -> {"idle", "check", "rearm"} \cup Rearming]
  /\ scan \in [roots : SUBSET Roots, files : [Skills -> Contents]] /\ todo \subseteq Skills
WorkTypes ==
  /\ walk \in [Walkers -> [pc : {"off", "idle", "look", "add", "record", "visit"},
                           skill : Skills \cup {None}, gen : Gens \cup {0}]]
  /\ job \in [Workers -> [key : Keys \cup {None}, pc : {"free", "begin", "apply", "end", "tree"},
                          read : Contents]]
TypeOK ==
  DiskTypes /\ IndexTypes /\ InotifyTypes /\ WatcherTypes /\ RequestTypes /\ WorkTypes

(* The wait group counts the timers that may still fire and the callbacks  *)
(* that run, whatever was replaced, stopped or dropped: Close waits for    *)
(* neither too few nor forever, and Done never drops below zero.           *)
JobsCounted == jobs = Cardinality(pending) + Cardinality({w \in Workers : job[w].pc # "free"})

(* At most one fsnotify watcher is open, the current one or the one a      *)
(* request is setting up; a closed one watches nothing.  No interleaving   *)
(* of the idle clock with a rearm leaks an inotify instance.               *)
OneWatcher ==
  /\ Cardinality(open) <= 1
  /\ fs # None => open = {fs}
  /\ open # {} /\ fs = None => rearmMu # None
  /\ \A g \in Gens \ open : kern[g] = {}

(* The watcher's own writes never look like another process's refresh:     *)
(* however callbacks and rearms overlap, the last to finish notes them.    *)
OwnWritesNoted == refresh.runs = 0 /\ armed /\ writing = 0 => ~stale

(* The watcher removes a skill from the index only when its file is gone:  *)
(* what a refresh included stays included.                                 *)
LiveSkillStays ==
  [][\A s \in Skills :
       index[s] # 0 /\ index'[s] = 0 /\ refresh' = refresh => file[s] = 0]_vars

Settled(s) == file[s] = Malformed \/ index[s] = file[s]

(* "Edits and new skills under those directories update the index": while  *)
(* the watcher stays armed, a skill that differs from its file catches up. *)
EditsReachIndex ==
  \A s \in Skills : armed /\ ~Settled(s) ~> ~armed \/ Settled(s)

(* A request that decides to rearm is answered: no order of the two locks, *)
(* the callbacks and the idle clock blocks it.  Close returns: every job   *)
(* it waits for was stopped or ends.                                       *)
NothingBlocks ==
  /\ \A q \in Requests : req[q] = "rearm" ~> req[q] = "idle"
  /\ closer = "wait" ~> closer = "done"

(* Not kept by the code (a refresh during a rearm or an own write is noted *)
(* as seen): "rearms watches ... after skillex refresh replaces": once     *)
(* the watcher's own writes are over, it sees a refresh it has not read.   *)
RefreshNoticed == refresh.unseen /\ armed /\ writing = 0 => stale

(* Not kept by the code (the event loop may still schedule a job): "Close  *)
(* to stop", no timer is armed and no callback runs after it.              *)
StoppedAfterClose == closer = "done" => jobs = 0
=============================================================================
