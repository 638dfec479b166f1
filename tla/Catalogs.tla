------------------------------ MODULE Catalogs ------------------------------
(***************************************************************************)
(* What is known offline about MCP servers: `catalog sync` and `catalog    *)
(* inspect` (cli/catalog.go, internal/registryapi/sync.go) write files,    *)
(* and every refresh (internal/registry/refresh.go, capability.go) puts    *)
(* them into the index, which shares one expiry among all capabilities of  *)
(* a server.                                                               *)
(*                                                                         *)
(* Each command is a process of its own and takes no lock.  Registries     *)
(* list servers in the order of publication and answer page by page; a     *)
(* cursor is the place the page before it ended at, 0 is none.  Servers    *)
(* have one version.  A temporary file and its rename are one step, since  *)
(* nobody else knows the temporary name.                                   *)
(***************************************************************************)
EXTENDS Naturals, Sequences, FiniteSets, SequencesExt

CONSTANTS
  Commands,   \* commands at work at one time
  Sources,    \* the trusted catalogs of the configuration, in its order
  Servers,    \* names of servers, each a sequence of segments
  Namespaces, \* for each catalog the namespaces it is trusted for
  Bound,      \* the bound servers, in the order of the bindings
  Tools,
  Offers,     \* the sets of tools a bound server may offer
  Suggested,  \* <<server, tool>> that packs suggest
  Faithful,   \* the catalogs whose registry pages through its listing
  Babble,     \* the pages the other registries may answer with
  Published,  \* what is published at first, with places
  Earlier,    \* what an earlier sync may have left in a catalog file
  TTL,        \* how long an observation counts
  MaxPages,   \* pages a sync follows
  MaxLoad,    \* servers in the largest catalog file a refresh loads
  MaxRuns,    \* bound: commands started
  MaxChanges, \* bound: changes at registries and servers
  MaxTime,    \* bound: time
  None

Catalogs == {Sources[i] : i \in DOMAIN Sources}
Inspected == {Bound[i] : i \in DOMAIN Bound}

(* What a registry answers: a page of one server or of none, and the       *)
(* cursor of the next page.  `discover` is what it knows of a server.      *)
Page == [server : Servers \cup {None}, next : Nat]
Discover == "discover"

ASSUME CatalogsAssumption ==
  /\ Sources \in Seq(Catalogs) /\ IsInjective(Sources) /\ Faithful \subseteq Catalogs
  /\ IsFiniteSet(Servers) /\ Bound \in Seq(Servers) /\ IsInjective(Bound)
  /\ Suggested \subseteq Servers \X Tools /\ IsFiniteSet(Suggested)
  /\ Offers \subseteq SUBSET Tools /\ \A ts \in Offers : IsFiniteSet(ts)
  /\ Babble \subseteq Page /\ Earlier \subseteq Seq(Servers)
  /\ Published \in [Catalogs -> [Servers -> 0..Cardinality(Servers)]]
  /\ \A src \in Faithful, s, t \in Servers :
       Published[src][s] = Published[src][t] /\ Published[src][s] > 0 => s = t
  /\ TTL \in Nat /\ MaxPages \in Nat \ {0} /\ MaxLoad \in Nat
  /\ MaxRuns \in Nat /\ MaxChanges \in Nat /\ MaxTime \in Nat
  /\ None \notin Catalogs \cup Servers \cup Nat

VARIABLES
  place,      \* where a registry lists a server, 0 when it does not
  offers,     \* the tools a server offers
  offered,    \* history: every set of tools a server has offered
  now,
  file,       \* .skillex/mcp/catalogs/<name>.json
  observed,   \* .skillex/mcp/observed.json
  rows,       \* index: rows of mcp_capabilities
  expires,    \* index: expires_at of a server's row of mcp_capability_views
  cleared,    \* history: the last command to clear the index
  marred,     \* history: another command inserted since, or an insertion failed
  cmd, runs, changes

registries == <<place, changes>>
servers == <<offers, offered>>
files == <<file, observed>>
index == <<rows, expires, cleared, marred>>
catalogsVars == <<registries, servers, now, files, index, cmd, runs>>

(* A capability as it is loaded; what no inspection saw has no expiry.     *)
Listed(s) == [server |-> s, tool |-> Discover, expires |-> None, taken |-> None]
Suggestion(s, t) == [server |-> s, tool |-> t, expires |-> None, taken |-> None]
Key(r) == <<r.server, r.tool>>

Idle == [pc |-> "idle", only |-> None, todo |-> <<>>, cursor |-> 0, asked |-> {}, pages |-> 0,
         found |-> <<>>, seen |-> {}, merged |-> {}, records |-> <<>>,
         steady |-> {}, ever |-> {}, alone |-> FALSE]

CatalogsInit ==
  /\ place = Published
  /\ offers \in [Inspected -> Offers] /\ offered = [s \in Inspected |-> {offers[s]}]
  /\ now = 0 /\ changes = 0 /\ runs = 0
  /\ file \in [Catalogs -> {None} \cup Earlier] /\ observed = None
  /\ rows = {} /\ expires = [s \in Servers |-> None] /\ cleared = None /\ marred = FALSE
  /\ cmd = [p \in Commands |-> Idle]

namespaceAllowed(s, allowed) == allowed = {} \/ \E prefix \in allowed : IsPrefix(prefix, s)

-----------------------------------------------------------------------------
(* catalog sync *)
Trusted(src) == {s \in Servers : namespaceAllowed(s, Namespaces[src])}
Now(src) == {s \in Trusted(src) : place[src][s] > 0}

(* A source is begun without a cursor. *)
Syncing(c, todo) ==
  [c EXCEPT !.pc = "page", !.todo = todo, !.cursor = 0, !.asked = {}, !.pages = 0, !.found = <<>>,
            !.steady = Now(Head(todo)), !.ever = Now(Head(todo))]
Loading(alone) == [Idle EXCEPT !.pc = "load", !.todo = Sources, !.alone = alone]

Alone(p) == \A q \in Commands \ {p} : cmd[q].pc = "idle"
(* All of a sequence, or one of its elements. *)
Selected(all, only) == IF only = None THEN all ELSE <<only>>

Become(p, c) == cmd' = [cmd EXCEPT ![p] = c]
(* Whoever starts disturbs the refreshes under way. *)
Start(p, c) ==
  /\ cmd[p].pc = "idle" /\ runs < MaxRuns /\ runs' = runs + 1
  /\ cmd' = [q \in Commands |-> IF q = p THEN c ELSE [cmd[q] EXCEPT !.alone = FALSE]]
  /\ UNCHANGED <<registries, servers, now, files, index>>

StartSync(p) ==
  \E only \in {None} \cup Catalogs :
    /\ Sources # <<>>
    /\ Start(p, Syncing([Idle EXCEPT !.only = only], Selected(Sources, only)))

(* What is listed after the cursor, one server per page. *)
PageAfter(src, cursor) ==
  LET rest == {s \in Servers : place[src][s] > cursor}
      first == CHOOSE s \in rest : \A t \in rest : place[src][s] <= place[src][t]
  IN IF rest = {} THEN [server |-> None, next |-> 0]
     ELSE [server |-> first, next |-> IF rest = {first} THEN 0 ELSE place[src][first]]

Answers(src, cursor) == IF src \in Faithful THEN {PageAfter(src, cursor)} ELSE Babble

(* mutant: a server that moved to another page is taken twice *)
TakenTwice(c, src, page) == IF page.server \in Trusted(src) THEN <<page.server>> ELSE <<>>

(* Servers outside the namespaces and servers seen before are skipped. *)
Taken(c, src, page) ==
  IF page.server \in Trusted(src) \ ToSet(c.found) THEN <<page.server>> ELSE <<>>

(* mutant: a loop that ends with the listing *)
FollowsAll(c, next) == next # 0
Follows(c, next) == next # 0 /\ next \notin c.asked /\ c.pages + 1 < MaxPages

(* Without a next cursor the listing is complete, unless this was the last *)
(* page the loop would take and not the first.                             *)
Completes(c, next) == next = 0 /\ (c.pages + 1 < MaxPages \/ c.cursor = 0)

(* One request of Client.Sync, and what is done with the answer. *)
FetchPage(p) ==
  LET c == cmd[p]
      src == Head(c.todo)
  IN
  /\ c.pc = "page"
  /\ \E page \in Answers(src, c.cursor) :
       LET d == [c EXCEPT !.found = c.found \o Taken(c, src, page)] IN
       Become(p, CASE Follows(c, page.next) ->
                        [d EXCEPT !.cursor = page.next, !.asked = @ \cup {page.next},
                                  !.pages = IF @ < MaxPages THEN @ + 1 ELSE @]
                   [] Completes(c, page.next) -> [d EXCEPT !.pc = "replace"]
                   [] OTHER -> Idle)
  /\ UNCHANGED <<registries, servers, now, files, index, runs>>

(* atomicWrite, and the next source or the refresh. *)
ReplaceCatalog(p) ==
  LET c == cmd[p]
      rest == Tail(c.todo)
  IN
  /\ c.pc = "replace"
  /\ file' = [file EXCEPT ![Head(c.todo)] = c.found]
  /\ Become(p, IF rest = <<>> THEN Loading(Alone(p)) ELSE Syncing(c, rest))
  /\ UNCHANGED <<registries, servers, now, observed, index, runs>>

-----------------------------------------------------------------------------
(* catalog inspect *)
StartInspect(p) ==
  \E only \in {None} \cup Inspected :
    /\ Bound # <<>>
    /\ Start(p, [Idle EXCEPT !.pc = "inspect", !.only = only, !.todo = Selected(Bound, only)])

(* A session with one server: what it offers. *)
Inspect(p) ==
  LET c == cmd[p]
      s == Head(c.todo)
  IN
  /\ c.pc = "inspect"
  /\ Become(p, [c EXCEPT !.seen = @ \cup {<<s, t>> : t \in offers[s]}, !.todo = Tail(@),
                         !.pc = IF Len(c.todo) = 1 THEN "merge" ELSE "inspect"])
  /\ UNCHANGED <<registries, servers, now, files, index, runs>>

(* mutant: the server inspected again keeps its old tools *)
KeepsAll(c) == IF c.only = None \/ observed = None THEN {} ELSE observed

(* What a filtered inspection keeps of the file. *)
Kept(c) == IF c.only = None \/ observed = None THEN {}
           ELSE {e \in observed : e.server # c.only}

(* mutant: the new expiry for everything in the file *)
Restamped(c) ==
  {[server |-> k[1], tool |-> k[2], expires |-> now + TTL, taken |-> now] : k \in c.seen}
  \cup {[e EXCEPT !.expires = now + TTL] : e \in Kept(c)}

(* The clock is read and then the file; of two entries with one key the    *)
(* one that was in the file is kept.                                       *)
Merged(c) ==
  LET new == {[server |-> k[1], tool |-> k[2], expires |-> now + TTL, taken |-> now] : k \in c.seen}
  IN Kept(c) \cup {e \in new : \A k \in Kept(c) : Key(k) # Key(e)}

Merge(p) ==
  /\ cmd[p].pc = "merge"
  /\ Become(p, [cmd[p] EXCEPT !.pc = "store", !.merged = Merged(cmd[p]), !.seen = {}])
  /\ UNCHANGED <<registries, servers, now, files, index, runs>>

(* writeCatalogAtomic, and the refresh. *)
ReplaceObserved(p) ==
  /\ cmd[p].pc = "store"
  /\ observed' = cmd[p].merged
  /\ Become(p, Loading(Alone(p)))
  /\ UNCHANGED <<registries, servers, now, file, index, runs>>

-----------------------------------------------------------------------------
(* Refresh *)
StartRefresh(p) == Start(p, Loading(Alone(p)))

(* LoadStaticCapabilityCatalog; a file that is missing or too large ends   *)
(* the refresh before it has touched the index.                            *)
Loadable(src) == file[src] # None /\ Len(file[src]) <= MaxLoad

LoadCatalog(p) ==
  LET c == cmd[p]
      src == Head(c.todo)
  IN
  /\ c.pc = "load" /\ c.todo # <<>>
  /\ Become(p, IF ~Loadable(src) THEN Idle
               ELSE [c EXCEPT !.todo = Tail(@),
                              !.records = @ \o [i \in DOMAIN file[src] |-> Listed(file[src][i])]])
  /\ UNCHANGED <<registries, servers, now, files, index, runs>>

(* ApplyCapabilitySuggestions: what packs suggest and nothing lists. *)
Placeholders(records) ==
  SetToSeq({Suggestion(k[1], k[2]) : k \in
    {k \in Suggested : \A i \in DOMAIN records : Key(records[i]) # k}})

LoadObserved(p) ==
  LET c == cmd[p]
      records == c.records \o (IF observed = None THEN <<>> ELSE SetToSeq(observed))
  IN
  /\ c.pc = "load" /\ c.todo = <<>>
  /\ Become(p, [c EXCEPT !.pc = "clear", !.records = records \o Placeholders(records)])
  /\ UNCHANGED <<registries, servers, now, files, index, runs>>

(* mutant: a table that is not cleared *)
ClearViews(p) ==
  /\ cmd[p].pc = "clear"
  /\ rows' = rows /\ expires' = [s \in Servers |-> None] /\ cleared' = p /\ marred' = FALSE
  /\ Become(p, [cmd[p] EXCEPT !.pc = "insert"])
  /\ UNCHANGED <<registries, servers, now, files, runs>>

(* Deletions cascade from the servers, so the last DELETE decides what is  *)
(* left: one step.                                                         *)
Clear(p) ==
  /\ cmd[p].pc = "clear"
  /\ rows' = {} /\ expires' = [s \in Servers |-> None] /\ cleared' = p /\ marred' = FALSE
  /\ Become(p, [cmd[p] EXCEPT !.pc = "insert"])
  /\ UNCHANGED <<registries, servers, now, files, runs>>

(* The row of the server's view is written with every capability. *)
InsertCapability(r) ==
  /\ rows' = {o \in rows : Key(o) # Key(r)} \cup {[server |-> r.server, tool |-> r.tool, taken |-> r.taken]}
  /\ expires' = [expires EXCEPT ![r.server] = r.expires]

(* An error of an insertion is noted and the next record is inserted.      *)
Insert(p) ==
  LET c == cmd[p] IN
  /\ c.pc = "insert" /\ c.records # <<>>
  /\ \/ InsertCapability(Head(c.records)) /\ marred' = (marred \/ cleared # p)
     \/ UNCHANGED <<rows, expires>> /\ marred' = TRUE
  /\ Become(p, [c EXCEPT !.records = Tail(@)])
  /\ UNCHANGED <<registries, servers, now, files, cleared, runs>>

Finish(p) ==
  /\ cmd[p].pc = "insert" /\ cmd[p].records = <<>>
  /\ Become(p, Idle)
  /\ UNCHANGED <<registries, servers, now, files, index, runs>>

-----------------------------------------------------------------------------
(* A command stops at an error, or is stopped. *)
Stop(p) ==
  /\ cmd[p].pc # "idle"
  /\ Become(p, Idle)
  /\ UNCHANGED <<registries, servers, now, files, index, runs>>

(* A server is published, or published anew, at the end of the listing. *)
SyncsNow(c, src) == c.pc \in {"page", "replace"} /\ Head(c.todo) = src
Publish(src, s) ==
  /\ changes < MaxChanges /\ changes' = changes + 1
  /\ place' = [place EXCEPT ![src][s] = Cardinality(Servers) + changes']
  /\ cmd' = [p \in Commands |->
       IF SyncsNow(cmd[p], src) THEN [cmd[p] EXCEPT !.ever = @ \cup ({s} \cap Trusted(src))]
       ELSE cmd[p]]
  /\ UNCHANGED <<servers, now, files, index, runs>>

Withdraw(src, s) ==
  /\ changes < MaxChanges /\ changes' = changes + 1
  /\ place[src][s] > 0 /\ place' = [place EXCEPT ![src][s] = 0]
  /\ cmd' = [p \in Commands |->
       IF SyncsNow(cmd[p], src) THEN [cmd[p] EXCEPT !.steady = @ \ {s}] ELSE cmd[p]]
  /\ UNCHANGED <<servers, now, files, index, runs>>

ServerChanges(s) ==
  /\ changes < MaxChanges /\ changes' = changes + 1
  /\ \E ts \in Offers : offers' = [offers EXCEPT ![s] = ts]
  /\ offered' = [offered EXCEPT ![s] = @ \cup {offers'[s]}]
  /\ UNCHANGED <<place, now, files, index, cmd, runs>>

Tick == now < MaxTime /\ now' = now + 1 /\ UNCHANGED <<registries, servers, files, index, cmd, runs>>

Step(p) ==
  \/ FetchPage(p) \/ ReplaceCatalog(p)
  \/ Inspect(p) \/ Merge(p) \/ ReplaceObserved(p)
  \/ LoadCatalog(p) \/ LoadObserved(p) \/ Clear(p) \/ Insert(p) \/ Finish(p)

Environment ==
  \/ Tick
  \/ \E src \in Faithful, s \in Servers : Publish(src, s) \/ Withdraw(src, s)
  \/ \E s \in Inspected : ServerChanges(s)

CatalogsNext ==
  \/ \E p \in Commands : StartSync(p) \/ StartInspect(p) \/ StartRefresh(p) \/ Step(p) \/ Stop(p)
  \/ Environment

CatalogsSpec == CatalogsInit /\ [][CatalogsNext]_catalogsVars

-----------------------------------------------------------------------------
(* A catalog file only ever becomes the whole of one listing: every        *)
(* trusted server that was listed from the first page to the last, no      *)
(* server twice, none that was never listed meanwhile.  A failure or a     *)
(* page too many leaves the file as it was.                                *)
SnapshotWhole ==
  [][\A src \in Catalogs : file'[src] # file[src] =>
       /\ IsInjective(file'[src]) /\ ToSet(file'[src]) \subseteq Trusted(src)
       /\ src \in Faithful => \E p \in Commands :
            /\ SyncsNow(cmd[p], src)
            /\ cmd[p].steady \subseteq ToSet(file'[src]) /\ ToSet(file'[src]) \subseteq cmd[p].ever]_catalogsVars

(* However inspections overlap and are filtered, the file holds for each   *)
(* server what it offered at one time, not tools of several listings.      *)
ObservedWhole ==
  observed # None =>
    \A s \in Inspected : {e.tool : e \in {o \in observed : o.server = s}} \in offered[s] \cup {{}}

Stale(s) == expires[s] \in Nat /\ now > expires[s]

(* "expired views become `stale`": what an inspection took longer than its *)
(* TTL ago is not offered as current, whatever else was inspected, kept,   *)
(* synchronized or inserted since; unless a pack suggests a tool of the    *)
(* server, which may be inserted last and has no expiry.                   *)
ExpiredIsStale ==
  ~marred => \A r \in rows :
    r.taken # None /\ now > r.taken + TTL /\ (\A k \in Suggested : k[1] # r.server) => Stale(r.server)

ListedIn(sources) == (UNION {ToSet(file[src]) : src \in sources}) \X {Discover}
KeysOf(records) == {Key(r) : r \in records}
Known == ListedIn(Catalogs) \cup Suggested \cup (IF observed = None THEN {} ELSE KeysOf(observed))

(* A refresh that nobody disturbs leaves in the index what the files list, *)
(* what packs suggest besides, and nothing of before.                      *)
IndexOfFiles ==
  [][\A p \in Commands : Finish(p) /\ cmd[p].alone /\ ~marred => KeysOf(rows) = Known]_catalogsVars

(* How far a command is from its end: the phase it is in, what is left to *)
(* do there, and how much of that.                                         *)
Phase(c) ==
  CASE c.pc \in {"page", "replace", "inspect"} -> 6
    [] c.pc = "merge" -> 5
    [] c.pc = "store" -> 4
    [] c.pc = "load" -> 3
    [] c.pc = "clear" -> 2
    [] c.pc = "insert" -> 1
    [] OTHER -> 0
Left(c) == IF c.pc = "page" THEN MaxPages - c.pages
           ELSE IF c.pc = "replace" THEN 0 ELSE Len(c.records)
Nearer(d, c) ==
  \/ Phase(d) < Phase(c)
  \/ Phase(d) = Phase(c) /\ Len(d.todo) < Len(c.todo)
  \/ Phase(d) = Phase(c) /\ Len(d.todo) = Len(c.todo) /\ Left(d) < Left(c) /\ Left(d) \in Nat

(* Whatever cursors a registry makes up and whatever others write, each    *)
(* step of a command brings it nearer to its end: there is no listing it   *)
(* follows for ever.                                                       *)
CommandsEnd ==
  [][\A p \in Commands :
       cmd'[p] # cmd[p] /\ runs' = runs /\ changes' = changes => Nearer(cmd'[p], cmd[p])]_catalogsVars
=============================================================================
