----------------------------- MODULE Discovery -----------------------------
(* From a project to the answer of a query. A refresh scans the project,     *)
(* links every skill with its scopes and rebuilds the index; a client asks a *)
(* query and follows the cursors, while people edit the project and refresh. *)
(* One request of the client reads the capabilities first and the skills     *)
(* next, so a refresh may come between the two reads and between two pages.  *)
(* From internal/query/query.go, internal/linker/linker.go,                  *)
(* internal/scanner/scanner.go, internal/registry/refresh.go and capability.go. *)
EXTENDS Scopes

CONSTANTS
    Projects,            \* the projects there may be
    Edits,               \* pairs of a project and what it may be edited into
    Skills,              \* the skills, in the order of their paths
    Capabilities,        \* the capabilities, in the order of their names
    Topical,             \* the skills that have the topic asked for
    Ranked,              \* the skills a search finds, best first
    RankedCapabilities,  \* the capabilities it finds
    Questions,           \* what clients ask for: a path, the topic, a search
    Limit,               \* results per page
    MaxEdits, MaxRefreshes, MaxQuestions

ASSUME LimitAssumption == Limit \in Nat \ {0}

ASSUME QuestionsAssumption ==
    \A q \in Questions : q.topic \in BOOLEAN /\ q.search \in BOOLEAN

ASSUME NamesAssumption ==
    /\ Skills \in Seq(Range(Skills)) /\ Capabilities \in Seq(Range(Capabilities))
    /\ Ranked \in Seq(Range(Skills)) /\ RankedCapabilities \in Seq(Range(Capabilities))
    /\ IsInjective(Skills) /\ IsInjective(Capabilities)
    /\ IsInjective(Ranked) /\ IsInjective(RankedCapabilities)

VARIABLES
    project,   \* the repository as it is
    index,     \* skills and capabilities indexed, with their scopes
    refresh,   \* the refresh under way, and the project the index stands for
    client,    \* the listing of the client
    epoch,     \* how often the index was cleared
    edits,
    seen       \* history: the projects the index was built from

discoveryVars == <<project, index, refresh, client, epoch, edits, seen>>

NoPath == <<>>
NoProject == [files |-> {}]

ASSUME ProjectsAssumption == NoProject \notin Projects

Nothing == [skills |-> <<>>, capabilities |-> <<>>]

\* The elements of a sequence that are in a set, in their order.
InOrder(all, set) ==
    LET upto[n \in 0..Len(all)] ==
          IF n = 0 THEN <<>>
          ELSE IF all[n] \in set THEN Append(upto[n - 1], all[n]) ELSE upto[n - 1]
    IN upto[Len(all)]

------------------------------------------------------------------------------
(* Scan and link                                                            *)

Rules(p) == Range(p.rules)
Boundaries(p) == {r.boundary : r \in Rules(p)} \ {NoBoundary}

\* The active entries of packs, with their scopes.
Activated(p) ==
    LET all == [i \in DOMAIN p.packs |->
                  [skill |-> p.packs[i].skill, boundary |-> p.packs[i].boundary,
                   scopes |-> Activate(p, p.packs[i])]]
    IN InOrder(all, {e \in Range(all) : e.scopes # {}})

AgentSkills(p) ==
    [i \in DOMAIN p.agents |->
       [skill |-> p.agents[i].skill, boundary |-> NoBoundary,
        scopes |-> agentSkillScopes(p.agents[i].anchor, p.agents[i].globs)]]

\* Skills of the repository that come with scopes of their own.
WithScopes(p) ==
    InOrder(Activated(p), {e \in Range(Activated(p)) : e.boundary = NoBoundary}) \o AgentSkills(p)

ByRule(p) == UNION {r.skills : r \in Rules(p)}
RepoSkills(p) == ByRule(p) \cup {e.skill : e \in Range(WithScopes(p))}

\* A skill is linked as it was first found, and rules come first.
RepoScopes(p, k) ==
    IF k \in ByRule(p) THEN {r.scope : r \in {s \in Rules(p) : k \in s.skills}}
    ELSE LET all == WithScopes(p)
             found == {i \in DOMAIN all : all[i].skill = k}
         IN all[CHOOSE i \in found : \A j \in found : i <= j].scopes

\* What the boundaries of the rules resolve to, with scopes.
DepSkills(p) ==
    {[skill |-> d.skill,
      scopes |-> IF d.visibility = "public"
                 THEN {r.scope : r \in {s \in Rules(p) : s.boundary = d.boundary}}
                 ELSE {Append(d.root, "**")}] :
         d \in {e \in p.deps : e.boundary \in Boundaries(p)}}
    \cup {[skill |-> e.skill, scopes |-> e.scopes] :
             e \in {a \in Range(Activated(p)) : a.boundary \in Boundaries(p)}}

DepNames(p) == {d.skill : d \in DepSkills(p)}
DepScopes(p, k) == UNION {d.scopes : d \in {e \in DepSkills(p) : e.skill = k}}

\* What is inserted: the skills of the repository, then those of dependencies.
Link(p) ==
    LET repo == InOrder(Skills, RepoSkills(p))
        deps == InOrder(Skills, DepNames(p))
    IN [i \in DOMAIN repo |-> [skill |-> repo[i], scopes |-> RepoScopes(p, repo[i])]]
       \o [i \in DOMAIN deps |-> [skill |-> deps[i], scopes |-> DepScopes(p, deps[i])]]

\* The suggestions about c: those that prefer it, and those that prefer none if
\* the catalog has it.
AboutIt(p, c) ==
    {s \in p.servers :
        /\ \/ c \in s.capabilities
           \/ s.capabilities = {} /\ c \in DOMAIN p.catalog
        /\ s.boundary \in Boundaries(p) \cup {NoBoundary}}

\* The capabilities of the catalog with their bindings, and what packs suggest.
Suggested(p, c) == UNION {Activate(p, s) : s \in AboutIt(p, c)}

CapabilityScopes(p, c) ==
    (IF c \notin DOMAIN p.catalog THEN {}
     ELSE IF p.catalog[c] = {} THEN {<<"**">>} ELSE p.catalog[c])
    \cup Suggested(p, c)

KnownCapabilities(p) ==
    {c \in Range(Capabilities) : c \in DOMAIN p.catalog \/ Suggested(p, c) # {}}

CapabilityRecords(p) ==
    LET names == InOrder(Capabilities, KnownCapabilities(p))
    IN [i \in DOMAIN names |-> [capability |-> names[i], scopes |-> CapabilityScopes(p, names[i])]]

------------------------------------------------------------------------------
DiscoveryInit ==
    /\ project \in Projects
    /\ index = Nothing
    /\ refresh = [pc |-> "idle", of |-> NoProject, skills |-> <<>>, capabilities |-> <<>>,
                  indexed |-> NoProject]
    /\ client = [pc |-> "idle", path |-> NoPath, topic |-> FALSE, search |-> FALSE,
                 cursor |-> [skills |-> 0, capabilities |-> 0],
                 page |-> [count |-> 0, rows |-> <<>>],
                 skills |-> <<>>, capabilities |-> <<>>,
                 epoch |-> 0, of |-> NoProject, asked |-> 0]
    /\ epoch = 0 /\ edits = 0 /\ seen = {}

\* External: somebody edits the project.
Edit ==
    /\ edits < MaxEdits
    /\ \E p \in Projects : <<project, p>> \in Edits /\ project' = p
    /\ edits' = edits + 1
    /\ UNCHANGED <<index, refresh, client, epoch, seen>>

\* Bound: MaxRefreshes refreshes, and one more after each edit.
Scan ==
    /\ refresh.pc = "idle" /\ epoch < MaxRefreshes + edits
    /\ refresh' = [refresh EXCEPT !.pc = "scanned", !.of = project, !.skills = Link(project),
                                  !.capabilities = CapabilityRecords(project)]
    /\ UNCHANGED <<project, index, client, epoch, edits, seen>>

Clear ==
    /\ refresh.pc = "scanned"
    /\ refresh' = [refresh EXCEPT !.pc = "filling", !.indexed = NoProject]
    /\ index' = Nothing
    /\ epoch' = epoch + 1
    /\ seen' = seen \cup {refresh.of}
    /\ UNCHANGED <<project, client, edits>>

Put(f, x, value) == [y \in DOMAIN f \cup {x} |-> IF y = x THEN value ELSE f[y]]

InsertSkill ==
    /\ refresh.pc = "filling" /\ refresh.skills # <<>>
    /\ LET ls == Head(refresh.skills) IN
       index' = [index EXCEPT !.skills = Put(@, ls.skill, ls.scopes)]
    /\ refresh' = [refresh EXCEPT !.skills = Tail(@)]
    /\ UNCHANGED <<project, client, epoch, edits, seen>>

InsertCapability ==
    /\ refresh.pc = "filling" /\ refresh.skills = <<>> /\ refresh.capabilities # <<>>
    /\ LET record == Head(refresh.capabilities) IN
       index' = [index EXCEPT !.capabilities = Put(@, record.capability, record.scopes)]
    /\ refresh' = [refresh EXCEPT !.capabilities = Tail(@)]
    /\ UNCHANGED <<project, client, epoch, edits, seen>>

Refreshed ==
    /\ refresh.pc = "filling" /\ refresh.skills = <<>> /\ refresh.capabilities = <<>>
    /\ refresh' = [refresh EXCEPT !.pc = "idle", !.indexed = refresh.of, !.of = NoProject]
    /\ UNCHANGED <<project, index, client, epoch, edits, seen>>

------------------------------------------------------------------------------
(* A query                                                                  *)

\* Bound: questions come once something is indexed.
Ask(q) ==
    /\ client.pc \in {"idle", "done"} /\ client.asked < MaxQuestions
    /\ epoch > 0
    /\ q.path # NoPath \/ q.topic \/ q.search
    /\ client' = [pc |-> "capabilities", path |-> q.path, topic |-> q.topic, search |-> q.search,
                  cursor |-> [skills |-> 0, capabilities |-> 0],
                  page |-> [count |-> 0, rows |-> <<>>],
                  skills |-> <<>>, capabilities |-> <<>>,
                  epoch |-> epoch, of |-> refresh.indexed, asked |-> client.asked + 1]
    /\ UNCHANGED <<project, index, refresh, epoch, edits, seen>>

\* At most Limit of them from an offset on.
Upto(n, from) == IF from + Limit < n THEN from + Limit ELSE n
Page(results, from) == SubSeq(results, from + 1, Upto(Len(results), from))

MatchingCapabilities(q) ==
    InOrder(IF q.search THEN RankedCapabilities ELSE Capabilities,
            {c \in DOMAIN index.capabilities :
               /\ q.path # NoPath \/ q.search
               /\ q.path # NoPath => BoundTo(index.capabilities[c], q.path)})

PageOfCapabilities ==
    /\ client.pc = "capabilities"
    /\ LET found == MatchingCapabilities(client) IN
       client' = [client EXCEPT !.pc = "skills",
                                !.page = [count |-> Len(found),
                                          rows |-> Page(found, client.cursor.capabilities)]]
    /\ UNCHANGED <<project, index, refresh, epoch, edits, seen>>

\* A path alone is looked up by type; with other filters it is matched again.
InScope(q, scopes) ==
    IF q.topic \/ q.search THEN scopesMatchPath(scopes, q.path) ELSE FoundByPath(scopes, q.path)

(* mutant: what a search found is not matched against the path *)
SearchedAnywhere(q) ==
    InOrder(IF q.search THEN Ranked ELSE Skills,
            {k \in DOMAIN index.skills :
               /\ q.topic => k \in Topical
               /\ q.path # NoPath /\ ~q.search => InScope(q, index.skills[k])})

MatchingSkills(q) ==
    InOrder(IF q.search THEN Ranked ELSE Skills,
            {k \in DOMAIN index.skills :
               /\ q.topic => k \in Topical
               /\ q.path # NoPath => InScope(q, index.skills[k])})

Least(m, n) == IF m < n THEN m ELSE n

\* Where the next page starts.
NextCursor(found) ==
    [skills |-> Upto(Len(found), Least(client.cursor.skills, Len(found))),
     capabilities |-> Least(client.cursor.capabilities, client.page.count)
                      + Len(client.page.rows)]

(* mutant: a page that ends with the last result promises another *)
HasMoreAtEnd(found, next) ==
    (Len(found) > 0 /\ next.skills <= Len(found)) \/ next.capabilities < client.page.count

(* mutant: the list ends when skills or capabilities run out *)
HasMoreOfBoth(found, next) ==
    next.skills < Len(found) /\ next.capabilities < client.page.count

HasMore(found, next) ==
    next.skills < Len(found) \/ next.capabilities < client.page.count

\* The second half of the request: the response, which names the next page if
\* there is more. Nothing found at all is no match, whatever the cursor.
PageOfSkills ==
    /\ client.pc = "skills"
    /\ LET found == MatchingSkills(client)
           next == NextCursor(found)
       IN client' = [client EXCEPT
                       !.pc = IF HasMore(found, next) THEN "capabilities" ELSE "done",
                       !.cursor = next,
                       !.page = [count |-> 0, rows |-> <<>>],
                       !.skills = @ \o Page(found, client.cursor.skills),
                       !.capabilities = @ \o client.page.rows]
    /\ UNCHANGED <<project, index, refresh, epoch, edits, seen>>

Refresh == Scan \/ Clear \/ InsertSkill \/ InsertCapability \/ Refreshed
AnswerPage == PageOfCapabilities \/ PageOfSkills
Question == \E q \in Questions : Ask(q)

DiscoveryNext == Edit \/ Refresh \/ Question \/ AnswerPage

DiscoverySpec == DiscoveryInit /\ [][DiscoveryNext]_discoveryVars

\* A client that lists everything sends the next cursor.
FairSpec == DiscoverySpec /\ WF_discoveryVars(AnswerPage)

------------------------------------------------------------------------------
(* What the documentation says of scopes                                    *)

Inside(dir, path) == Len(path) > Len(dir) /\ IsPrefix(dir, path)

\* README.md:649-654: what an active entry is for.
Covers(p, entry, path) ==
    LET matches == Evidence(p, entry)
        base == IF entry.boundary = NoBoundary THEN <<>> ELSE entry.boundary
        dirs == IF matches = {} \/ entry.scope = "boundary" THEN {base}
                ELSE {Front(m) : m \in matches}
    IN /\ IsActive(p, entry)
       /\ CASE entry.scope = "repo" -> TRUE
            [] entry.scope = "matching-files" -> path \in matches
            [] entry.scope = "directory" -> Front(path) \in dirs
            [] OTHER -> \E dir \in dirs : Inside(dir, path)

\* A glob whose inner "**" may also stand for no directory.
StarMatch(g, path) == \E places \in SUBSET Optional(g) : GlobMatch(Without(g, places), path)

\* "Rules are additive. A path matching multiple rules accumulates skills from
\* all of them." (README.md:400)
SkillApplies(p, k, path) ==
    \/ \E r \in Rules(p) : k \in r.skills /\ GlobMatch(r.scope, path)
    \/ \E e \in Range(p.packs) :
          /\ e.skill = k /\ e.boundary \in Boundaries(p) \cup {NoBoundary}
          /\ Covers(p, e, path)
    \/ \E a \in Range(p.agents) :
          /\ a.skill = k
          /\ Inside(a.anchor, path)
          /\ a.globs = {} \/ \E g \in a.globs : StarMatch(g, path)
    \/ \E d \in p.deps :
          /\ d.skill = k /\ d.boundary \in Boundaries(p)
          /\ IF d.visibility = "public"
             THEN \E r \in Rules(p) : r.boundary = d.boundary /\ GlobMatch(r.scope, path)
             ELSE Inside(d.root, path)

CapabilityApplies(p, c, path) ==
    \/ c \in DOMAIN p.catalog /\ p.catalog[c] = {}
    \/ c \in DOMAIN p.catalog /\ (\E scope \in p.catalog[c] : GlobMatch(scope, path))
    \/ \E s \in AboutIt(p, c) : Covers(p, s, path)

Wanted(q, k) ==
    /\ q.topic => k \in Topical
    /\ q.search => k \in Range(Ranked)
    /\ IF q.path = NoPath THEN k \in RepoSkills(q.of) \cup DepNames(q.of)
       ELSE SkillApplies(q.of, k, q.path)

WantedCapability(q, c) ==
    /\ q.path # NoPath \/ q.search
    /\ q.search => c \in Range(RankedCapabilities)
    /\ IF q.path = NoPath THEN c \in KnownCapabilities(q.of)
       ELSE CapabilityApplies(q.of, c, q.path)

\* What the answers are right by: for every project and every question, what
\* linking makes of rules, packs, agents and dependencies means the same to the
\* matcher that is used. A skill of the project that a dependency ships too is
\* indexed as the dependency's; until then what is said of it is true as well.
ScopesMean ==
    \A p \in Projects, q \in Questions : q.path # NoPath =>
        /\ \A k \in Range(Skills) :
             /\ SkillApplies(p, k, q.path) =>
                  \/ k \in DepNames(p) /\ InScope(q, DepScopes(p, k))
                  \/ k \in RepoSkills(p) \ DepNames(p) /\ InScope(q, RepoScopes(p, k))
             /\ k \in DepNames(p) /\ InScope(q, DepScopes(p, k)) => SkillApplies(p, k, q.path)
             /\ k \in RepoSkills(p) /\ InScope(q, RepoScopes(p, k)) => SkillApplies(p, k, q.path)
        /\ \A c \in Range(Capabilities) :
             CapabilityApplies(p, c, q.path) <=>
             c \in KnownCapabilities(p) /\ BoundTo(CapabilityScopes(p, c), q.path)

\* When that is so. A name has no wildcard, and stands for itself.
Name(segment) ==
    /\ ~HasWildcard(segment) /\ segment # ""
    /\ Denotes[segment] = {segment} /\ Like[segment] = {segment}

\* "*" stands for every segment a path may have.
AnyPath == Seq(Denotes["*"])
NamedPath(path) == path \in AnyPath /\ \A i \in DOMAIN path : Name(path[i])

PlainPattern(scope) ==
    /\ scope \in Seq(Denotes["*"] \cup Wild \cup {"**"})
    /\ \A i \in DOMAIN scope : HasWildcard(scope[i]) \/ Name(scope[i])

PlainEntry(e) ==
    /\ e.scope \in {"repo", "boundary", "subtree", "directory", "matching-files", "nearest-ancestor"}
    /\ e.boundary = NoBoundary \/ NamedPath(e.boundary)

PlainProject(p) ==
    /\ \A f \in p.files : f # <<>> /\ NamedPath(f)
    /\ \A r \in Rules(p) : PlainPattern(r.scope)
    /\ p.packs \in Seq(Range(p.packs)) /\ p.agents \in Seq(Range(p.agents))
    /\ \A e \in Range(p.packs) \cup p.servers : PlainEntry(e)
    /\ \A a \in Range(p.agents) : NamedPath(a.anchor)
    /\ \A d \in p.deps : NamedPath(d.root)
    /\ \A c \in DOMAIN p.catalog : \A scope \in p.catalog[c] : PlainPattern(scope)

\* No skill is found twice in the repository, or in it and in a dependency.
FoundOnce(p) ==
    LET all == WithScopes(p) IN
    /\ RepoSkills(p) \cap DepNames(p) = {}
    /\ \A i \in DOMAIN all : all[i].skill \notin ByRule(p)
    /\ \A i, j \in DOMAIN all : all[i].skill = all[j].skill => i = j

\* The globs of an agent's skill, qualified by the directory it is in, are those
\* that its author wrote.
GlobsQualify(p, path) ==
    \A a \in Range(p.agents) : a.globs # {} =>
        /\ \A scope \in agentSkillScopes(a.anchor, a.globs) : PlainPattern(scope)
        /\ scopesMatchPath(agentSkillScopes(a.anchor, a.globs), path) <=>
             Inside(a.anchor, path) /\ \E g \in a.globs : StarMatch(g, path)

PlainProjects ==
    /\ "*" \in Wild
    /\ \A p \in Projects : PlainProject(p) /\ FoundOnce(p)
    /\ \A q \in Questions : q.path # NoPath =>
         q.path \in AnyPath /\ \A p \in Projects : GlobsQualify(p, q.path)

------------------------------------------------------------------------------
\* States are well typed, and cursors stay within what there may be to list
\* (query.go:298-308).
DiscoveryTypeOK ==
    /\ project \in Projects
    /\ DOMAIN index.skills \subseteq Range(Skills)
    /\ DOMAIN index.capabilities \subseteq Range(Capabilities)
    /\ refresh.pc \in {"idle", "scanned", "filling"}
    /\ client.pc \in {"idle", "capabilities", "skills", "done"}
    /\ client.cursor.skills \in 0..Len(Skills)
    /\ client.cursor.capabilities \in 0..Len(Capabilities)
    /\ Range(client.skills) \subseteq Range(Skills)
    /\ Range(client.capabilities) \subseteq Range(Capabilities)
    /\ seen \subseteq Projects

\* A listing that ran to its end on an index nobody touched has every skill and
\* every capability that project's rules, packs, agents and dependencies put in
\* scope of the path, each exactly once, and nothing else. It holds the scanner,
\* the linker, both matchers and the cursors to what README.md says of scopes,
\* and the matchers to each other (Compound query, "intersection of all
\* filters", README.md:359).
ListingExact ==
    client.pc = "done" /\ client.of # NoProject /\ client.epoch = epoch =>
        /\ IsInjective(client.skills) /\ IsInjective(client.capabilities)
        /\ Range(client.skills) = {k \in Range(Skills) : Wanted(client, k)}
        /\ Range(client.capabilities) =
               {c \in Range(Capabilities) : WantedCapability(client, c)}

\* Whatever happens to the index in between, a skill or capability listed for a
\* path applied to it in a project the index was built from ("A query for
\* packages/app-a/** never returns skills for packages/app-b", README.md:90).
NothingElse ==
    client.path # NoPath =>
        /\ \A k \in Range(client.skills) : \E p \in seen : SkillApplies(p, k, client.path)
        /\ \A c \in Range(client.capabilities) :
               \E p \in seen : CapabilityApplies(p, c, client.path)

\* A client that follows the cursors gets to an end, though skills and
\* capabilities are paged by one cursor and run out at different pages, and
\* the index may shrink or grow under way.
PagesEnd == client.pc \in {"capabilities", "skills"} ~> client.pc = "done"
==============================================================================
