------------------------------- MODULE Scopes -------------------------------
(* Scopes: where a skill or a capability applies. A path is a sequence of    *)
(* segments, a pattern a sequence whose segments may be "**" or hold a       *)
(* wildcard. From internal/registry/path.go, internal/query/query.go (the    *)
(* second matcher), internal/packs/pack.go (activation),                     *)
(* internal/scanner/agent_skills.go and internal/registry/capability.go.     *)
EXTENDS Naturals, FiniteSets, SequencesExt

CONSTANTS
    Wild,     \* segments that hold * or ?, other than "**"
    Denotes,  \* the path segments a segment of a pattern matches in a glob
    Like      \* the path segments SQL's LIKE takes for a given one

NoBoundary == <<"none">>

HasWildcard(segment) == segment \in Wild \cup {"**"}

\* path matches the glob: "**" stands for one or more segments, everything
\* else for exactly one. What is left of the pattern at i may start at these
\* segments of the path.
GlobMatch(pattern, path) ==
    LET P == Len(pattern)
        S == Len(path)
        starts[i \in 1..P + 1] ==
            IF i = P + 1 THEN {S + 1}
            ELSE IF pattern[i] = "**" THEN {j \in 1..S : \E k \in starts[i + 1] : j < k}
            ELSE {j \in 1..S : path[j] \in Denotes[pattern[i]] /\ j + 1 \in starts[i + 1]}
    IN 1 \in starts[1]

\* "base/", a directory as it is stored and looked up.
Slashed(base) == Append(base, "")

classifyScope(scope) ==
    LET wild == {i \in DOMAIN scope : HasWildcard(scope[i])}
        first == CHOOSE i \in wild : \A j \in wild : i <= j
        before == SubSeq(scope, 1, first - 1)
    IN CASE scope = <<"**">> -> [type |-> "universal", prefix |-> <<>>]
         [] wild = {} -> [type |-> "exact", prefix |-> scope]
         [] wild = {Len(scope)} /\ scope # <<"**">> /\ Last(scope) = "**" ->
                [type |-> "prefix", prefix |-> Slashed(before)]
         [] OTHER -> [type |-> "glob",
                      prefix |-> IF before = <<>> THEN <<>> ELSE Slashed(before)]

pathPrefixes(path) ==
    {Slashed(SubSeq(path, 1, i)) : i \in 1..Len(path) - 1} \cup {path}

\* How QueryByPath finds skills: by type, with the index on path_prefix.
FoundByPath(scopes, path) ==
    \E scope \in scopes :
        LET class == classifyScope(scope) IN
        \/ class.type = "universal"
        \/ class.type \in {"prefix", "exact"} /\ class.prefix \in pathPrefixes(path)
        \/ class.type = "glob" /\ GlobMatch(scope, path)

\* How the query engine filters what other filters found.
scopesMatchPath(scopes, path) ==
    \E scope \in scopes : scope = <<"**">> \/ GlobMatch(scope, path)

\* path LIKE prefix || '%'
LikePrefix(path, prefix) ==
    \/ prefix = <<>>
    \/ LET n == Len(prefix) - 1 IN
       /\ Len(path) > n
       /\ \A i \in 1..n : path[i] \in Like[prefix[i]]

\* How QueryCapabilityPage finds capabilities.
BoundTo(scopes, path) ==
    \E scope \in scopes :
        LET class == classifyScope(scope) IN
        \/ class.type = "universal"
        \/ class.type = "exact" /\ class.prefix = path
        \/ class.type = "prefix" /\ LikePrefix(path, class.prefix)
        \/ class.type = "glob" /\ LikePrefix(path, class.prefix) /\ GlobMatch(scope, path)

------------------------------------------------------------------------------
(* Activation of what a pack offers. An entry is active when each of its    *)
(* conditions holds: a file matches, a detector found its file, or the      *)
(* dependency that ships the pack is the declared one.                      *)

\* A pattern matches a file by its whole path or by its name.
MatchRepoFiles(files, pattern) ==
    {file \in files : GlobMatch(pattern, file) \/ GlobMatch(pattern, <<Last(file)>>)}

AnyFile(files, patterns) == UNION {MatchRepoFiles(files, p) : p \in patterns}

ScopeForMatch(match, kind) ==
    LET dir == Front(match) IN
    CASE kind = "repo" -> {<<"**">>}
      [] kind = "directory" -> {Append(dir, "*")}
      [] kind = "matching-files" -> {match}
      [] kind \in {"subtree", "nearest-ancestor"} -> {Append(dir, "**")}
      [] OTHER -> {}

ScopeForContext(boundary, kind) ==
    LET base == IF boundary = NoBoundary THEN <<>> ELSE boundary IN
    CASE kind = "repo" -> {<<"**">>}
      [] kind = "directory" -> {Append(base, "*")}
      [] kind \in {"boundary", "subtree", "nearest-ancestor"} -> {Append(base, "**")}
      [] OTHER -> {}

KnownDetectors(project, entry) ==
    \A c \in entry.when : c.detector = "none" \/ c.detector \in DOMAIN project.detectors

ConditionHolds(project, entry, c) ==
    \/ AnyFile(project.files, c.files) # {}
    \/ c.detector # "none" /\ AnyFile(project.files, project.detectors[c.detector]) # {}
    \/ c.dependency /\ entry.boundary # NoBoundary

IsActive(project, entry) ==
    /\ KnownDetectors(project, entry)
    /\ \A c \in entry.when : ConditionHolds(project, entry, c)

\* The files an active entry is about.
Evidence(project, entry) ==
    IF entry.scope = "matching-files" /\ entry.files # {}
    THEN AnyFile(project.files, entry.files)
    ELSE UNION {AnyFile(project.files, c.files) : c \in entry.when}

Activate(project, entry) ==
    LET matches == Evidence(project, entry) IN
    IF ~IsActive(project, entry) THEN {}
    ELSE IF entry.scope = "boundary" \/ matches = {}
         THEN ScopeForContext(entry.boundary, entry.scope)
         ELSE UNION {ScopeForMatch(m, entry.scope) : m \in matches}

------------------------------------------------------------------------------
(* Skills in the directories of agents.                                     *)

\* The places of "**" that may stand for no segment.
Optional(pattern) == {i \in 1..Len(pattern) - 1 : pattern[i] = "**"}

Without(pattern, places) ==
    LET kept == SetToSortSeq(DOMAIN pattern \ places, <)
    IN [i \in DOMAIN kept |-> pattern[kept[i]]]

\* The pattern, and the same with the first one, two, ... of them dropped.
expandEmptyDoubleStar(pattern) ==
    {Without(pattern, {i \in Optional(pattern) : i <= n}) : n \in 0..Len(pattern)}

\* A list of globs below an anchor; those that point elsewhere are dropped.
Qualified(anchor, g) ==
    CASE anchor = <<>> -> {g}
      [] anchor # <<>> /\ g \in {<<"**">>, <<"**", "**">>} -> {Append(anchor, "**")}
      [] anchor # <<>> /\ Len(g) > 1 /\ g[1] = "**" /\ g # <<"**", "**">> -> {anchor \o g}
      [] anchor # <<>> /\ IsPrefix(anchor, g) -> {g}
      [] OTHER -> {}

agentSkillScopes(anchor, globs) ==
    IF globs = {} THEN {Append(anchor, "**")}
    ELSE UNION {UNION {expandEmptyDoubleStar(q) : q \in Qualified(anchor, g)} : g \in globs}
==============================================================================
