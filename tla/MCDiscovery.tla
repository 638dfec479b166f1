---- MODULE MCDiscovery ----
EXTENDS Discovery, TLC

Names == {"a", "b"}
MCWild == {"*"}
MCDenotes == [s \in Names \cup {"", "*"} |-> IF s = "*" THEN Names \cup {"", "**"} ELSE {s}]
MCLike == [s \in Names \cup {""} |-> {s}]

MCSkills == <<"k1", "k2", "k3", "k4">>
MCCapabilities == <<"c1", "c2", "c3">>
MCRanked == <<"k4", "k2", "k1">>
MCRankedCapabilities == <<"c3", "c1">>

SeqsUpto(S, n) == UNION {[1..m -> S] : m \in 1..n}
Query(path, topic, search) == [path |-> path, topic |-> topic, search |-> search]
MCQuestions ==
    {Query(path, FALSE, FALSE) : path \in SeqsUpto(Names, 3) \cup {<<"a", "**">>}}
    \cup {Query(path, topic, ~topic) :
            path \in {<<>>, <<"a">>, <<"b">>, <<"a", "b">>, <<"b", "a", "b">>}, topic \in BOOLEAN}
    \cup {Query(<<"a", "b">>, TRUE, TRUE)}

Files == {<<"a">>, <<"b", "a">>, <<"a", "b", "a">>}
Rule(scope, skills, boundary) == [scope |-> scope, skills |-> skills, boundary |-> boundary]
Condition(files, detector, dependency) ==
    [files |-> files, detector |-> detector, dependency |-> dependency]
Bare == [files |-> Files, rules |-> <<>>, packs |-> <<>>, agents |-> <<>>, deps |-> {},
         detectors |-> [d |-> {<<"b">>}, e |-> {<<"b", "*">>}],
         servers |-> {}, catalog |-> <<>>]

\* Every scope of up to three segments, of one skill and of one capability.
OneScope ==
    {[Bare EXCEPT !.rules = <<Rule(s, {"k1"}, NoBoundary)>>, !.catalog = ("c1" :> {s})] :
        s \in SeqsUpto(Names \cup {"*", "**"}, 3)}

\* Every kind of activation and every kind of scope, of a project's pack and of
\* a dependency's, for a skill and for a suggested capability.
Conditions ==
    {{Condition({<<"a">>}, "none", FALSE)}, {Condition({<<"*", "*">>}, "none", FALSE)},
     {Condition({}, "d", FALSE)}, {Condition({}, "e", FALSE)}, {Condition({}, "f", FALSE)},
     {Condition({}, "none", TRUE)},
     {Condition({<<"a">>}, "none", FALSE), Condition({}, "d", FALSE)},
     {Condition({<<"b", "*">>}, "none", FALSE), Condition({}, "e", TRUE)}}
Kinds == {"repo", "boundary", "subtree", "directory", "matching-files", "nearest-ancestor"}
Entry(when, kind, files, boundary) ==
    [Bare EXCEPT
        !.rules = <<Rule(<<"b", "*">>, {}, <<"b">>)>>,
        !.packs = <<[skill |-> "k2", when |-> when, scope |-> kind, files |-> files,
                     boundary |-> boundary]>>,
        !.servers = {[capabilities |-> {"c2"}, when |-> when, scope |-> kind, files |-> files,
                      boundary |-> boundary]}]
OneEntry ==
    {Entry(w, kind, {}, b) : w \in Conditions, kind \in Kinds, b \in {NoBoundary, <<"b">>}}
    \cup {Entry(w, "matching-files", {<<"b", "**">>}, b) :
            w \in Conditions, b \in {NoBoundary, <<"b">>}}

\* Every skill of an agent with one glob, at the root and below a.
OneAgent ==
    {[Bare EXCEPT !.agents = <<[skill |-> "k3", anchor |-> anchor, globs |-> globs]>>] :
        anchor \in {<<>>, <<"a">>},
        globs \in {{}, {<<"**">>}, {<<"**", "b">>}, {<<"a", "**", "b">>},
                   {<<"**", "b">>, <<"a", "a", "*">>}}}

\* Everything at once.
Full ==
    [Bare EXCEPT
        !.rules = <<Rule(<<"**">>, {"k1"}, NoBoundary),
                    Rule(<<"a", "**">>, {"k1", "k2"}, <<"a">>),
                    Rule(<<"*", "b">>, {"k2"}, <<"a">>)>>,
        !.packs = <<[skill |-> "k3", when |-> {Condition({<<"a">>}, "none", FALSE)},
                     scope |-> "directory", files |-> {}, boundary |-> NoBoundary]>>,
        !.deps = {[skill |-> "k4", boundary |-> <<"a">>, visibility |-> "public", root |-> <<"b">>],
                  [skill |-> "k3", boundary |-> <<"b">>, visibility |-> "public", root |-> <<"b">>]},
        !.catalog = ("c1" :> {<<"a", "**">>, <<"b">>}) @@ ("c2" :> {}),
        !.servers = {[capabilities |-> {"c2", "c3"}, when |-> {Condition({}, "d", FALSE)},
                      scope |-> "repo", files |-> {}, boundary |-> NoBoundary]}]
Moved ==
    [Full EXCEPT
        !.rules = <<Rule(<<"b", "**">>, {"k2"}, NoBoundary), Rule(<<"*">>, {}, <<"b">>)>>,
        !.deps = {[skill |-> "k4", boundary |-> <<"b">>, visibility |-> "private", root |-> <<"b">>],
                  [skill |-> "k1", boundary |-> <<"b">>, visibility |-> "public", root |-> <<"b">>]},
        !.servers = {[capabilities |-> {}, when |-> {Condition({}, "d", FALSE)},
                      scope |-> "directory", files |-> {}, boundary |-> NoBoundary]},
        !.catalog = ("c3" :> {<<"*", "a">>})]

MCEdits == {<<Full, Moved>>, <<Moved, Full>>}
MCProjects == {Full, Moved} \cup OneScope \cup OneEntry \cup OneAgent

ASSUME PlainProjects
ASSUME ScopesMean
====
