----------------------------- MODULE MCCatalogs -----------------------------
(* Two bound servers, a third nobody may list, and two registries, one of  *)
(* which gives any cursor.                                                 *)
EXTENDS Catalogs, TLC

CONSTANTS p, q, good, bad, t, u, x, example

MCIssues == <<example, "issues">>
MCWeather == <<example, "weather">>
MCOther == <<"other", "issues">>
MCServers == {MCIssues, MCWeather, MCOther}
MCSources == <<good, bad>>
MCNamespaces == [src \in {good, bad} |-> {<<example>>}]
MCBound == <<MCIssues, MCWeather>>
MCSuggested == {<<MCWeather, x>>}
MCPublished == [src \in {good, bad} |->
  [s \in MCServers |-> CASE src = good /\ s = MCIssues -> 1 [] src = good /\ s = MCWeather -> 2 [] OTHER -> 0]]
MCBabble == [server : {None}, next : 1..3] \cup [server : {MCWeather}, next : {0}]
MCOffers == {{t}, {u}}

Symmetric == Permutations({p, q}) \cup Permutations({t, u})
MCEarlier == {<<MCWeather>>, <<MCWeather, MCIssues, MCOther>>}
=============================================================================
