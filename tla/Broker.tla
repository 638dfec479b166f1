------------------------------- MODULE Broker -------------------------------
(***************************************************************************)
(* A brokered call over HTTP: internal/broker, internal/brokerruntime,     *)
(* internal/capability/ref.go, internal/catalog, the reads of              *)
(* internal/registry/capability.go and internal/connector/streamhttp.      *)
(*                                                                         *)
(* One tool of one downstream server (prompts and resource templates are   *)
(* listed for every call, like a tool whose definitions are not cached).   *)
(* Runtimes (an MCP server that stays, commands that come and go) issue    *)
(* references and call; the index, the configuration and the server's own  *)
(* definitions change under them.  A binding is known by its auth profile. *)
(* An end of validity is a number of ticks left, so that time has no end.  *)
(***************************************************************************)
EXTENDS Integers

CONSTANTS
  Runtimes,    \* processes with a broker
  Requests,    \* requests served at the same time
  Profiles,    \* auth profiles
  Schemas,     \* schema digests of the capability
  Absent,      \* no such capability
  NoProfile,   \* no binding matched
  RefTTL,      \* life of a reference
  TTL,         \* life the server gives to its definitions
  Span,        \* bound: how long a request is served (its HTTP timeouts)
  MaxPages,    \* pages of a listing (32)
  MaxChanges   \* bound: changes of index, configuration and server, and restarts

ASSUME BrokerAssumption ==
  /\ Absent \notin Schemas /\ NoProfile \notin Profiles /\ "public" \notin Profiles
  /\ RefTTL \in Nat \ {0} /\ TTL \in Nat \ {0} /\ Span \in Nat
  /\ MaxPages \in Nat \ {0} /\ MaxChanges \in Nat

Definitions == Schemas \cup {Absent}
Scopes == {"none", "public", "private"}  \* "none" stands for a time to live of 0, too
Keys == Profiles \cup {"public"}
Forever == TTL + Span + Span + 1

Fingerprint == [schema : Definitions, bindings : SUBSET Profiles]
Reference == [schema : Definitions, profile : Profiles \cup {NoProfile}, context : Fingerprint,
              left : 0..RefTTL]
(* Definitions a server returned, to whom, under which scope. *)
Entry == [schema : Definitions, scope : Scopes, by : Profiles \cup {NoProfile}, left : 0..TTL]
Runtime == [stage : {"down", "starting", "up"}, context : Fingerprint, allowed : SUBSET Profiles,
            cache : [Keys -> Entry]]
Request == [pc : {"idle", "query", "resolve", "bindings", "lookup", "list", "invoke", "changed"},
            at : Runtimes \cup {"none"}, schema : Definitions, profile : Profiles \cup {NoProfile},
            id : Nat, row : Definitions, page : 0..MaxPages - 1, found : Entry, age : 0..Span]

NoContext == [schema |-> Absent, bindings |-> {}]
NoEntry == [schema |-> Absent, scope |-> "none", by |-> NoProfile, left |-> 0]
NoReference == [schema |-> Absent, profile |-> NoProfile, context |-> NoContext, left |-> 0]
Down == [stage |-> "down", context |-> NoContext, allowed |-> {}, cache |-> [k \in Keys |-> NoEntry]]
Idle == [pc |-> "idle", at |-> "none", schema |-> Absent, profile |-> NoProfile, id |-> 0,
         row |-> Absent, page |-> 0, found |-> NoEntry, age |-> 0]

VARIABLES
  index, nextID,  \* the capability's row with its bindings; AUTOINCREMENT
  policy,         \* profiles that configuration and trust file bind and allow
  live, scope,    \* what the server offers each profile; how it may be cached
  rt,             \* the runtimes
  ref,            \* the reference in the client's hands
  req,            \* requests being served
  unseen,         \* history: ticks since a profile was last offered a schema
  changes

environment == <<index, nextID, policy, live, scope>>
vars == <<environment, rt, ref, req, unseen, changes>>

Init ==
  /\ nextID = 2 /\ policy = Profiles /\ scope \in Scopes
  /\ \E s \in Schemas :
       /\ index = [id |-> 1, schema |-> s, bindings |-> Profiles]
       /\ live = [p \in Profiles |-> s]
       /\ unseen = [p \in Profiles |-> [t \in Schemas |-> IF t = s THEN 0 ELSE Forever]]
  /\ rt = [r \in Runtimes |-> Down]
  /\ ref = NoReference
  /\ req = [c \in Requests |-> Idle]
  /\ changes = 0

---------------------------------------------------------------------------
(* NewDiscovery: configuration and trust file, then the index's signature, *)
(* whose rows and bindings are two reads.  A signature is as good as what  *)
(* it is computed from.                                                    *)

SetRuntime(r, field, value) == rt' = [rt EXCEPT ![r][field] = value]

StartRows(r) ==
  /\ rt[r].stage = "down"
  /\ rt' = [rt EXCEPT ![r].stage = "starting", ![r].allowed = policy,
                      ![r].context.schema = index.schema]
  /\ UNCHANGED <<environment, ref, req, unseen, changes>>

StartBindings(r) ==
  /\ rt[r].stage = "starting"
  /\ rt' = [rt EXCEPT ![r].stage = "up", ![r].context.bindings = index.bindings]
  /\ UNCHANGED <<environment, ref, req, unseen, changes>>

(* The process ends, and the requests it serves with it. *)
Exit(r) ==
  /\ rt[r].stage # "down" /\ changes < MaxChanges
  /\ rt' = [rt EXCEPT ![r] = Down]
  /\ req' = [c \in Requests |-> IF req[c].at = r THEN Idle ELSE req[c]]
  /\ changes' = changes + 1
  /\ UNCHANGED <<environment, ref, unseen>>

---------------------------------------------------------------------------
(* Serving a request.  The rows of a query are read before their bindings. *)

Set(c, new) == req' = [req EXCEPT ![c] = new]
End(c) == Set(c, Idle)

Query(c, r) ==
  /\ req[c].pc = "idle" /\ rt[r].stage = "up"
  /\ index.schema # Absent
  /\ Set(c, [Idle EXCEPT !.pc = "query", !.at = r, !.id = index.id, !.row = index.schema])
  /\ UNCHANGED <<environment, rt, ref, unseen, changes>>

(* The bindings of the row that was read, if it is still there. *)
Bindings(c) == IF req[c].id = index.id THEN index.bindings ELSE {}

Issue(c) ==
  /\ req[c].pc = "query"
  /\ \E p \in Bindings(c) \cup {NoProfile} :
       ref' = [schema |-> req[c].row, profile |-> p, context |-> rt[req[c].at].context,
               left |-> RefTTL]
  /\ End(c)
  /\ UNCHANGED <<environment, rt, unseen, changes>>

(* Verify, and the context of the runtime. *)
Begin(c, r) ==
  /\ req[c].pc = "idle" /\ rt[r].stage = "up"
  /\ ref.left > 0 /\ ref.context = rt[r].context
  /\ Set(c, [Idle EXCEPT !.pc = "resolve", !.at = r,
                                  !.schema = ref.schema, !.profile = ref.profile])
  /\ UNCHANGED <<environment, rt, ref, unseen, changes>>

Resolve(c) ==
  /\ req[c].pc = "resolve"
  /\ IF index.schema = Absent
     THEN End(c)
     ELSE Set(c, [req[c] EXCEPT !.pc = "bindings", !.id = index.id, !.row = index.schema])
  /\ UNCHANGED <<environment, rt, ref, unseen, changes>>

(* mutant: the reference is trusted for the schema *)
BoundOnly(c) == req[c].profile \in Bindings(c) \cup {NoProfile}

(* Describe: the binding is still there, the schema is the one described. *)
Described(c) ==
  /\ req[c].profile \in Bindings(c) \cup {NoProfile}
  /\ req[c].row = req[c].schema

(* trustedPolicy.Evaluate; it knows the configuration of the start. *)
Authorized(c) == req[c].profile \in rt[req[c].at].allowed

Admit(c) ==
  /\ req[c].pc = "bindings"
  /\ IF Described(c) /\ Authorized(c)
     THEN Set(c, [req[c] EXCEPT !.pc = "lookup"])
     ELSE End(c)
  /\ UNCHANGED <<environment, rt, ref, unseen, changes>>

(* A read fails, a capability is stale or not ready, a credential or an    *)
(* argument is not good, a downstream request fails or takes too long, an  *)
(* answer is refused.                                                      *)
Fail(c) ==
  /\ req[c].pc # "idle"
  /\ End(c)
  /\ UNCHANGED <<environment, rt, ref, unseen, changes>>

---------------------------------------------------------------------------
(* Open, with the cache of definitions of its runtime. *)

(* mutant: private definitions are stored for everybody *)
SharedKey(c, s) == "public"

Key(c, s) == IF s = "public" THEN "public" ELSE req[c].profile

(* The request goes on with these definitions, or ends (ErrSchemaChanged,  *)
(* ErrCapabilityMissing).                                                  *)
Compare(c, entry) ==
  IF entry.schema = Absent THEN End(c)
  ELSE Set(c, [req[c] EXCEPT !.pc = IF entry.schema = req[c].row THEN "invoke" ELSE "changed",
                             !.found = entry, !.page = 0])

Hit(c, k) == Compare(c, rt[req[c].at].cache[k]) /\ UNCHANGED rt

Fresh(c, k) == rt[req[c].at].cache[k].left > 0

LookUp(c) ==
  /\ req[c].pc = "lookup"
  /\ \/ Fresh(c, "public") /\ Hit(c, "public")
     \/ ~Fresh(c, "public") /\ Fresh(c, req[c].profile) /\ Hit(c, req[c].profile)
     \/ /\ ~Fresh(c, "public") /\ ~Fresh(c, req[c].profile)
        /\ Set(c, [req[c] EXCEPT !.pc = "list"]) /\ UNCHANGED rt
  /\ UNCHANGED <<environment, ref, unseen, changes>>

Store(c, entry) ==
  IF entry.scope # "none"
  THEN SetRuntime(req[c].at, "cache", [rt[req[c].at].cache EXCEPT ![Key(c, entry.scope)] = entry])
  ELSE UNCHANGED rt

TooMany(pages) == pages = MaxPages

(* One page (after server/discover); the tool is on it or not.  Twice, or  *)
(* under another scope than the pages before, is an error, and so is a     *)
(* page too many.                                                          *)
ListPage(c) ==
  /\ req[c].pc = "list"
  /\ \E here, last \in BOOLEAN :
       LET p == req[c].profile
           before == req[c].found
           entry == [schema |-> IF here THEN live[p] ELSE before.schema,
                     scope |-> scope, by |-> p, left |-> TTL]
       IN /\ here => live[p] # Absent
          /\ IF \/ req[c].page > 0 /\ before.scope # scope
                \/ here /\ before.schema # Absent
                \/ ~last /\ TooMany(req[c].page + 1)
             THEN End(c) /\ UNCHANGED rt
             ELSE IF last THEN Store(c, entry) /\ Compare(c, entry)
             ELSE /\ Set(c, [req[c] EXCEPT !.page = @ + 1, !.found = [entry EXCEPT !.left = 0]])
                  /\ UNCHANGED rt
  /\ UNCHANGED <<environment, ref, unseen, changes>>

(* The server is asked; its answer, or error, ends the request. *)
Invoke(c) ==
  /\ req[c].pc = "invoke"
  /\ End(c)
  /\ UNCHANGED <<environment, rt, ref, unseen, changes>>

Connect(c) == LookUp(c) \/ ListPage(c) \/ Invoke(c)

---------------------------------------------------------------------------
(* What changes around the broker. *)

Change == changes < MaxChanges /\ changes' = changes + 1

(* Clear: one Exec of several statements, each committed by itself. *)
ClearBindings ==
  /\ Change
  /\ index' = [index EXCEPT !.bindings = {}]
  /\ UNCHANGED <<nextID, policy, live, scope, rt, ref, req, unseen>>

ClearRows ==
  /\ index.bindings = {} /\ index.schema # Absent
  /\ index' = [id |-> 0, schema |-> Absent, bindings |-> {}]
  /\ UNCHANGED <<nextID, policy, live, scope, rt, ref, req, unseen, changes>>

ClearIndex == ClearBindings \/ ClearRows

(* InsertCapability, one transaction; an upsert keeps the id. *)
Insert ==
  /\ Change
  /\ \E s \in Schemas, b \in SUBSET Profiles :
       index' = [id |-> IF index.schema = Absent THEN nextID ELSE index.id, schema |-> s, bindings |-> b]
  /\ nextID' = IF index.schema = Absent THEN nextID + 1 ELSE nextID
  /\ UNCHANGED <<policy, live, scope, rt, ref, req, unseen>>

Configure ==
  /\ Change
  /\ policy' \in SUBSET Profiles
  /\ UNCHANGED <<index, nextID, live, scope, rt, ref, req, unseen>>

(* A server that calls its definitions public offers everybody the same. *)
ServerChanges ==
  /\ Change
  /\ \/ scope' \in Scopes /\ UNCHANGED live
     \/ UNCHANGED scope /\ \E p \in Profiles, d \in Definitions : live' = [live EXCEPT ![p] = d]
     \/ UNCHANGED scope /\ \E d \in Definitions : live' = [p \in Profiles |-> d]
  /\ scope' = "public" => \A p, q \in Profiles : live'[p] = live'[q]
  /\ unseen' = [p \in Profiles |-> [s \in Schemas |-> IF live'[p] = s THEN 0 ELSE unseen[p][s]]]
  /\ UNCHANGED <<index, nextID, policy, rt, ref, req>>

Older(n) == IF n > 0 THEN n - 1 ELSE 0

(* mutant: the end of validity is not looked at *)
Lasting(entry) == entry

(* What has expired is gone: cachedTools drops it when it looks. *)
Aged(entry) == IF entry.left > 1 THEN [entry EXCEPT !.left = Older(@)] ELSE NoEntry

Tick ==
  /\ \A c \in Requests : req[c].pc # "idle" => req[c].age < Span
  /\ req' = [c \in Requests |-> IF req[c].pc = "idle" THEN req[c] ELSE [req[c] EXCEPT !.age = @ + 1]]
  /\ rt' = [r \in Runtimes |-> [rt[r] EXCEPT !.cache = [k \in Keys |-> Aged(@[k])]]]
  /\ ref' = [ref EXCEPT !.left = Older(@)]
  /\ unseen' = [p \in Profiles |-> [s \in Schemas |->
                  IF live[p] = s THEN 0
                  ELSE IF unseen[p][s] < Forever THEN unseen[p][s] + 1 ELSE Forever]]
  /\ UNCHANGED <<environment, changes>>

Serve(c) == Issue(c) \/ Resolve(c) \/ Admit(c) \/ Fail(c) \/ Connect(c)
Client(c) == \E r \in Runtimes : Query(c, r) \/ Begin(c, r)
Start(r) == StartRows(r) \/ StartBindings(r)

Next ==
  \/ \E r \in Runtimes : Start(r) \/ Exit(r)
  \/ \E c \in Requests : Client(c) \/ Serve(c)
  \/ ClearIndex \/ Insert \/ Configure \/ ServerChanges
  \/ Tick

Spec == Init /\ [][Next]_vars

---------------------------------------------------------------------------
TypeOK ==
  /\ nextID \in Nat
  /\ index \in [id : Nat, schema : Definitions, bindings : SUBSET Profiles]
  /\ policy \subseteq Profiles /\ scope \in Scopes /\ live \in [Profiles -> Definitions]
  /\ rt \in [Runtimes -> Runtime] /\ ref \in Reference /\ req \in [Requests -> Request]
  /\ unseen \in [Profiles -> [Schemas -> 0..Forever]]
  /\ changes \in 0..MaxChanges

(* What is called is what was selected: the definitions the connector      *)
(* compared have the schema the reference was issued for, and the profile  *)
(* is one the runtime may use.                                             *)
CalledAsSelected ==
  \A c \in Requests : req[c].pc = "invoke" =>
    /\ req[c].found.schema = req[c].schema
    /\ req[c].profile \in rt[req[c].at].allowed

(* "Private entries are keyed by the caller-provided auth partition": a    *)
(* profile is held to definitions the server gave to it, or to everybody.  *)
OwnPartition ==
  \A c \in Requests : req[c].pc = "invoke" =>
    req[c].found.scope = "public" \/ req[c].found.by = req[c].profile

(* A call is made, or refused for a changed schema, on definitions that    *)
(* the server offered no longer ago than it allows, plus the time it took  *)
(* to list them and to serve the request: a refusal does not outlive its   *)
(* reason.                                                                 *)
DefinitionsFresh ==
  \A c \in Requests : req[c].pc \in {"invoke", "changed"} =>
    unseen[req[c].profile][req[c].found.schema] <= TTL + Span + Span

(* Not kept by the code, which allows definitions their cached life:       *)
(* "Every call reauthorizes and revalidates live schema": what is called   *)
(* was offered by the server at some time since the request began.         *)
LiveRevalidated ==
  [][\A c \in Requests : Invoke(c) =>
       unseen[req[c].profile][req[c].found.schema] <= req[c].age]_vars

(* Not kept by the code: "current context fingerprint".                    *)
ContextCurrent ==
  [][\A c \in Requests, r \in Runtimes : Begin(c, r) =>
       ref.context = [schema |-> index.schema, bindings |-> index.bindings]]_vars

(* Not kept by the code: "current policy and readiness".                   *)
PolicyCurrent ==
  [][\A c \in Requests : Admit(c) /\ req'[c].pc = "lookup" => req[c].profile \in policy]_vars
=============================================================================
