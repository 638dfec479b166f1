---------------------------- MODULE BrokerProofs ----------------------------
(***************************************************************************)
(* Type correctness of the broker; a call is made as it was selected, on   *)
(* definitions of its own partition that are not too old, for any number   *)
(* of runtimes, requests, profiles and schemas.                            *)
(***************************************************************************)
EXTENDS Broker, TLAPS

USE BrokerAssumption DEF BrokerAssumption

LEMMA DataTypes ==
  /\ NoEntry \in Entry /\ NoContext \in Fingerprint /\ NoReference \in Reference
  /\ Idle \in Request /\ Down \in Runtime
<1>1. NoEntry \in Entry
  BY DEF NoEntry, Entry, Definitions, Scopes
<1>2. NoContext \in Fingerprint
  BY DEF NoContext, Fingerprint, Definitions
<1>3. NoReference \in Reference
  BY <1>2 DEF NoReference, Reference, Definitions
<1>4. Idle \in Request
  BY <1>1 DEF Idle, Request, Definitions
<1>5. [k \in Keys |-> NoEntry] \in [Keys -> Entry]
  BY <1>1
<1>6. Down \in Runtime
  BY <1>2, <1>5 DEF Down, Runtime
<1>7. QED
  BY <1>1, <1>2, <1>3, <1>4, <1>6

LEMMA TypedInit == Init => TypeOK
<1> SUFFICES ASSUME Init PROVE TypeOK
  OBVIOUS
<1>1. PICK s \in Schemas :
        /\ index = [id |-> 1, schema |-> s, bindings |-> Profiles]
        /\ live = [p \in Profiles |-> s]
        /\ unseen = [p \in Profiles |-> [t \in Schemas |-> IF t = s THEN 0 ELSE Forever]]
  BY DEF Init
<1>2. unseen \in [Profiles -> [Schemas -> 0..Forever]]
  BY <1>1 DEF Forever
<1>3. QED
  BY <1>1, <1>2, DataTypes DEF Init, TypeOK, Definitions

(* A request is served by a runtime that is up; once admitted, its schema  *)
(* is the one of the reference and its profile is allowed.                 *)
Connected == {"lookup", "list", "invoke", "changed"}
Served(q) == q.pc # "idle" => q.at \in Runtimes /\ rt[q.at].stage = "up"
Admitted(q) == q.pc \in Connected => q.row = q.schema /\ q.profile \in rt[q.at].allowed
InHand == \A c \in Requests : Served(req[c]) /\ Admitted(req[c])

Typed == TypeOK /\ InHand

LEMMA StartsInHand == Init => InHand
BY DEF Init, InHand, Served, Admitted, Connected, Idle

(* What no runtime starting or exiting changes, seen from the requests. *)
SameRuntimes == \A r \in Runtimes : rt'[r].stage = rt[r].stage /\ rt'[r].allowed = rt[r].allowed

LEMMA SetInHand ==
  ASSUME Typed, SameRuntimes, NEW c \in Requests, NEW new \in Request, Set(c, new),
         Served(new), Admitted(new)
  PROVE  InHand'
<1>1. SUFFICES ASSUME NEW d \in Requests
               PROVE  Served(req[d])' /\ Admitted(req[d])'
  BY DEF InHand
<1>2. req'[d] = IF d = c THEN new ELSE req[d]
  BY DEF Set, Typed, TypeOK
<1>3. Served(req'[d]) /\ Admitted(req'[d])
  BY <1>2 DEF Typed, InHand
<1>4. QED
  BY <1>3 DEF SameRuntimes, Served, Admitted, Connected

LEMMA EndInHand ==
  ASSUME Typed, SameRuntimes, NEW c \in Requests, End(c)
  PROVE  InHand'
<1>1. Served(Idle) /\ Admitted(Idle)
  BY DEF Served, Admitted, Connected, Idle
<1>2. QED
  BY <1>1, DataTypes, SetInHand DEF End

LEMMA CompareInHand ==
  ASSUME Typed, SameRuntimes, NEW c \in Requests, NEW entry \in Entry, Compare(c, entry),
         req[c].pc \in Connected
  PROVE  InHand'
<1>1. req[c] \in Request /\ Served(req[c]) /\ Admitted(req[c])
  BY DEF Typed, TypeOK, InHand
<1>2. CASE entry.schema = Absent
  BY <1>2, EndInHand DEF Compare
<1>3. CASE entry.schema # Absent
  <2>1. PICK x \in {"invoke", "changed"} :
          Set(c, [req[c] EXCEPT !.pc = x, !.found = entry, !.page = 0])
    BY <1>3 DEF Compare
  <2> DEFINE new == [req[c] EXCEPT !.pc = x, !.found = entry, !.page = 0]
  <2>2. new \in Request
    <3>1. 0 \in 0..MaxPages - 1
      OBVIOUS
    <3>2. QED
      BY <1>1, <3>1 DEF Request
  <2>3. Served(new) /\ Admitted(new)
    BY <1>1 DEF Served, Admitted, Connected, Request
  <2>4. QED
    BY <2>1, <2>2, <2>3, SetInHand
<1>4. QED
  BY <1>2, <1>3

(* A request that is set to something typed leaves the requests typed. *)
LEMMA SetTyped ==
  ASSUME TypeOK, NEW c \in Requests, NEW new \in Request, Set(c, new)
  PROVE  req' \in [Requests -> Request]
BY DEF TypeOK, Set

LEMMA EndTyped ==
  ASSUME TypeOK, NEW c \in Requests, End(c)
  PROVE  req' \in [Requests -> Request]
BY DataTypes, SetTyped DEF End

LEMMA CompareTyped ==
  ASSUME TypeOK, NEW c \in Requests, NEW entry \in Entry, Compare(c, entry)
  PROVE  req' \in [Requests -> Request]
<1>1. req[c] \in Request
  BY DEF TypeOK
<1>2. CASE entry.schema = Absent
  BY <1>2, EndTyped DEF Compare
<1>3. CASE entry.schema # Absent
  <2> DEFINE pc == IF entry.schema = req[c].row THEN "invoke" ELSE "changed"
             new == [req[c] EXCEPT !.pc = pc, !.found = entry, !.page = 0]
  <2>1. pc \in {"invoke", "changed"}
    OBVIOUS
  <2>2. new \in Request
    <3>1. 0 \in 0..MaxPages - 1
      OBVIOUS
    <3>2. \A x \in {"invoke", "changed"} :
            [req[c] EXCEPT !.pc = x, !.found = entry, !.page = 0] \in Request
      BY <1>1, <3>1 DEF Request
    <3>3. QED
      BY <2>1, <3>2
  <2>3. Set(c, new)
    BY <1>3 DEF Compare
  <2>4. QED
    BY <2>2, <2>3, SetTyped
<1>4. QED
  BY <1>2, <1>3

(* The four ways a page of a listing can end. *)
ListedBy(c, entry) ==
  /\ entry.scope = scope /\ entry.by = req[c].profile /\ entry.left = TTL
  /\ \/ entry.schema = live[req[c].profile] /\ live[req[c].profile] # Absent
     \/ entry.schema = req[c].found.schema /\ (req[c].page > 0 => req[c].found.scope = scope)

LEMMA ListCases ==
  ASSUME TypeOK, NEW c \in Requests, ListPage(c), req[c].profile \in Profiles
  PROVE  \/ End(c) /\ UNCHANGED rt
         \/ \E entry \in Entry :
              /\ ListedBy(c, entry)
              /\ \/ Store(c, entry) /\ Compare(c, entry)
                 \/ /\ req[c].page + 1 \in 0..MaxPages - 1
                    /\ Set(c, [req[c] EXCEPT !.page = @ + 1, !.found = [entry EXCEPT !.left = 0]])
                    /\ UNCHANGED rt
<1>1. req[c] \in Request /\ req[c].found \in Entry
  BY DEF TypeOK, Request
<1>2. PICK here \in BOOLEAN, last \in BOOLEAN :
       LET p == req[c].profile
           before == req[c].found
           entry == [schema |-> IF here THEN live[p] ELSE before.schema,
                     scope |-> scope, by |-> p, left |-> TTL]
       IN /\ here => live[p] # Absent
          /\ IF \/ req[c].page > 0 /\ before.scope # scope
                \/ here /\ before.schema # Absent
                \/ ~last /\ TooMany(req[c].page + 1)
             THEN End(c) /\ UNCHANGED rt
             ELSE IF last THEN Store(c, entry) /\ Compare(c, entry)
             ELSE /\ Set(c, [req[c] EXCEPT !.page = @ + 1, !.found = [entry EXCEPT !.left = 0]])
                  /\ UNCHANGED rt
  BY DEF ListPage
<1> DEFINE entry == [schema |-> IF here THEN live[req[c].profile] ELSE req[c].found.schema,
                     scope |-> scope, by |-> req[c].profile, left |-> TTL]
<1>3. entry \in Entry
  BY <1>1 DEF TypeOK, Entry
<1>4. CASE \/ req[c].page > 0 /\ req[c].found.scope # scope
           \/ here /\ req[c].found.schema # Absent
           \/ ~last /\ TooMany(req[c].page + 1)
  BY <1>2, <1>4
<1>5. CASE ~ \/ req[c].page > 0 /\ req[c].found.scope # scope
             \/ here /\ req[c].found.schema # Absent
             \/ ~last /\ TooMany(req[c].page + 1)
  <2>1. ListedBy(c, entry)
    BY <1>2, <1>5 DEF ListedBy
  <2>2. ~last => req[c].page + 1 \in 0..MaxPages - 1
    BY <1>1, <1>5 DEF Request, TooMany
  <2>3. \/ Store(c, entry) /\ Compare(c, entry)
        \/ /\ ~last
           /\ Set(c, [req[c] EXCEPT !.page = @ + 1, !.found = [entry EXCEPT !.left = 0]])
           /\ UNCHANGED rt
    BY <1>2, <1>5
  <2>4. QED
    BY <1>3, <2>1, <2>2, <2>3
<1>6. QED
  BY <1>4, <1>5

(* What storing does to the caches. *)
LEMMA StoreEffect ==
  ASSUME TypeOK, NEW c \in Requests, req[c].at \in Runtimes, req[c].profile \in Profiles,
         NEW entry \in Entry, Store(c, entry)
  PROVE  /\ SameRuntimes /\ rt' \in [Runtimes -> Runtime]
         /\ \A r \in Runtimes, k \in Keys :
              rt'[r].cache[k] = IF r = req[c].at /\ entry.scope # "none" /\ k = Key(c, entry.scope)
                                THEN entry ELSE rt[r].cache[k]
<1>1. rt \in [Runtimes -> Runtime] /\ \A r \in Runtimes : rt[r] \in Runtime
  BY DEF TypeOK
<1>2. CASE entry.scope = "none"
  BY <1>1, <1>2 DEF Store, SameRuntimes
<1>3. CASE entry.scope # "none"
  <2> DEFINE r == req[c].at
             new == [rt[r].cache EXCEPT ![Key(c, entry.scope)] = entry]
  <2>1. rt[r].cache \in [Keys -> Entry] /\ Key(c, entry.scope) \in Keys
    BY <1>1 DEF Runtime, Key, Keys
  <2>2. new \in [Keys -> Entry]
    BY <2>1
  <2>3. rt' = [rt EXCEPT ![r] = [rt[r] EXCEPT !.cache = new]]
    BY <1>3 DEF Store, SetRuntime
  <2>4. /\ [rt[r] EXCEPT !.cache = new] \in Runtime
        /\ [rt[r] EXCEPT !.cache = new].cache = new
        /\ [rt[r] EXCEPT !.cache = new].stage = rt[r].stage
        /\ [rt[r] EXCEPT !.cache = new].allowed = rt[r].allowed
    BY <1>1, <2>2 DEF Runtime
  <2>5. \A x \in Runtimes : rt'[x] = IF x = r THEN [rt[r] EXCEPT !.cache = new] ELSE rt[x]
    BY <1>1, <2>3
  <2>6. \A k \in Keys : new[k] = IF k = Key(c, entry.scope) THEN entry ELSE rt[r].cache[k]
    BY <2>1
  <2>7. SameRuntimes
    BY <2>4, <2>5 DEF SameRuntimes
  <2>8. rt' \in [Runtimes -> Runtime]
    BY <1>1, <2>3, <2>4
  <2>9. ASSUME NEW x \in Runtimes, NEW k \in Keys
        PROVE  rt'[x].cache[k] = IF x = r /\ k = Key(c, entry.scope) THEN entry ELSE rt[x].cache[k]
    <3>1. CASE x = r
      <4>1. rt'[x].cache = new
        BY <2>4, <2>5, <3>1
      <4>2. QED
        BY <2>6, <3>1, <4>1
    <3>2. CASE x # r
      BY <2>5, <3>2
    <3>3. QED
      BY <3>1, <3>2
  <2>10. QED
    BY <1>3, <2>7, <2>8, <2>9
<1>4. QED
  BY <1>2, <1>3

(* Steps of a request that leave the runtimes alone. *)
LEMMA SetStep ==
  ASSUME Typed, NEW c \in Requests, NEW new \in Request, Set(c, new),
         Served(new), Admitted(new), ref' \in Reference,
         UNCHANGED <<environment, rt, unseen, changes>>
  PROVE  Typed'
<1>1. SameRuntimes
  BY DEF SameRuntimes
<1>2. InHand'
  BY <1>1, SetInHand
<1>3. req' \in [Requests -> Request]
  BY SetTyped DEF Typed
<1>4. QED
  BY <1>2, <1>3 DEF Typed, TypeOK, environment

LEMMA EndStep ==
  ASSUME Typed, NEW c \in Requests, End(c), ref' \in Reference,
         UNCHANGED <<environment, rt, unseen, changes>>
  PROVE  Typed'
<1>1. Served(Idle) /\ Admitted(Idle)
  BY DEF Served, Admitted, Connected, Idle
<1>2. QED
  BY <1>1, DataTypes, SetStep DEF End

(* Starting and exiting. *)
LEMMA StartTyped ==
  ASSUME Typed, NEW r \in Runtimes, Start(r)
  PROVE  Typed'
<1>1. rt \in [Runtimes -> Runtime] /\ rt[r] \in Runtime /\ rt[r].context \in Fingerprint
  BY DEF Typed, TypeOK, Runtime
<1>2. PICK new \in Runtime : /\ rt' = [rt EXCEPT ![r] = new]
                             /\ rt[r].stage = "up" => new = rt[r]
                             /\ rt[r].stage # "up"
  <2>1. CASE StartRows(r)
    <3> DEFINE f == [rt[r].context EXCEPT !.schema = index.schema]
               new == [rt[r] EXCEPT !.stage = "starting", !.allowed = policy, !.context = f]
    <3>1. f \in Fingerprint
      BY <1>1 DEF Fingerprint, Typed, TypeOK
    <3>2. new \in Runtime
      BY <1>1, <3>1 DEF Runtime, Typed, TypeOK
    <3>3. rt' = [rt EXCEPT ![r] = new]
      BY <1>1, <2>1 DEF StartRows, Runtime
    <3>4. QED
      BY <2>1, <3>2, <3>3 DEF StartRows
  <2>2. CASE StartBindings(r)
    <3> DEFINE f == [rt[r].context EXCEPT !.bindings = index.bindings]
               new == [rt[r] EXCEPT !.stage = "up", !.context = f]
    <3>1. f \in Fingerprint
      BY <1>1 DEF Fingerprint, Typed, TypeOK
    <3>2. new \in Runtime
      BY <1>1, <3>1 DEF Runtime
    <3>3. rt' = [rt EXCEPT ![r] = new]
      BY <1>1, <2>2 DEF StartBindings, Runtime
    <3>4. QED
      BY <2>2, <3>2, <3>3 DEF StartBindings
  <2>3. QED
    BY <2>1, <2>2 DEF Start
<1>3. UNCHANGED <<environment, ref, req, unseen, changes>>
  BY DEF Start, StartRows, StartBindings
<1>4. TypeOK'
  BY <1>1, <1>2, <1>3 DEF Typed, TypeOK, environment
<1>5. InHand'
  <2>1. SUFFICES ASSUME NEW d \in Requests
                 PROVE  Served(req[d])' /\ Admitted(req[d])'
    BY DEF InHand
  <2>2. Served(req[d]) /\ Admitted(req[d]) /\ req'[d] = req[d]
    BY <1>3 DEF Typed, InHand
  <2>3. req[d].pc \in Connected => req[d].pc # "idle"
    BY DEF Connected
  <2>4. \A x \in Runtimes : rt[x].stage = "up" => rt'[x] = rt[x]
    BY <1>1, <1>2
  <2>5. QED
    BY <2>2, <2>3, <2>4 DEF Served, Admitted
<1>6. QED
  BY <1>4, <1>5 DEF Typed

LEMMA ExitTyped ==
  ASSUME Typed, NEW r \in Runtimes, Exit(r)
  PROVE  Typed'
<1>1. rt' \in [Runtimes -> Runtime] /\ req' \in [Requests -> Request] /\ changes' \in 0..MaxChanges
  BY DataTypes DEF Exit, Typed, TypeOK
<1>2. InHand'
  <2>1. SUFFICES ASSUME NEW d \in Requests
                 PROVE  Served(req[d])' /\ Admitted(req[d])'
    BY DEF InHand
  <2>2. CASE req[d].at = r
    BY <2>2 DEF Exit, Served, Admitted, Connected, Idle
  <2>3. CASE req[d].at # r
    <3>1. req'[d] = req[d] /\ Served(req[d]) /\ Admitted(req[d])
      BY <2>3 DEF Exit, Typed, InHand
    <3>2. \A x \in Runtimes : x # r => rt'[x] = rt[x]
      BY DEF Exit, Typed, TypeOK
    <3>3. req[d].pc \in Connected => req[d].pc # "idle"
      BY DEF Connected
    <3>4. QED
      BY <2>3, <3>1, <3>2, <3>3 DEF Served, Admitted
  <2>4. QED
    BY <2>2, <2>3
<1>3. QED
  BY <1>1, <1>2 DEF Exit, Typed, TypeOK, environment

(* The steps of a request up to its admission. *)
LEMMA ServeTyped ==
  ASSUME Typed, NEW c \in Requests,
         \/ \E r \in Runtimes : Query(c, r) \/ Begin(c, r)
         \/ Issue(c) \/ Resolve(c) \/ Admit(c) \/ Fail(c) \/ Invoke(c)
  PROVE  Typed'
<1>1. /\ req[c] \in Request /\ Served(req[c]) /\ Admitted(req[c])
      /\ ref \in Reference /\ index.id \in Nat /\ index.schema \in Definitions
      /\ index.bindings \subseteq Profiles
  BY DEF Typed, TypeOK, InHand
<1>2. ASSUME NEW r \in Runtimes, Query(c, r)
      PROVE  Typed'
  <2> DEFINE new == [Idle EXCEPT !.pc = "query", !.at = r, !.id = index.id, !.row = index.schema]
  <2>1. new \in Request
    BY <1>1, DataTypes DEF Request
  <2>2. Served(new) /\ Admitted(new)
    BY <1>2 DEF Query, Served, Admitted, Connected, Idle
  <2>3. QED
    BY <1>1, <1>2, <2>1, <2>2, SetStep DEF Query
<1>3. ASSUME NEW r \in Runtimes, Begin(c, r)
      PROVE  Typed'
  <2> DEFINE new == [Idle EXCEPT !.pc = "resolve", !.at = r,
                                 !.schema = ref.schema, !.profile = ref.profile]
  <2>1. new \in Request
    BY <1>1, DataTypes DEF Request, Reference
  <2>2. Served(new) /\ Admitted(new)
    BY <1>3 DEF Begin, Served, Admitted, Connected, Idle
  <2>3. QED
    BY <1>1, <1>3, <2>1, <2>2, SetStep DEF Begin
<1>4. CASE Issue(c)
  <2>1. PICK p \in Bindings(c) \cup {NoProfile} :
          ref' = [schema |-> req[c].row, profile |-> p, context |-> rt[req[c].at].context,
                  left |-> RefTTL]
    BY <1>4 DEF Issue
  <2>2. p \in Profiles \cup {NoProfile}
    BY <1>1 DEF Bindings
  <2>3. rt[req[c].at].context \in Fingerprint
    BY <1>1, <1>4 DEF Issue, Served, Typed, TypeOK, Runtime
  <2>4. ref' \in Reference
    BY <1>1, <2>1, <2>2, <2>3 DEF Reference, Request
  <2>5. QED
    BY <1>4, <2>4, EndStep DEF Issue
<1>5. CASE Resolve(c)
  <2>1. CASE index.schema = Absent
    BY <1>1, <1>5, <2>1, EndStep DEF Resolve
  <2>2. CASE index.schema # Absent
    <3> DEFINE new == [req[c] EXCEPT !.pc = "bindings", !.id = index.id, !.row = index.schema]
    <3>1. new \in Request
      BY <1>1 DEF Request
    <3>2. Served(new) /\ Admitted(new)
      BY <1>1, <1>5 DEF Resolve, Served, Admitted, Connected, Request
    <3>3. QED
      BY <1>1, <1>5, <2>2, <3>1, <3>2, SetStep DEF Resolve
  <2>3. QED
    BY <2>1, <2>2
<1>6. CASE Admit(c)
  <2>1. CASE Described(c) /\ Authorized(c)
    <3> DEFINE new == [req[c] EXCEPT !.pc = "lookup"]
    <3>1. new \in Request
      BY <1>1 DEF Request
    <3>2. Served(new) /\ Admitted(new)
      BY <1>1, <1>6, <2>1 DEF Admit, Described, Authorized, Served, Admitted, Request
    <3>3. QED
      BY <1>1, <1>6, <2>1, <3>1, <3>2, SetStep DEF Admit
  <2>2. CASE ~(Described(c) /\ Authorized(c))
    BY <1>1, <1>6, <2>2, EndStep DEF Admit
  <2>3. QED
    BY <2>1, <2>2
<1>7. CASE Fail(c)
  BY <1>1, <1>7, EndStep DEF Fail
<1>8. CASE Invoke(c)
  BY <1>1, <1>8, EndStep DEF Invoke
<1>9. QED
  BY <1>2, <1>3, <1>4, <1>5, <1>6, <1>7, <1>8

(* An admitted request knows its runtime and its profile. *)
LEMMA KnowsProfile ==
  ASSUME Typed, NEW c \in Requests, req[c].pc \in Connected
  PROVE  /\ req[c].at \in Runtimes /\ req[c].profile \in Profiles
         /\ rt[req[c].at].cache \in [Keys -> Entry]
<1>1. Served(req[c]) /\ Admitted(req[c]) /\ req[c].pc # "idle"
  BY DEF Typed, InHand, Connected
<1>2. req[c].at \in Runtimes
  BY <1>1 DEF Served
<1>3. rt[req[c].at] \in Runtime
  BY <1>2 DEF Typed, TypeOK
<1>4. QED
  BY <1>1, <1>2, <1>3 DEF Admitted, Runtime

LEMMA LookUpTyped ==
  ASSUME Typed, NEW c \in Requests, LookUp(c)
  PROVE  Typed'
<1>1. /\ req[c] \in Request /\ req[c].pc \in Connected /\ ref \in Reference
      /\ Served(req[c]) /\ Admitted(req[c])
  BY DEF LookUp, Connected, Typed, TypeOK, InHand
<1>2. ASSUME NEW k \in Keys, Hit(c, k)
      PROVE  Typed'
  <2>1. rt[req[c].at].cache[k] \in Entry
    BY <1>1, <1>2, KnowsProfile
  <2>2. SameRuntimes
    BY <1>2 DEF Hit, SameRuntimes
  <2>3. InHand'
    BY <1>1, <1>2, <2>1, <2>2, CompareInHand DEF Hit
  <2>4. req' \in [Requests -> Request]
    BY <1>2, <2>1, CompareTyped DEF Hit, Typed
  <2>5. QED
    BY <1>2, <2>3, <2>4 DEF Hit, LookUp, Typed, TypeOK, environment
<1>3. CASE Set(c, [req[c] EXCEPT !.pc = "list"]) /\ UNCHANGED rt
  <2> DEFINE new == [req[c] EXCEPT !.pc = "list"]
  <2>1. new \in Request
    BY <1>1 DEF Request
  <2>2. Served(new) /\ Admitted(new)
    BY <1>1 DEF Served, Admitted, Connected, Request
  <2>3. QED
    BY <1>1, <1>3, <2>1, <2>2, SetStep DEF LookUp
<1>4. "public" \in Keys /\ req[c].profile \in Keys
  BY <1>1, KnowsProfile DEF Keys
<1>5. QED
  BY <1>2, <1>3, <1>4 DEF LookUp

LEMMA ListTyped ==
  ASSUME Typed, NEW c \in Requests, ListPage(c)
  PROVE  Typed'
<1>1. /\ req[c] \in Request /\ req[c].pc = "list" /\ req[c].pc \in Connected
      /\ Served(req[c]) /\ Admitted(req[c])
      /\ req[c].at \in Runtimes /\ req[c].profile \in Profiles /\ ref \in Reference
      /\ UNCHANGED <<environment, ref, unseen, changes>>
  BY KnowsProfile DEF ListPage, Connected, Typed, TypeOK, InHand
<1>2. CASE End(c) /\ UNCHANGED rt
  BY <1>1, <1>2, EndStep
<1>3. ASSUME NEW entry \in Entry, Store(c, entry), Compare(c, entry)
      PROVE  Typed'
  <2>1. SameRuntimes /\ rt' \in [Runtimes -> Runtime]
    BY <1>1, <1>3, StoreEffect DEF Typed
  <2>2. InHand'
    BY <1>1, <1>3, <2>1, CompareInHand
  <2>3. req' \in [Requests -> Request]
    BY <1>3, CompareTyped DEF Typed
  <2>4. QED
    BY <1>1, <2>1, <2>2, <2>3 DEF Typed, TypeOK, environment
<1>4. ASSUME NEW entry \in Entry, req[c].page + 1 \in 0..MaxPages - 1, UNCHANGED rt,
             Set(c, [req[c] EXCEPT !.page = @ + 1, !.found = [entry EXCEPT !.left = 0]])
      PROVE  Typed'
  <2> DEFINE new == [req[c] EXCEPT !.page = @ + 1, !.found = [entry EXCEPT !.left = 0]]
  <2>1. [entry EXCEPT !.left = 0] \in Entry
    BY DEF Entry
  <2>2. new \in Request
    BY <1>1, <1>4, <2>1 DEF Request
  <2>3. Served(new) /\ Admitted(new)
    BY <1>1 DEF Served, Admitted, Connected, Request
  <2>4. QED
    BY <1>1, <1>4, <2>2, <2>3, SetStep
<1>5. QED
  BY <1>1, <1>2, <1>3, <1>4, ListCases DEF Typed

(* Time makes everything older and changes nothing else. *)
Later(q) == IF q.pc = "idle" THEN q ELSE [q EXCEPT !.age = @ + 1]

LEMMA TickEffect ==
  ASSUME TypeOK, Tick
  PROVE  /\ SameRuntimes /\ rt' \in [Runtimes -> Runtime]
         /\ \A r \in Runtimes, k \in Keys : rt'[r].cache[k] = Aged(rt[r].cache[k])
         /\ req' \in [Requests -> Request]
         /\ \A c \in Requests : /\ req'[c] = Later(req[c])
                                /\ req'[c].pc # "idle" => req'[c].age = req[c].age + 1
<1>1. ASSUME NEW e \in Entry PROVE Aged(e) \in Entry
  BY DataTypes DEF Aged, Entry, Older
<1>2. ASSUME NEW r \in Runtimes
      PROVE  /\ rt'[r] = [rt[r] EXCEPT !.cache = [k \in Keys |-> Aged(rt[r].cache[k])]]
             /\ rt'[r] \in Runtime /\ rt'[r].stage = rt[r].stage /\ rt'[r].allowed = rt[r].allowed
             /\ \A k \in Keys : rt'[r].cache[k] = Aged(rt[r].cache[k])
  <2>1. rt[r] \in Runtime /\ rt[r].cache \in [Keys -> Entry]
    BY DEF TypeOK, Runtime
  <2> DEFINE new == [k \in Keys |-> Aged(rt[r].cache[k])]
  <2>2. new \in [Keys -> Entry]
    BY <1>1, <2>1
  <2>3. rt'[r] = [rt[r] EXCEPT !.cache = new]
    BY DEF Tick
  <2>4. QED
    BY <2>1, <2>2, <2>3 DEF Runtime
<1>3. rt' \in [Runtimes -> Runtime]
  <2>1. rt' = [r \in Runtimes |-> rt'[r]]
    BY DEF Tick
  <2>2. QED
    BY <1>2, <2>1
<1>4. ASSUME NEW c \in Requests
      PROVE  /\ req'[c] = Later(req[c]) /\ req'[c] \in Request
             /\ req'[c].pc # "idle" => req'[c].age = req[c].age + 1
  <2>1. req[c] \in Request /\ req'[c] = Later(req[c])
    BY DEF Tick, TypeOK, Later
  <2>2. req[c].pc # "idle" => req[c].age + 1 \in 0..Span
    BY <2>1 DEF Tick, Request
  <2>3. QED
    BY <2>1, <2>2 DEF Later, Request
<1>5. req' \in [Requests -> Request]
  <2>1. req' = [c \in Requests |-> req'[c]]
    BY DEF Tick
  <2>2. QED
    BY <1>4, <2>1
<1>6. QED
  BY <1>2, <1>3, <1>4, <1>5 DEF SameRuntimes

LEMMA UnseenTyped ==
  ASSUME TypeOK, ServerChanges \/ Tick
  PROVE  unseen' \in [Profiles -> [Schemas -> 0..Forever]]
<1>1. Forever \in Nat
  BY DEF Forever
<1>2. \A p \in Profiles, s \in Schemas : unseen[p][s] \in 0..Forever
  BY DEF TypeOK
<1>3. CASE ServerChanges
  BY <1>1, <1>2, <1>3 DEF ServerChanges
<1>4. CASE Tick
  BY <1>1, <1>2, <1>4 DEF Tick
<1>5. QED
  BY <1>3, <1>4

LEMMA TickTyped ==
  ASSUME Typed, Tick
  PROVE  Typed'
<1>1. ref' \in Reference
  <2>1. ref \in Reference /\ Older(ref.left) \in 0..RefTTL
    BY DEF Typed, TypeOK, Reference, Older
  <2>2. QED
    BY <2>1 DEF Tick, Reference
<1>2. InHand'
  <2>1. SUFFICES ASSUME NEW d \in Requests
                 PROVE  Served(req[d])' /\ Admitted(req[d])'
    BY DEF InHand
  <2>2. req[d] \in Request /\ Served(req[d]) /\ Admitted(req[d])
    BY DEF Typed, TypeOK, InHand
  <2>3. /\ req'[d].pc = req[d].pc /\ req'[d].at = req[d].at /\ req'[d].row = req[d].row
        /\ req'[d].schema = req[d].schema /\ req'[d].profile = req[d].profile
    BY <2>2, TickEffect DEF Typed, Later, Request
  <2>4. SameRuntimes
    BY TickEffect DEF Typed
  <2>5. req[d].pc \in Connected => req[d].pc # "idle"
    BY DEF Connected
  <2>6. QED
    BY <2>2, <2>3, <2>4, <2>5 DEF Served, Admitted, SameRuntimes
<1>3. TypeOK'
  BY <1>1, TickEffect, UnseenTyped DEF Typed, TypeOK, Tick, environment
<1>4. QED
  BY <1>2, <1>3 DEF Typed

LEMMA ChangeTyped ==
  ASSUME Typed, ClearIndex \/ Insert \/ Configure \/ ServerChanges
  PROVE  Typed'
<1>1. UNCHANGED <<rt, ref, req>> /\ changes' \in 0..MaxChanges
  BY DEF ClearIndex, ClearBindings, ClearRows, Insert, Configure, ServerChanges, Change, Typed, TypeOK
<1>2. InHand'
  BY <1>1 DEF Typed, InHand, Served, Admitted
<1>3. CASE ClearIndex
  BY <1>1, <1>2, <1>3 DEF ClearIndex, ClearBindings, ClearRows, Typed, TypeOK, Definitions
<1>4. CASE Insert
  <2>1. index' \in [id : Nat, schema : Definitions, bindings : SUBSET Profiles] /\ nextID' \in Nat
    BY <1>4 DEF Insert, Typed, TypeOK, Definitions
  <2>2. QED
    BY <1>1, <1>2, <1>4, <2>1 DEF Insert, Typed, TypeOK
<1>5. CASE Configure
  BY <1>1, <1>2, <1>5 DEF Configure, Typed, TypeOK
<1>6. CASE ServerChanges
  <2>1. live' \in [Profiles -> Definitions] /\ scope' \in Scopes
    BY <1>6 DEF ServerChanges, Typed, TypeOK
  <2>2. unseen' \in [Profiles -> [Schemas -> 0..Forever]]
    BY <1>6, UnseenTyped DEF Typed
  <2>3. QED
    BY <1>1, <1>2, <1>6, <2>1, <2>2 DEF ServerChanges, Typed, TypeOK
<1>7. QED
  BY <1>3, <1>4, <1>5, <1>6

LEMMA TypedNext == Typed /\ [Next]_vars => Typed'
<1> SUFFICES ASSUME Typed, [Next]_vars PROVE Typed'
  OBVIOUS
<1>1. ASSUME NEW r \in Runtimes, Start(r) \/ Exit(r) PROVE Typed'
  BY <1>1, StartTyped, ExitTyped
<1>2. ASSUME NEW c \in Requests, Client(c) \/ Serve(c) PROVE Typed'
  BY <1>2, ServeTyped, LookUpTyped, ListTyped DEF Client, Serve, Connect
<1>3. CASE ClearIndex \/ Insert \/ Configure \/ ServerChanges
  BY <1>3, ChangeTyped
<1>4. CASE Tick
  BY <1>4, TickTyped
<1>5. CASE UNCHANGED vars
  BY <1>5 DEF vars, environment, Typed, TypeOK, InHand, Served, Admitted
<1>6. QED
  BY <1>1, <1>2, <1>3, <1>4, <1>5 DEF Next

LEMMA TypedInvariant == Spec => []Typed
<1>1. Init => Typed
  BY TypedInit, StartsInHand DEF Typed
<1>2. QED
  BY <1>1, TypedNext, PTL DEF Spec

(* The types of the broker's state hold for every number of everything. *)
THEOREM TypeCorrect == Spec => []TypeOK
<1>1. Typed => TypeOK
  BY DEF Typed
<1>2. QED
  BY <1>1, TypedInvariant, PTL

---------------------------------------------------------------------------
(* What a runtime remembers for a profile was said to it, or to everybody; *)
(* what a request goes on with comes from there or from its own listing.   *)

CacheKeyed ==
  \A r \in Runtimes, k \in Keys : rt[r].cache[k].left > 0 =>
    IF k = "public" THEN rt[r].cache[k].scope = "public" ELSE rt[r].cache[k].by = k

Own(q) ==
  q.pc \in {"invoke", "changed"} =>
    /\ q.found.scope = "public" \/ q.found.by = q.profile
    /\ q.found.schema \in Schemas
    /\ q.pc = "invoke" => q.found.schema = q.row

Blank(q) ==
  q.pc \in {"resolve", "bindings", "lookup"} \/ (q.pc = "list" /\ q.page = 0) =>
    q.found = NoEntry /\ q.page = 0

Clean(q) == Own(q) /\ Blank(q)
Keyed == CacheKeyed /\ \A c \in Requests : Clean(req[c])

LEMMA KeyedInit == Init => Keyed
BY DEF Init, Keyed, CacheKeyed, Clean, Own, Blank, Idle, Down, NoEntry

LEMMA SetClean ==
  ASSUME Typed, Keyed, NEW c \in Requests, NEW new, Set(c, new), Clean(new)
  PROVE  \A d \in Requests : Clean(req[d])'
<1>1. SUFFICES ASSUME NEW d \in Requests PROVE Clean(req[d])'
  OBVIOUS
<1>2. req'[d] = IF d = c THEN new ELSE req[d]
  BY DEF Set, Typed, TypeOK
<1>3. Clean(req'[d])
  BY <1>2 DEF Keyed
<1>4. QED
  BY <1>3 DEF Clean, Own, Blank

LEMMA EndClean ==
  ASSUME Typed, Keyed, NEW c \in Requests, End(c)
  PROVE  \A d \in Requests : Clean(req[d])'
<1>1. Clean(Idle)
  BY DEF Clean, Own, Blank, Idle
<1>2. QED
  BY <1>1, SetClean DEF End

LEMMA CompareClean ==
  ASSUME Typed, Keyed, NEW c \in Requests, NEW entry \in Entry, Compare(c, entry),
         entry.scope = "public" \/ entry.by = req[c].profile
  PROVE  \A d \in Requests : Clean(req[d])'
<1>1. CASE entry.schema = Absent
  BY <1>1, EndClean DEF Compare
<1>2. CASE entry.schema # Absent
  <2>1. req[c] \in Request /\ entry.schema \in Schemas
    BY <1>2 DEF Typed, TypeOK, Entry, Definitions
  <2>2. PICK x \in {"invoke", "changed"} :
          /\ Set(c, [req[c] EXCEPT !.pc = x, !.found = entry, !.page = 0])
          /\ x = "invoke" => entry.schema = req[c].row
    BY <1>2 DEF Compare
  <2>3. Clean([req[c] EXCEPT !.pc = x, !.found = entry, !.page = 0])
    BY <2>1, <2>2 DEF Clean, Own, Blank, Request
  <2>4. QED
    BY <2>2, <2>3, SetClean
<1>3. QED
  BY <1>1, <1>2

LEMMA ServeKeyed ==
  ASSUME Typed, Keyed, NEW c \in Requests,
         \/ \E r \in Runtimes : Query(c, r) \/ Begin(c, r)
         \/ Issue(c) \/ Resolve(c) \/ Admit(c) \/ Fail(c) \/ Invoke(c)
  PROVE  Keyed'
<1>1. req[c] \in Request /\ Clean(req[c])
  BY DEF Typed, TypeOK, Keyed
<1>2. CacheKeyed'
  BY DEF Query, Begin, Issue, Resolve, Admit, Fail, Invoke, Keyed, CacheKeyed
<1>3. ASSUME NEW r \in Runtimes, Query(c, r)
      PROVE  \A d \in Requests : Clean(req[d])'
  <2>1. Clean([Idle EXCEPT !.pc = "query", !.at = r, !.id = index.id, !.row = index.schema])
    BY DEF Clean, Own, Blank, Idle
  <2>2. QED
    BY <1>3, <2>1, SetClean DEF Query
<1>4. ASSUME NEW r \in Runtimes, Begin(c, r)
      PROVE  \A d \in Requests : Clean(req[d])'
  <2>1. Clean([Idle EXCEPT !.pc = "resolve", !.at = r,
                           !.schema = ref.schema, !.profile = ref.profile])
    BY DEF Clean, Own, Blank, Idle
  <2>2. QED
    BY <1>4, <2>1, SetClean DEF Begin
<1>5. ASSUME Resolve(c), ~End(c)
      PROVE  \A d \in Requests : Clean(req[d])'
  <2>1. Clean([req[c] EXCEPT !.pc = "bindings", !.id = index.id, !.row = index.schema])
    BY <1>1, <1>5 DEF Resolve, Clean, Own, Blank, Request
  <2>2. QED
    BY <1>5, <2>1, SetClean DEF Resolve
<1>6. ASSUME Admit(c), ~End(c)
      PROVE  \A d \in Requests : Clean(req[d])'
  <2>1. Clean([req[c] EXCEPT !.pc = "lookup"])
    BY <1>1, <1>6 DEF Admit, Clean, Own, Blank, Request
  <2>2. QED
    BY <1>6, <2>1, SetClean DEF Admit
<1>7. ASSUME End(c)
      PROVE  \A d \in Requests : Clean(req[d])'
  BY <1>7, EndClean
<1>8. ASSUME Issue(c) \/ Fail(c) \/ Invoke(c)
      PROVE  \A d \in Requests : Clean(req[d])'
  BY <1>7, <1>8 DEF Issue, Fail, Invoke
<1>9. \A d \in Requests : Clean(req[d])'
  BY <1>3, <1>4, <1>5, <1>6, <1>7, <1>8
<1>10. QED
  BY <1>2, <1>9 DEF Keyed

LEMMA LookUpKeyed ==
  ASSUME Typed, Keyed, NEW c \in Requests, LookUp(c)
  PROVE  Keyed'
<1>1. req[c] \in Request /\ req[c].pc \in Connected /\ Clean(req[c])
  BY DEF LookUp, Connected, Typed, TypeOK, Keyed
<1>2. CacheKeyed'
  BY DEF LookUp, Hit, Keyed, CacheKeyed
<1>3. ASSUME NEW k \in Keys, k \in {"public", req[c].profile}, Fresh(c, k), Hit(c, k)
      PROVE  \A d \in Requests : Clean(req[d])'
  <2> DEFINE entry == rt[req[c].at].cache[k]
  <2>1. req[c].at \in Runtimes /\ req[c].profile \in Profiles /\ entry \in Entry
    BY <1>1, KnowsProfile
  <2>2. entry.scope = "public" \/ entry.by = req[c].profile
    BY <1>3, <2>1 DEF Fresh, Keyed, CacheKeyed
  <2>3. QED
    BY <1>3, <2>1, <2>2, CompareClean DEF Hit
<1>4. ASSUME Set(c, [req[c] EXCEPT !.pc = "list"])
      PROVE  \A d \in Requests : Clean(req[d])'
  <2>1. Clean([req[c] EXCEPT !.pc = "list"])
    BY <1>1 DEF LookUp, Clean, Own, Blank, Request
  <2>2. QED
    BY <1>4, <2>1, SetClean
<1>5. "public" \in Keys /\ req[c].profile \in Keys
  BY <1>1, KnowsProfile DEF Keys
<1>6. QED
  BY <1>2, <1>3, <1>4, <1>5 DEF LookUp, Keyed

LEMMA ListKeyed ==
  ASSUME Typed, Keyed, NEW c \in Requests, ListPage(c)
  PROVE  Keyed'
<1>1. /\ req[c] \in Request /\ req[c].at \in Runtimes /\ req[c].profile \in Profiles
  BY KnowsProfile DEF ListPage, Connected, Typed, TypeOK
<1>2. ASSUME End(c), UNCHANGED rt
      PROVE  Keyed'
  BY <1>2, EndClean DEF Keyed, CacheKeyed
<1>3. ASSUME NEW entry \in Entry, ListedBy(c, entry), Store(c, entry), Compare(c, entry)
      PROVE  Keyed'
  <2>1. entry.by = req[c].profile
    BY <1>3 DEF ListedBy
  <2>2. \A d \in Requests : Clean(req[d])'
    BY <1>3, <2>1, CompareClean
  <2>3. ASSUME NEW r \in Runtimes, NEW k \in Keys, rt'[r].cache[k].left > 0
        PROVE  IF k = "public" THEN rt'[r].cache[k].scope = "public" ELSE rt'[r].cache[k].by = k
    <3>1. CASE r = req[c].at /\ entry.scope # "none" /\ k = Key(c, entry.scope)
      <4>1. rt'[r].cache[k] = entry
        BY <1>1, <1>3, <3>1, StoreEffect DEF Typed
      <4>2. QED
        BY <1>1, <2>1, <3>1, <4>1 DEF Key
    <3>2. CASE ~(r = req[c].at /\ entry.scope # "none" /\ k = Key(c, entry.scope))
      <4>1. rt'[r].cache[k] = rt[r].cache[k]
        BY <1>1, <1>3, <3>2, StoreEffect DEF Typed
      <4>2. QED
        BY <2>3, <4>1 DEF Keyed, CacheKeyed
    <3>3. QED
      BY <3>1, <3>2
  <2>4. QED
    BY <2>2, <2>3 DEF Keyed, CacheKeyed
<1>4. ASSUME NEW entry \in Entry, req[c].page + 1 \in 0..MaxPages - 1, UNCHANGED rt,
             Set(c, [req[c] EXCEPT !.page = @ + 1, !.found = [entry EXCEPT !.left = 0]])
      PROVE  Keyed'
  <2> DEFINE new == [req[c] EXCEPT !.page = @ + 1, !.found = [entry EXCEPT !.left = 0]]
  <2>1. new.pc = "list" /\ new.page # 0
    BY <1>1 DEF ListPage, Request
  <2>2. Clean(new)
    BY <2>1 DEF Clean, Own, Blank
  <2>3. QED
    BY <1>4, <2>2, SetClean DEF Keyed, CacheKeyed
<1>5. QED
  BY <1>1, <1>2, <1>3, <1>4, ListCases DEF Typed

LEMMA KeyedNext == Typed /\ Keyed /\ [Next]_vars => Keyed'
<1> SUFFICES ASSUME Typed, Keyed, [Next]_vars PROVE Keyed'
  OBVIOUS
<1>1. ASSUME NEW r \in Runtimes, Start(r) PROVE Keyed'
  <2>1. UNCHANGED req /\ \A x \in Runtimes : rt'[x].cache = rt[x].cache
    <3>1. rt \in [Runtimes -> Runtime] /\ rt[r] \in Runtime
      BY DEF Typed, TypeOK
    <3>2. CASE StartRows(r)
      <4>1. rt'[r].cache = rt[r].cache /\ \A x \in Runtimes : x # r => rt'[x] = rt[x]
        BY <3>1, <3>2 DEF StartRows, Runtime
      <4>2. QED
        BY <3>2, <4>1 DEF StartRows
    <3>3. CASE StartBindings(r)
      <4>1. rt'[r].cache = rt[r].cache /\ \A x \in Runtimes : x # r => rt'[x] = rt[x]
        BY <3>1, <3>3 DEF StartBindings, Runtime
      <4>2. QED
        BY <3>3, <4>1 DEF StartBindings
    <3>4. QED
      BY <1>1, <3>2, <3>3 DEF Start
  <2>2. \A x \in Runtimes, k \in Keys : rt'[x].cache[k] = rt[x].cache[k]
    BY <2>1
  <2>3. CacheKeyed'
    BY <2>2 DEF Keyed, CacheKeyed
  <2>4. \A d \in Requests : Clean(req[d])'
    BY <2>1 DEF Keyed, Clean, Own, Blank
  <2>5. QED
    BY <2>3, <2>4 DEF Keyed
<1>2. ASSUME NEW r \in Runtimes, Exit(r) PROVE Keyed'
  <2>1. CacheKeyed'
    <3>1. \A x \in Runtimes : rt'[x] = IF x = r THEN Down ELSE rt[x]
      BY <1>2 DEF Exit, Typed, TypeOK
    <3>2. QED
      BY <3>1 DEF Keyed, CacheKeyed, Down, NoEntry
  <2>2. \A d \in Requests : Clean(req[d])'
    <3>1. \A d \in Requests : req'[d] \in {Idle, req[d]}
      BY <1>2 DEF Exit
    <3>2. QED
      BY <3>1 DEF Keyed, Clean, Own, Blank, Idle
  <2>3. QED
    BY <2>1, <2>2 DEF Keyed
<1>3. ASSUME NEW c \in Requests, Client(c) \/ Serve(c) PROVE Keyed'
  BY <1>3, ServeKeyed, LookUpKeyed, ListKeyed DEF Client, Serve, Connect
<1>4. CASE ClearIndex \/ Insert \/ Configure \/ ServerChanges
  BY <1>4 DEF ClearIndex, ClearBindings, ClearRows, Insert, Configure, ServerChanges, Keyed, CacheKeyed, Clean, Own, Blank
<1>5. CASE Tick
  <2>1. CacheKeyed'
    <3>1. SUFFICES ASSUME NEW r \in Runtimes, NEW k \in Keys, rt'[r].cache[k].left > 0
                   PROVE  IF k = "public" THEN rt'[r].cache[k].scope = "public"
                                          ELSE rt'[r].cache[k].by = k
      BY DEF CacheKeyed
    <3>2. rt[r].cache[k] \in Entry
      BY DEF Typed, TypeOK, Runtime
    <3>3. /\ rt[r].cache[k].left > 0
          /\ rt'[r].cache[k].scope = rt[r].cache[k].scope /\ rt'[r].cache[k].by = rt[r].cache[k].by
      <4>1. rt'[r].cache[k] = Aged(rt[r].cache[k])
        BY <1>5, TickEffect DEF Typed
      <4>2. rt[r].cache[k].left > 1
        BY <3>1, <3>2, <4>1 DEF Aged, NoEntry, Entry
      <4>3. rt'[r].cache[k] = [rt[r].cache[k] EXCEPT !.left = Older(@)]
        BY <4>1, <4>2 DEF Aged
      <4>4. QED
        BY <3>2, <4>2, <4>3 DEF Entry
    <3>4. CASE k = "public"
      BY <3>3, <3>4 DEF Keyed, CacheKeyed
    <3>5. CASE k # "public"
      BY <3>3, <3>5 DEF Keyed, CacheKeyed
    <3>6. QED
      BY <3>4, <3>5
  <2>2. ASSUME NEW d \in Requests PROVE Clean(req[d])'
    <3>1. req[d] \in Request /\ Clean(req[d]) /\ req'[d] = Later(req[d])
      BY <1>5, TickEffect DEF Typed, TypeOK, Keyed
    <3>2. /\ req'[d].pc = req[d].pc /\ req'[d].page = req[d].page /\ req'[d].found = req[d].found
          /\ req'[d].profile = req[d].profile /\ req'[d].row = req[d].row
      BY <3>1 DEF Later, Request
    <3>3. QED
      BY <3>1, <3>2 DEF Clean, Own, Blank
  <2>3. QED
    BY <2>1, <2>2 DEF Keyed
<1>6. CASE UNCHANGED vars
  BY <1>6 DEF vars, Keyed, CacheKeyed, Clean, Own, Blank
<1>7. QED
  BY <1>1, <1>2, <1>3, <1>4, <1>5, <1>6 DEF Next

LEMMA KeyedInvariant == Spec => [](Typed /\ Keyed)
<1>1. Init => Keyed
  BY KeyedInit
<1>2. QED
  BY <1>1, TypedInvariant, KeyedNext, PTL DEF Spec

(* No call is made with definitions another profile got for itself.        *)
THEOREM PartitionsKept == Spec => []OwnPartition
<1>1. Keyed => OwnPartition
  BY DEF Keyed, Clean, Own, OwnPartition
<1>2. QED
  BY <1>1, KeyedInvariant, PTL

(* The schema of the reference is the schema the connector compared, and   *)
(* the runtime may use the profile.                                        *)
THEOREM SelectionKept == Spec => []CalledAsSelected
<1>1. Typed /\ Keyed => CalledAsSelected
  BY DEF Typed, InHand, Admitted, Connected, Keyed, Clean, Own, CalledAsSelected
<1>2. QED
  BY <1>1, KeyedInvariant, PTL

---------------------------------------------------------------------------
(* How long ago a server offered what a runtime remembers, a listing has   *)
(* collected and a request goes on with.  A step of the clock adds one to  *)
(* the history and to the age of a request, and takes one from what is     *)
(* left of an entry; every other step leaves the history or shortens it.   *)

Offered(p, s, n) == s \in Schemas => unseen[p][s] <= n

LiveKnown ==
  /\ scope = "public" => \A p, q \in Profiles : live[p] = live[q]
  /\ \A p \in Profiles : Offered(p, live[p], 0)

CacheRecent ==
  \A r \in Runtimes, k \in Keys, p \in Profiles :
    rt[r].cache[k].left > 0 /\ k \in {"public", p} =>
      Offered(p, rt[r].cache[k].schema, TTL + Span - rt[r].cache[k].left)

Recent(q) ==
  /\ q.pc = "list" => \A p \in Profiles : p = q.profile \/ q.found.scope = "public" =>
                        Offered(p, q.found.schema, q.age)
  /\ q.pc \in {"invoke", "changed"} => Offered(q.profile, q.found.schema, TTL + Span + q.age)

Timely == LiveKnown /\ CacheRecent /\ \A c \in Requests : Recent(req[c])

LEMMA TimelyInit == Init => Timely
<1> SUFFICES ASSUME Init PROVE Timely
  OBVIOUS
<1>1. PICK s \in Schemas :
        /\ live = [p \in Profiles |-> s]
        /\ unseen = [p \in Profiles |-> [t \in Schemas |-> IF t = s THEN 0 ELSE Forever]]
  BY DEF Init
<1>2. LiveKnown
  BY <1>1 DEF LiveKnown, Offered
<1>3. QED
  BY <1>2 DEF Init, Timely, CacheRecent, Recent, Idle, Down, NoEntry

(* Caches and requests stay timely when the history does not grow. *)
Shorter == \A p \in Profiles, s \in Schemas : unseen'[p][s] <= unseen[p][s]

LEMMA OfferedNumbers ==
  ASSUME TypeOK
  PROVE  \A p \in Profiles, s \in Schemas : unseen[p][s] \in Nat
BY DEF TypeOK, Forever

LEMMA ShorterOffered ==
  ASSUME Typed, Typed', Shorter, NEW p \in Profiles, NEW s, NEW n \in Int, Offered(p, s, n)
  PROVE  s \in Schemas => unseen'[p][s] <= n
<1>1. TypeOK /\ TypeOK'
  BY DEF Typed
<1>2. ASSUME s \in Schemas PROVE unseen[p][s] \in Nat /\ unseen'[p][s] \in Nat
  BY <1>1, <1>2 DEF TypeOK, Forever
<1>3. QED
  BY <1>2 DEF Shorter, Offered

LEMMA CacheStays ==
  ASSUME Typed, Typed', Shorter, CacheRecent,
         \A r \in Runtimes, k \in Keys :
           rt'[r].cache[k] = rt[r].cache[k] \/ rt'[r].cache[k].left = 0
  PROVE  CacheRecent'
<1>1. SUFFICES ASSUME NEW r \in Runtimes, NEW k \in Keys, NEW p \in Profiles,
                      rt'[r].cache[k].left > 0, k \in {"public", p},
                      rt'[r].cache[k].schema \in Schemas
               PROVE  unseen'[p][rt'[r].cache[k].schema] <= TTL + Span - rt'[r].cache[k].left
  BY DEF CacheRecent, Offered
<1>2. rt'[r].cache[k] = rt[r].cache[k] /\ rt[r].cache[k] \in Entry
  BY <1>1 DEF Typed, TypeOK, Runtime
<1>3. Offered(p, rt[r].cache[k].schema, TTL + Span - rt[r].cache[k].left)
  BY <1>1, <1>2 DEF CacheRecent
<1>4. TTL + Span - rt[r].cache[k].left \in Int
  BY <1>2 DEF Entry
<1>5. QED
  BY <1>1, <1>2, <1>3, <1>4, ShorterOffered

LEMMA RecentStays ==
  ASSUME Typed, Typed', Shorter, NEW d \in Requests, Recent(req'[d])
  PROVE  Recent(req[d])'
<1>1. req'[d] \in Request /\ req'[d].age \in Nat
  BY DEF Typed, TypeOK, Request
<1>2. ASSUME req'[d].pc = "list", NEW p \in Profiles,
             p = req'[d].profile \/ req'[d].found.scope = "public",
             req'[d].found.schema \in Schemas
      PROVE  unseen'[p][req'[d].found.schema] <= req'[d].age
  <2>1. Offered(p, req'[d].found.schema, req'[d].age)
    BY <1>2 DEF Recent
  <2>2. QED
    BY <1>1, <1>2, <2>1, ShorterOffered
<1>3. ASSUME req'[d].pc \in {"invoke", "changed"}, req'[d].found.schema \in Schemas
      PROVE  unseen'[req'[d].profile][req'[d].found.schema] <= TTL + Span + req'[d].age
  <2>1. Offered(req'[d].profile, req'[d].found.schema, TTL + Span + req'[d].age)
    BY <1>3 DEF Recent
  <2>2. req'[d].profile \in Profiles
    <3>1. Served(req[d])' /\ Admitted(req[d])' /\ TypeOK'
      BY DEF Typed, InHand
    <3>2. req'[d].at \in Runtimes /\ req'[d].profile \in rt'[req'[d].at].allowed
      BY <1>3, <3>1 DEF Served, Admitted, Connected
    <3>3. QED
      BY <3>1, <3>2 DEF TypeOK, Runtime
  <2>3. QED
    BY <1>1, <1>3, <2>1, <2>2, ShorterOffered
<1>4. QED
  BY <1>2, <1>3 DEF Recent, Offered

LEMMA SetRecent ==
  ASSUME Typed, Typed', Shorter, Timely, NEW c \in Requests, NEW new, Set(c, new), Recent(new)
  PROVE  \A d \in Requests : Recent(req[d])'
<1>1. SUFFICES ASSUME NEW d \in Requests PROVE Recent(req[d])'
  OBVIOUS
<1>2. req'[d] = IF d = c THEN new ELSE req[d]
  BY DEF Set, Typed, TypeOK
<1>3. Recent(req'[d])
  BY <1>2 DEF Timely
<1>4. QED
  BY <1>3, RecentStays

LEMMA EndRecent ==
  ASSUME Typed, Typed', Shorter, Timely, NEW c \in Requests, End(c)
  PROVE  \A d \in Requests : Recent(req[d])'
<1>1. Recent(Idle)
  BY DEF Recent, Idle
<1>2. QED
  BY <1>1, SetRecent DEF End

LEMMA CompareRecent ==
  ASSUME Typed, Typed', Shorter, Timely, NEW c \in Requests, NEW entry \in Entry,
         Compare(c, entry), Offered(req[c].profile, entry.schema, TTL + Span + req[c].age)
  PROVE  \A d \in Requests : Recent(req[d])'
<1>1. CASE entry.schema = Absent
  BY <1>1, EndRecent DEF Compare
<1>2. CASE entry.schema # Absent
  <2>1. PICK x \in {"invoke", "changed"} :
          Set(c, [req[c] EXCEPT !.pc = x, !.found = entry, !.page = 0])
    BY <1>2 DEF Compare
  <2> DEFINE new == [req[c] EXCEPT !.pc = x, !.found = entry, !.page = 0]
  <2>2. /\ new.pc = x /\ new.found = entry
        /\ new.profile = req[c].profile /\ new.age = req[c].age
    BY DEF Typed, TypeOK, Request
  <2>3. Recent(new)
    BY <2>2 DEF Recent
  <2>4. QED
    BY <2>1, <2>3, SetRecent
<1>3. QED
  BY <1>1, <1>2

LEMMA KeepsHistory ==
  ASSUME Typed, UNCHANGED unseen
  PROVE  Shorter
BY DEF Shorter, Typed, TypeOK, Forever

LEMMA KeepsLive ==
  ASSUME Timely, UNCHANGED <<environment, unseen>>
  PROVE  LiveKnown'
BY DEF Timely, LiveKnown, Offered, environment

LEMMA ServeTimely ==
  ASSUME Typed, Typed', Timely, NEW c \in Requests,
         \/ \E r \in Runtimes : Query(c, r) \/ Begin(c, r)
         \/ Issue(c) \/ Resolve(c) \/ Admit(c) \/ Fail(c) \/ Invoke(c)
  PROVE  Timely'
<1>1. UNCHANGED <<environment, rt, unseen>>
  BY DEF Query, Begin, Issue, Resolve, Admit, Fail, Invoke
<1>2. Shorter /\ LiveKnown' /\ CacheRecent'
  BY <1>1, KeepsHistory, KeepsLive, CacheStays DEF Timely
<1>3. PICK new : /\ Set(c, new)
                 /\ new.pc \notin {"list", "invoke", "changed"}
  <2>1. req[c] \in Request /\ Idle.pc = "idle"
    BY DEF Typed, TypeOK, Idle
  <2> DEFINE Quiet == \E new : Set(c, new) /\ new.pc \notin {"list", "invoke", "changed"}
  <2>2. ASSUME NEW r \in Runtimes, Query(c, r) PROVE Quiet
    <3>1. [Idle EXCEPT !.pc = "query", !.at = r, !.id = index.id, !.row = index.schema].pc = "query"
      BY DEF Idle
    <3>2. QED
      BY <2>2, <3>1 DEF Query
  <2>3. ASSUME NEW r \in Runtimes, Begin(c, r) PROVE Quiet
    <3>1. [Idle EXCEPT !.pc = "resolve", !.at = r, !.schema = ref.schema,
                       !.profile = ref.profile].pc = "resolve"
      BY DEF Idle
    <3>2. QED
      BY <2>3, <3>1 DEF Begin
  <2>4. ASSUME End(c) PROVE Quiet
    BY <2>1, <2>4 DEF End
  <2>5. ASSUME Resolve(c) PROVE Quiet
    <3>1. [req[c] EXCEPT !.pc = "bindings", !.id = index.id, !.row = index.schema].pc = "bindings"
      BY <2>1 DEF Request
    <3>2. QED
      BY <2>4, <2>5, <3>1 DEF Resolve
  <2>6. ASSUME Admit(c) PROVE Quiet
    <3>1. [req[c] EXCEPT !.pc = "lookup"].pc = "lookup"
      BY <2>1 DEF Request
    <3>2. QED
      BY <2>4, <2>6, <3>1 DEF Admit
  <2>7. ASSUME Issue(c) \/ Fail(c) \/ Invoke(c) PROVE Quiet
    BY <2>4, <2>7 DEF Issue, Fail, Invoke
  <2>8. Quiet
    BY <2>2, <2>3, <2>5, <2>6, <2>7
  <2>9. QED
    BY <2>8
<1>4. Recent(new)
  BY <1>3 DEF Recent
<1>5. QED
  BY <1>2, <1>3, <1>4, SetRecent DEF Timely

LEMMA LookUpTimely ==
  ASSUME Typed, Typed', Keyed, Timely, NEW c \in Requests, LookUp(c)
  PROVE  Timely'
<1>1. /\ req[c] \in Request /\ req[c].age \in Nat /\ Clean(req[c]) /\ req[c].pc = "lookup"
      /\ req[c].at \in Runtimes /\ req[c].profile \in Profiles
      /\ rt[req[c].at].cache \in [Keys -> Entry]
  BY KnowsProfile DEF LookUp, Connected, Typed, TypeOK, Keyed, Request
<1>2. Shorter /\ LiveKnown' /\ CacheRecent'
  BY KeepsHistory, KeepsLive, CacheStays DEF LookUp, Hit, Timely
<1>3. ASSUME NEW k \in Keys, k \in {"public", req[c].profile}, Fresh(c, k), Hit(c, k)
      PROVE  \A d \in Requests : Recent(req[d])'
  <2> DEFINE entry == rt[req[c].at].cache[k]
  <2>1. entry \in Entry /\ entry.left \in Nat
    BY <1>1 DEF Entry
  <2>2. Offered(req[c].profile, entry.schema, TTL + Span - entry.left)
    BY <1>1, <1>3 DEF Fresh, Timely, CacheRecent
  <2>3. Offered(req[c].profile, entry.schema, TTL + Span + req[c].age)
    BY <1>1, <2>1, <2>2, OfferedNumbers DEF Offered, Typed
  <2>4. QED
    BY <1>2, <1>3, <2>1, <2>3, CompareRecent DEF Hit
<1>4. ASSUME Set(c, [req[c] EXCEPT !.pc = "list"])
      PROVE  \A d \in Requests : Recent(req[d])'
  <2>1. [req[c] EXCEPT !.pc = "list"].found = NoEntry
    BY <1>1 DEF Clean, Blank, Request
  <2>2. Recent([req[c] EXCEPT !.pc = "list"])
    BY <1>1, <2>1 DEF Recent, Offered, NoEntry, Request
  <2>3. QED
    BY <1>2, <1>4, <2>2, SetRecent
<1>5. "public" \in Keys /\ req[c].profile \in Keys
  BY <1>1 DEF Keys
<1>6. \A d \in Requests : Recent(req[d])'
  BY <1>3, <1>4, <1>5 DEF LookUp
<1>7. QED
  BY <1>2, <1>6 DEF Timely

LEMMA ListTimely ==
  ASSUME Typed, Typed', Keyed, Timely, NEW c \in Requests, ListPage(c)
  PROVE  Timely'
<1>1. /\ req[c] \in Request /\ req[c].age \in 0..Span /\ Clean(req[c]) /\ Recent(req[c])
      /\ req[c].pc = "list" /\ req[c].at \in Runtimes /\ req[c].profile \in Profiles
  BY KnowsProfile DEF ListPage, Connected, Typed, TypeOK, Keyed, Request, Timely
<1>2. Shorter /\ LiveKnown'
  BY KeepsHistory, KeepsLive DEF ListPage, Timely
<1>3. ASSUME NEW entry \in Entry, ListedBy(c, entry), NEW p \in Profiles,
             p = req[c].profile \/ entry.scope = "public"
      PROVE  Offered(p, entry.schema, req[c].age)
  <2>1. CASE entry.schema = live[req[c].profile]
    <3>1. live[p] = entry.schema
      BY <1>1, <1>3, <2>1 DEF ListedBy, Timely, LiveKnown
    <3>2. Offered(p, entry.schema, 0)
      BY <3>1 DEF Timely, LiveKnown
    <3>3. QED
      BY <1>1, <3>2, OfferedNumbers DEF Offered, Typed
  <2>2. CASE entry.schema = req[c].found.schema /\ (req[c].page > 0 => req[c].found.scope = scope)
    <3>1. CASE req[c].page > 0
      BY <1>1, <1>3, <2>2, <3>1 DEF ListedBy, Recent
    <3>2. CASE req[c].page = 0
      BY <1>1, <2>2, <3>2 DEF Clean, Blank, NoEntry, Offered
    <3>3. QED
      BY <1>1, <3>1, <3>2 DEF Request
  <2>3. QED
    BY <1>3, <2>1, <2>2 DEF ListedBy
<1>4. ASSUME End(c), UNCHANGED rt
      PROVE  Timely'
  BY <1>2, <1>4, EndRecent, CacheStays DEF Timely
<1>5. ASSUME NEW entry \in Entry, ListedBy(c, entry), Store(c, entry), Compare(c, entry)
      PROVE  Timely'
  <2>1. Offered(req[c].profile, entry.schema, TTL + Span + req[c].age)
    <3>1. Offered(req[c].profile, entry.schema, req[c].age)
      BY <1>1, <1>3, <1>5
    <3>2. QED
      BY <1>1, <3>1, OfferedNumbers DEF Offered, Typed
  <2>2. \A d \in Requests : Recent(req[d])'
    BY <1>2, <1>5, <2>1, CompareRecent
  <2>3. ASSUME NEW r \in Runtimes, NEW k \in Keys, NEW p \in Profiles,
               rt'[r].cache[k].left > 0, k \in {"public", p},
               rt'[r].cache[k].schema \in Schemas
        PROVE  unseen'[p][rt'[r].cache[k].schema] <= TTL + Span - rt'[r].cache[k].left
    <3>1. UNCHANGED unseen
      BY DEF ListPage
    <3>2. CASE r = req[c].at /\ entry.scope # "none" /\ k = Key(c, entry.scope)
      <4>1. rt'[r].cache[k] = entry /\ entry.left = TTL
        BY <1>1, <1>5, <3>2, StoreEffect DEF Typed, ListedBy
      <4>2. p = req[c].profile \/ entry.scope = "public"
        BY <1>1, <2>3, <3>2 DEF Key
      <4>3. Offered(p, entry.schema, req[c].age)
        BY <1>3, <1>5, <4>2
      <4>4. QED
        BY <1>1, <2>3, <3>1, <4>1, <4>3, OfferedNumbers DEF Offered, Typed
    <3>3. CASE ~(r = req[c].at /\ entry.scope # "none" /\ k = Key(c, entry.scope))
      <4>1. rt'[r].cache[k] = rt[r].cache[k]
        BY <1>1, <1>5, <3>3, StoreEffect DEF Typed
      <4>2. QED
        BY <2>3, <3>1, <4>1 DEF Timely, CacheRecent, Offered
    <3>4. QED
      BY <3>2, <3>3
  <2>4. CacheRecent'
    BY <2>3 DEF CacheRecent, Offered
  <2>5. QED
    BY <1>2, <2>2, <2>4 DEF Timely
<1>6. ASSUME NEW entry \in Entry, ListedBy(c, entry), UNCHANGED rt,
             Set(c, [req[c] EXCEPT !.page = @ + 1, !.found = [entry EXCEPT !.left = 0]])
      PROVE  Timely'
  <2> DEFINE new == [req[c] EXCEPT !.page = @ + 1, !.found = [entry EXCEPT !.left = 0]]
  <2>1. /\ new.pc = "list" /\ new.age = req[c].age /\ new.profile = req[c].profile
        /\ new.found.schema = entry.schema /\ new.found.scope = entry.scope
    BY <1>1 DEF Request, Entry
  <2>2. Recent(new)
    BY <1>3, <1>6, <2>1 DEF Recent
  <2>3. QED
    BY <1>2, <1>6, <2>2, SetRecent, CacheStays DEF Timely
<1>7. QED
  BY <1>1, <1>4, <1>5, <1>6, ListCases DEF Typed

LEMMA ProcessTimely ==
  ASSUME Typed, Typed', Timely, NEW r \in Runtimes, Start(r) \/ Exit(r)
  PROVE  Timely'
<1>1. Shorter /\ LiveKnown'
  BY KeepsHistory, KeepsLive DEF Start, StartRows, StartBindings, Exit
<1>2. rt \in [Runtimes -> Runtime] /\ rt[r] \in Runtime
  BY DEF Typed, TypeOK
<1>3. CASE Start(r)
  <2>1. rt'[r].cache = rt[r].cache /\ (\A x \in Runtimes : x # r => rt'[x] = rt[x]) /\ UNCHANGED req
    <3>1. CASE StartRows(r)
      BY <1>2, <3>1 DEF StartRows, Runtime
    <3>2. CASE StartBindings(r)
      BY <1>2, <3>2 DEF StartBindings, Runtime
    <3>3. QED
      BY <1>3, <3>1, <3>2 DEF Start
  <2>2. \A x \in Runtimes, k \in Keys : rt'[x].cache[k] = rt[x].cache[k]
    BY <2>1
  <2>3. CacheRecent'
    BY <1>1, <2>2, CacheStays DEF Timely
  <2>4. \A d \in Requests : Recent(req[d])'
    BY <1>1, <2>1, RecentStays DEF Timely
  <2>5. QED
    BY <1>1, <2>3, <2>4 DEF Timely
<1>4. CASE Exit(r)
  <2>1. \A x \in Runtimes : rt'[x] = IF x = r THEN Down ELSE rt[x]
    BY <1>2, <1>4 DEF Exit
  <2>2. \A k \in Keys : Down.cache[k].left = 0
    BY DEF Down, NoEntry
  <2>3. CacheRecent'
    BY <1>1, <2>1, <2>2, CacheStays DEF Timely
  <2>4. ASSUME NEW d \in Requests PROVE Recent(req'[d])
    <3>1. req'[d] \in {Idle, req[d]}
      BY <1>4 DEF Exit
    <3>2. Recent(Idle)
      BY DEF Recent, Idle
    <3>3. QED
      BY <3>1, <3>2 DEF Timely
  <2>5. QED
    BY <1>1, <2>3, <2>4, RecentStays DEF Timely
<1>5. QED
  BY <1>3, <1>4

LEMMA ServerChangesTimely ==
  ASSUME Typed, Typed', Timely, ServerChanges
  PROVE  Timely'
<1>1. \A p \in Profiles, s \in Schemas : unseen'[p][s] = IF live'[p] = s THEN 0 ELSE unseen[p][s]
  BY DEF ServerChanges
<1>2. Shorter
  BY <1>1, OfferedNumbers DEF Shorter, Typed
<1>3. LiveKnown'
  BY <1>1 DEF ServerChanges, LiveKnown, Offered
<1>4. CacheRecent' /\ \A d \in Requests : Recent(req[d])'
  BY <1>2, CacheStays, RecentStays DEF ServerChanges, Timely
<1>5. QED
  BY <1>3, <1>4 DEF Timely

LEMMA TickTimely ==
  ASSUME Typed, Typed', Timely, Tick
  PROVE  Timely'
<1>1. ASSUME NEW p \in Profiles, NEW s \in Schemas
      PROVE  /\ unseen[p][s] \in Nat /\ unseen'[p][s] <= unseen[p][s] + 1
             /\ live[p] = s => unseen'[p][s] = 0
  <2>1. unseen[p][s] \in 0..Forever /\ Forever \in Nat
    BY DEF Typed, TypeOK, Forever
  <2>2. unseen'[p][s] = IF live[p] = s THEN 0
                        ELSE IF unseen[p][s] < Forever THEN unseen[p][s] + 1 ELSE Forever
    BY DEF Tick
  <2>3. QED
    BY <2>1, <2>2
<1>2. LiveKnown'
  BY <1>1 DEF Tick, environment, Timely, LiveKnown, Offered
<1>3. CacheRecent'
  <2>1. SUFFICES ASSUME NEW r \in Runtimes, NEW k \in Keys, NEW p \in Profiles,
                        rt'[r].cache[k].left > 0, k \in {"public", p},
                        rt'[r].cache[k].schema \in Schemas
                 PROVE  unseen'[p][rt'[r].cache[k].schema] <= TTL + Span - rt'[r].cache[k].left
    BY DEF CacheRecent, Offered
  <2> DEFINE e == rt[r].cache[k]
  <2>2. e \in Entry /\ rt'[r].cache[k] = Aged(e)
    BY TickEffect DEF Typed, TypeOK, Runtime
  <2>3. e.left > 1
    BY <2>1, <2>2 DEF Aged, NoEntry, Entry
  <2>4. rt'[r].cache[k].schema = e.schema /\ rt'[r].cache[k].left = e.left - 1 /\ e.left \in Nat
    BY <2>2, <2>3 DEF Aged, Older, Entry
  <2>5. unseen[p][e.schema] <= TTL + Span - e.left
    BY <2>1, <2>3, <2>4 DEF Timely, CacheRecent, Offered
  <2>6. unseen[p][e.schema] \in Nat /\ unseen'[p][e.schema] <= unseen[p][e.schema] + 1
        /\ unseen'[p][e.schema] \in Nat
    BY <1>1, <2>1, <2>4 DEF Typed, TypeOK, Forever
  <2>7. QED
    BY <2>4, <2>5, <2>6
<1>4. ASSUME NEW d \in Requests PROVE Recent(req[d])'
  <2>1. /\ req[d] \in Request /\ Recent(req[d]) /\ req'[d] = Later(req[d])
        /\ req'[d].pc # "idle" => req'[d].age = req[d].age + 1
    BY TickEffect DEF Typed, TypeOK, Timely
  <2>2. /\ req'[d].pc = req[d].pc /\ req'[d].found = req[d].found
        /\ req'[d].profile = req[d].profile /\ req[d].age \in Nat
    BY <2>1 DEF Later, Request
  <2>3. ASSUME req[d].pc = "list", NEW p \in Profiles,
               p = req[d].profile \/ req[d].found.scope = "public",
               req[d].found.schema \in Schemas
        PROVE  unseen'[p][req[d].found.schema] <= req[d].age + 1
    <3>1. unseen[p][req[d].found.schema] <= req[d].age
      BY <2>1, <2>3 DEF Recent, Offered
    <3>2. unseen'[p][req[d].found.schema] \in Nat
      BY <2>3 DEF Typed, TypeOK, Forever
    <3>3. QED
      BY <1>1, <2>2, <2>3, <3>1, <3>2
  <2>4. ASSUME req[d].pc \in {"invoke", "changed"}, req[d].found.schema \in Schemas
        PROVE  unseen'[req[d].profile][req[d].found.schema] <= TTL + Span + (req[d].age + 1)
    <3>1. req[d].profile \in Profiles
      BY <2>4, KnowsProfile DEF Connected
    <3>2. unseen[req[d].profile][req[d].found.schema] <= TTL + Span + req[d].age
      BY <2>1, <2>4 DEF Recent, Offered
    <3>3. unseen'[req[d].profile][req[d].found.schema] \in Nat
      BY <2>4, <3>1 DEF Typed, TypeOK, Forever
    <3>4. QED
      BY <1>1, <2>2, <2>4, <3>1, <3>2, <3>3
  <2>5. req[d].pc \in {"list", "invoke", "changed"} => req'[d].age = req[d].age + 1
    BY <2>1, <2>2
  <2>6. QED
    BY <2>2, <2>3, <2>4, <2>5 DEF Recent, Offered
<1>5. QED
  BY <1>2, <1>3, <1>4 DEF Timely

LEMMA TimelyNext == Typed /\ Typed' /\ Keyed /\ Timely /\ [Next]_vars => Timely'
<1> SUFFICES ASSUME Typed, Typed', Keyed, Timely, [Next]_vars PROVE Timely'
  OBVIOUS
<1>1. ASSUME NEW r \in Runtimes, Start(r) \/ Exit(r) PROVE Timely'
  BY <1>1, ProcessTimely
<1>2. ASSUME NEW c \in Requests, Client(c) \/ Serve(c) PROVE Timely'
  BY <1>2, ServeTimely, LookUpTimely, ListTimely DEF Client, Serve, Connect
<1>3. CASE ClearIndex \/ Insert \/ Configure
  <2>1. UNCHANGED <<live, scope, rt, req, unseen>>
    BY <1>3 DEF ClearIndex, ClearBindings, ClearRows, Insert, Configure
  <2>2. QED
    BY <2>1 DEF Timely, LiveKnown, CacheRecent, Recent, Offered
<1>4. CASE ServerChanges
  BY <1>4, ServerChangesTimely
<1>5. CASE Tick
  BY <1>5, TickTimely
<1>6. CASE UNCHANGED vars
  BY <1>6 DEF vars, environment, Timely, LiveKnown, CacheRecent, Recent, Offered
<1>7. QED
  BY <1>1, <1>2, <1>3, <1>4, <1>5, <1>6 DEF Next

(* What a call is compared with, and what it is refused for, is as fresh   *)
(* as the server asked for, up to twice the time a request may take.       *)
THEOREM FreshnessKept == Spec => []DefinitionsFresh
<1>1. Typed /\ Keyed /\ Timely => DefinitionsFresh
  <2> SUFFICES ASSUME Typed, Keyed, Timely, NEW c \in Requests, req[c].pc \in {"invoke", "changed"}
               PROVE  unseen[req[c].profile][req[c].found.schema] <= TTL + Span + Span
    BY DEF DefinitionsFresh
  <2>1. req[c].found.schema \in Schemas /\ req[c].age \in 0..Span /\ req[c].profile \in Profiles
    BY KnowsProfile DEF Keyed, Clean, Own, Connected, Typed, TypeOK, Request
  <2>2. unseen[req[c].profile][req[c].found.schema] <= TTL + Span + req[c].age
    BY <2>1 DEF Timely, Recent, Offered
  <2>3. unseen[req[c].profile][req[c].found.schema] \in Nat
    BY <2>1, OfferedNumbers DEF Typed
  <2>4. QED
    BY <2>1, <2>2, <2>3
<1>2. Spec => []Timely
  <2>1. Typed /\ Keyed /\ Timely /\ [Next]_vars => Timely'
    BY TypedNext, TimelyNext
  <2>2. QED
    BY TimelyInit, KeyedInvariant, <2>1, PTL DEF Spec
<1>3. QED
  BY <1>1, <1>2, KeyedInvariant, PTL
=============================================================================
