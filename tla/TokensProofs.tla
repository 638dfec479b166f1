---------------------------- MODULE TokensProofs ----------------------------
(***************************************************************************)
(* Every record opens with the key that is there, refreshes are single-    *)
(* flight in a process and the store keeps up with the server, for any     *)
(* number of callers, processes, calls and logins.                         *)
(***************************************************************************)
EXTENDS Tokens, TLAPS

USE TokensAssumption DEF TokensAssumption

Sealing == {"find", "create", "fill", "sync", "put"}

LEMMA DataTypes ==
  /\ NoToken \in Token /\ NoPending \in Pending /\ NoGrant \in Grant /\ NoJob \in Job
BY DEF NoToken, Token, NoPending, Pending, NoGrant, Grant, NoJob, Job, Clients, KeyIds

(* Where a call is tells what it is and what it saves. *)
Sensible(l, j) ==
  /\ l = "idle" => j = NoJob
  /\ l \in {"lock", "load", "refresh", "remember"} => j.kind = "acquire"
  /\ l = "authorize" => j.kind = "start"
  /\ l = "refresh" => j.token.grant # 0
  /\ l \in {"pending", "redeem", "forget", "take"} => j.kind = "complete"
  /\ l \in {"pending", "redeem"} => j.callback # 0
  /\ l \in {"client", "register"} => j.kind \in {"acquire", "start"}
  /\ l \in Sealing =>
       \/ j.record = "registration" /\ j.kind \in {"acquire", "start"}
       \/ j.record = "pending" /\ j.kind = "start"
       \/ j.record = "token" /\ j.kind \in {"acquire", "complete"} /\ j.token.grant # 0
(* Who acquires has the mutex of its process. *)
HasMutex(c) == job[c].kind = "acquire" /\ pc[c] \notin {"idle", "lock"} => mu[Home[c]] = c
CallsInv == \A c \in Callers : Sensible(pc[c], job[c]) /\ HasMutex(c)
MutexOK ==
  \A p \in Homes : mu[p] # NoCaller =>
    Home[mu[p]] = p /\ job[mu[p]].kind = "acquire" /\ pc[mu[p]] # "lock"

Typed == TypeOK /\ CallsInv /\ MutexOK

LEMMA TypedInit == Init => Typed
<1> SUFFICES ASSUME Init PROVE Typed
  OBVIOUS
<1> DEFINE First == [client |-> 1, redeemed |-> TRUE, turn |-> 1, by |-> NoCaller]
           Old == [grant |-> 1, turn |-> 1, fresh |-> TRUE]
<1>1. First \in Grant /\ Old \in Token
  BY DEF Grant, Clients, Token
<1>2. grants \in [Grants -> Grant]
  <2> HIDE DEF First
  <2>1. CASE grants = [g \in Grants |-> NoGrant]
    BY <2>1, DataTypes
  <2>2. CASE grants = [[g \in Grants |-> NoGrant] EXCEPT ![1] = First]
    BY <2>2, <1>1, DataTypes
  <2>3. QED
    BY <2>1, <2>2 DEF Init, First
<1>3. /\ pending \in [key : KeyIds, value : Pending]
      /\ registration \in [key : KeyIds, value : Clients]
      /\ token \in [key : KeyIds, value : Token]
  <2> HIDE DEF Old
  <2>1. pending \in [key : KeyIds, value : Pending]
    BY DataTypes DEF Init, KeyIds
  <2>2. registration \in [key : KeyIds, value : Clients]
    BY DEF Init, KeyIds, Clients
  <2>3. \/ token = [key |-> 0, value |-> NoToken]
        \/ token = [key |-> 1, value |-> Old]
    BY DEF Init, Old
  <2>5. token \in [key : KeyIds, value : Token]
    BY <2>3, <1>1, DataTypes DEF KeyIds
  <2>4. QED
    BY <2>1, <2>2, <2>5
<1>5. mem \in [Homes -> Token] /\ job \in [Callers -> Job] /\ mu \in [Homes -> Callers \cup {NoCaller}]
  BY DataTypes DEF Init
<1>6. keyfile \in KeyIds /\ keys \in Nat /\ clients \in Clients /\ logins \in 0..MaxLogins
  <2>1. keyfile \in {0, 1} /\ keys \in {0, 1} /\ clients \in {0, 1} /\ logins \in {0, 1}
    BY DEF Init
  <2>2. QED
    BY <2>1 DEF KeyIds, Clients
<1>7. /\ pc = [c \in Callers |-> "idle"] /\ job = [c \in Callers |-> NoJob]
      /\ mu = [p \in Homes |-> NoCaller]
      /\ rotates \in BOOLEAN /\ lost = {} /\ aborted = FALSE /\ calls = 0
  BY DEF Init
<1>10. filled \in BOOLEAN
  BY DEF Init
<1>11. \A p \in Homes : mu[p] = NoCaller
  BY <1>7
<1>4. CallsInv
  BY <1>7 DEF CallsInv, Sensible, HasMutex, NoJob, Sealing
<1>9. StoreTypes /\ CallTypes
  BY <1>3, <1>5, <1>6, <1>7, <1>10 DEF StoreTypes, CallTypes, Places
<1>12. ServerTypes
  BY <1>2, <1>6, <1>7 DEF ServerTypes
<1>13. aborted \in BOOLEAN /\ lost \subseteq Grants
  BY <1>7
<1>14. CounterTypes
  BY <1>6, <1>7, <1>13 DEF CounterTypes
<1>8. QED
  BY <1>4, <1>9, <1>11, <1>12, <1>14 DEF Typed, TypeOK, MutexOK

(* A call that goes to l with the job j. *)
Moves(c, l, j) == pc' = [pc EXCEPT ![c] = l] /\ job' = [job EXCEPT ![c] = j]

CallsOK == CallTypes /\ MutexOK /\ CallsInv

LEMMA MovesTyped ==
  ASSUME CallsOK, NEW c \in Callers, NEW l \in Places \ {"idle", "lock"}, NEW j \in Job, Moves(c, l, j),
         pc[c] # "lock", UNCHANGED <<mem, mu>>, Sensible(l, j), j.kind = job[c].kind, pc[c] # "idle"
  PROVE  CallsOK'
<1>1. \A d \in Callers : pc'[d] = (IF d = c THEN l ELSE pc[d]) /\ job'[d] = IF d = c THEN j ELSE job[d]
  BY DEF CallsOK, CallTypes, Moves
<1>2. CallTypes'
  BY DEF CallsOK, CallTypes, Moves
<1>3. MutexOK'
  BY <1>1 DEF CallsOK, CallTypes, MutexOK
<1>4. CallsInv'
  BY <1>1 DEF CallsOK, CallTypes, CallsInv, HasMutex
<1>5. QED
  BY <1>2, <1>3, <1>4 DEF CallsOK

LEMMA LeaveTyped ==
  ASSUME CallsOK, NEW c \in Callers, Leave(c), mem' \in [Homes -> Token]
  PROVE  CallsOK'
<1>1. \A d \in Callers : /\ pc'[d] = (IF d = c THEN "idle" ELSE pc[d])
                         /\ job'[d] = IF d = c THEN NoJob ELSE job[d]
  BY DEF CallsOK, CallTypes, Leave, Goto
<1>2. \A p \in Homes : mu'[p] = IF mu[p] = c THEN NoCaller ELSE mu[p]
  BY DEF CallsOK, CallTypes, Leave
<1>3. CallTypes'
  BY DataTypes DEF CallsOK, CallTypes, Leave, Goto, Places
<1>4. MutexOK'
  BY <1>1, <1>2 DEF CallsOK, CallTypes, MutexOK
<1>5. CallsInv'
  <2> SUFFICES ASSUME NEW d \in Callers PROVE Sensible(pc'[d], job'[d]) /\ HasMutex(d)'
    BY DEF CallsInv
  <2>1. CASE d = c
    BY <2>1, <1>1 DEF Sensible, HasMutex, NoJob, Sealing
  <2>2. CASE d # c
    BY <2>2, <1>1, <1>2 DEF CallsOK, CallTypes, CallsInv, HasMutex
  <2>3. QED
    BY <2>1, <2>2
<1>6. QED
  BY <1>3, <1>4, <1>5 DEF CallsOK

(* A call that takes a step of its own and holds on to what it has. *)
LEMMA GotoTyped ==
  ASSUME CallsOK, NEW c \in Callers, NEW l \in Places \ {"idle", "lock"}, Goto(c, l),
         pc[c] \notin {"idle", "lock"}, UNCHANGED <<mem, mu, job>>, Sensible(l, job[c])
  PROVE  CallsOK'
<1>1. job[c] \in Job /\ job' = [job EXCEPT ![c] = job[c]]
  BY DEF CallsOK, CallTypes
<1>2. QED
  BY <1>1, MovesTyped DEF Moves, Goto

LEMMA CallAt ==
  ASSUME Typed, NEW c \in Callers
  PROVE  CallsOK /\ job[c] \in Job /\ Sensible(pc[c], job[c])
BY DEF Typed, TypeOK, CallsOK, CallTypes, CallsInv

LEMMA BeginTyped == ASSUME Typed, NEW c \in Callers, Begin(c) PROVE Typed'
<1>1. CallsOK /\ job[c] \in Job /\ job[c] = NoJob
  BY CallAt DEF Begin, Sensible
<1>2. PICK l \in {"lock", "client", "pending"}, j \in Job :
        /\ Goto(c, l) /\ job' = [job EXCEPT ![c] = j]
        /\ \/ l = "lock" /\ j.kind = "acquire"
           \/ l = "client" /\ j.kind = "start"
           \/ l = "pending" /\ j.kind = "complete" /\ j.callback # 0
  <2>1. CASE Goto(c, "lock") /\ job' = [job EXCEPT ![c].kind = "acquire"]
    <3> DEFINE j == [job[c] EXCEPT !.kind = "acquire"]
    <3>1. j \in Job /\ j.kind = "acquire" /\ job' = [job EXCEPT ![c] = j]
      BY <1>1, <2>1 DEF Job
    <3>2. QED
      BY <2>1, <3>1
  <2>2. CASE Goto(c, "client") /\ job' = [job EXCEPT ![c].kind = "start"]
    <3> DEFINE j == [job[c] EXCEPT !.kind = "start"]
    <3>1. j \in Job /\ j.kind = "start" /\ job' = [job EXCEPT ![c] = j]
      BY <1>1, <2>2 DEF Job
    <3>2. QED
      BY <2>2, <3>1
  <2>3. CASE Goto(c, "pending") /\ \E g \in 1..logins :
               job' = [job EXCEPT ![c].kind = "complete", ![c].callback = g]
    <3>1. PICK g \in 1..logins : job' = [job EXCEPT ![c].kind = "complete", ![c].callback = g]
      BY <2>3
    <3> DEFINE j == [job[c] EXCEPT !.kind = "complete", !.callback = g]
    <3>2. g \in 0..MaxLogins /\ g # 0
      BY DEF Typed, TypeOK, CounterTypes
    <3>3. j \in Job /\ j.kind = "complete" /\ j.callback # 0
      BY <1>1, <3>2 DEF Job
    <3>4. job' = [job EXCEPT ![c] = j]
      BY <3>1, <1>1 DEF CallsOK, CallTypes
    <3>5. QED
      BY <2>3, <3>3, <3>4
  <2>4. QED
    BY <2>1, <2>2, <2>3 DEF Begin
<1>4. \A d \in Callers : pc'[d] = (IF d = c THEN l ELSE pc[d]) /\ job'[d] = IF d = c THEN j ELSE job[d]
  BY <1>1, <1>2 DEF CallsOK, CallTypes, Goto
<1>5. pc[c] = "idle" /\ UNCHANGED <<store, mem, mu, server, lost, aborted, logins>>
      /\ calls' = calls + 1 /\ calls < MaxCalls
  BY DEF Begin
<1>6. CallTypes'
  BY <1>1, <1>2, <1>5 DEF CallsOK, CallTypes, Goto, Places
<1>7. MutexOK'
  <2>1. \A p \in Homes : mu[p] # c \/ mu[p] = NoCaller
    BY <1>1 DEF CallsOK, MutexOK, NoJob
  <2>2. QED
    BY <1>1, <1>4, <1>5, <2>1 DEF CallsOK, CallTypes, MutexOK
<1>8. CallsInv'
  <2> SUFFICES ASSUME NEW d \in Callers PROVE Sensible(pc'[d], job'[d]) /\ HasMutex(d)'
    BY DEF CallsInv
  <2>1. CASE d = c
    BY <2>1, <1>2, <1>4 DEF Sensible, HasMutex, Sealing
  <2>2. CASE d # c
    BY <2>2, <1>1, <1>4, <1>5 DEF CallsOK, CallsInv, HasMutex
  <2>3. QED
    BY <2>1, <2>2
<1>9. StoreTypes' /\ ServerTypes' /\ CounterTypes'
  BY <1>5 DEF Typed, TypeOK, StoreTypes, ServerTypes, CounterTypes, store, server
<1>10. QED
  BY <1>6, <1>7, <1>8, <1>9 DEF Typed, TypeOK

LEMMA LockTyped == ASSUME Typed, NEW c \in Callers, Lock(c) PROVE Typed'
<1>1. CallsOK /\ job[c] \in Job /\ pc[c] = "lock" /\ job[c].kind = "acquire"
  BY CallAt DEF Lock, Sensible
<1>2. UNCHANGED <<store, mem, server, lost, aborted, calls, logins>> /\ mu[Home[c]] = NoCaller
  BY DEF Lock
<1>3. CASE Leave(c)
  <2>1. mem' \in [Homes -> Token]
    BY <1>1, <1>2 DEF CallsOK, CallTypes
  <2>2. CallsOK'
    BY <1>1, <1>3, <2>1, LeaveTyped
  <2>3. QED
    BY <1>2, <2>2 DEF Typed, TypeOK, CallsOK, StoreTypes, ServerTypes, CounterTypes, store, server
<1>4. CASE Goto(c, "client") /\ mu' = [mu EXCEPT ![Home[c]] = c] /\ UNCHANGED job
  <2>1. \A d \in Callers : pc'[d] = IF d = c THEN "client" ELSE pc[d]
    BY <1>1, <1>4 DEF CallsOK, CallTypes, Goto
  <2>2. \A p \in Homes : mu'[p] = IF p = Home[c] THEN c ELSE mu[p]
    BY <1>1, <1>4 DEF CallsOK, CallTypes
  <2>3. CallTypes'
    BY <1>1, <1>2, <1>4 DEF CallsOK, CallTypes, Goto, Places
  <2>4. MutexOK'
    BY <1>1, <1>4, <2>1, <2>2 DEF CallsOK, CallTypes, MutexOK
  <2>5. CallsInv'
    <3> SUFFICES ASSUME NEW d \in Callers PROVE Sensible(pc'[d], job'[d]) /\ HasMutex(d)'
      BY DEF CallsInv
    <3>1. CASE d = c
      BY <3>1, <1>1, <1>4, <2>1, <2>2 DEF Sensible, HasMutex, Sealing
    <3>2. CASE d # c
      BY <3>2, <1>1, <1>2, <1>4, <2>1, <2>2 DEF CallsOK, CallsInv, HasMutex
    <3>3. QED
      BY <3>1, <3>2
  <2>6. QED
    BY <1>2, <2>3, <2>4, <2>5 DEF Typed, TypeOK, StoreTypes, ServerTypes, CounterTypes, store, server
<1>5. QED
  BY <1>3, <1>4 DEF Lock

LEMMA LoadRegistrationTyped == ASSUME Typed, NEW c \in Callers, LoadRegistration(c) PROVE Typed'
<1>1. CallsOK /\ job[c] \in Job /\ pc[c] = "client" /\ job[c].kind \in {"acquire", "start"}
  BY CallAt DEF LoadRegistration, Sensible
<1>2. UNCHANGED <<store, mem, mu, server, lost, aborted, calls, logins>>
  BY DEF LoadRegistration
<1>3. CASE Goto(c, AfterRegistration(c)) /\ job' = [job EXCEPT ![c].client = registration.value]
  <2> DEFINE j == [job[c] EXCEPT !.client = registration.value]
             l == AfterRegistration(c)
  <2>1. j \in Job /\ j.kind = job[c].kind
    BY <1>1 DEF Job, Typed, TypeOK, StoreTypes
  <2>2. Moves(c, l, j)
    BY <1>1, <1>3 DEF Moves, Goto, CallsOK, CallTypes
  <2>3. l \in Places \ {"idle", "lock"} /\ Sensible(l, j)
    BY <1>1, <2>1 DEF AfterRegistration, Places, Sensible, Sealing
  <2> HIDE DEF j, l
  <2>4. CallsOK'
    BY <1>1, <1>2, <2>1, <2>2, <2>3, MovesTyped
  <2>5. QED
    BY <1>2, <2>4 DEF Typed, TypeOK, CallsOK, StoreTypes, ServerTypes, CounterTypes, store, server
<1>4. CASE Goto(c, "register") /\ UNCHANGED job
  <2>1. Sensible("register", job[c]) /\ "register" \in Places \ {"idle", "lock"}
    BY <1>1 DEF Sensible, Sealing, Places
  <2>2. CallsOK'
    BY <1>1, <1>2, <1>4, <2>1, GotoTyped
  <2>3. QED
    BY <1>2, <2>2 DEF Typed, TypeOK, CallsOK, StoreTypes, ServerTypes, CounterTypes, store, server
<1>5. QED
  BY <1>3, <1>4 DEF LoadRegistration

LEMMA RegisterTyped == ASSUME Typed, NEW c \in Callers, RegisterDynamicClient(c) PROVE Typed'
<1>1. CallsOK /\ job[c] \in Job /\ pc[c] = "register" /\ job[c].kind \in {"acquire", "start"}
  BY CallAt DEF RegisterDynamicClient, Sensible
<1>2. UNCHANGED <<store, mem, mu, rotates, grants, lost, aborted, calls, logins>> /\ clients' = clients + 1
  BY DEF RegisterDynamicClient
<1>3. clients + 1 \in Clients
  BY DEF Typed, TypeOK, ServerTypes, Clients
<1> DEFINE j == [job[c] EXCEPT !.client = clients + 1, !.record = "registration"]
<1>4. j \in Job /\ j.kind = job[c].kind /\ j.record = "registration"
  BY <1>1, <1>3 DEF Job
<1>5. Moves(c, "find", j)
  BY <1>1 DEF RegisterDynamicClient, Moves, Goto, CallsOK, CallTypes
<1>6. "find" \in Places \ {"idle", "lock"} /\ Sensible("find", j)
  BY <1>1, <1>4 DEF Places, Sensible, Sealing
<1> HIDE DEF j
<1>7. CallsOK'
  BY <1>1, <1>2, <1>4, <1>5, <1>6, MovesTyped
<1>8. QED
  BY <1>2, <1>3, <1>7 DEF Typed, TypeOK, CallsOK, StoreTypes, ServerTypes, CounterTypes, store

LEMMA StartAuthorizationTyped == ASSUME Typed, NEW c \in Callers, StartAuthorization(c) PROVE Typed'
<1>1. CallsOK /\ job[c] \in Job /\ pc[c] = "authorize" /\ job[c].kind = "start"
  BY CallAt DEF StartAuthorization, Sensible
<1>2. /\ UNCHANGED <<store, mem, mu, rotates, clients, lost, aborted, calls>> /\ logins' = logins + 1
      /\ logins + 1 \in 0..MaxLogins
      /\ grants' = [grants EXCEPT ![logins + 1].client = job[c].client]
  BY DEF StartAuthorization, Typed, TypeOK, CounterTypes
<1> DEFINE q == [grant |-> logins + 1, client |-> job[c].client, lapsed |-> FALSE]
           j == [job[c] EXCEPT !.record = "pending", !.pending = q]
<1>3. q \in Pending
  BY <1>1, <1>2 DEF Pending, Job
<1> HIDE DEF q
<1>4. j \in Job /\ j.kind = job[c].kind /\ j.record = "pending"
  BY <1>1, <1>3 DEF Job
<1>5. Moves(c, "find", j)
  BY <1>1 DEF StartAuthorization, Moves, Goto, CallsOK, CallTypes, q
<1>6. "find" \in Places \ {"idle", "lock"} /\ Sensible("find", j)
  BY <1>1, <1>4 DEF Places, Sensible, Sealing
<1>7. grants' \in [Grants -> Grant]
  BY <1>1, <1>2 DEF Typed, TypeOK, ServerTypes, Job, Grant
<1> HIDE DEF j
<1>8. CallsOK'
  BY <1>1, <1>2, <1>4, <1>5, <1>6, MovesTyped
<1>9. QED
  BY <1>2, <1>7, <1>8 DEF Typed, TypeOK, CallsOK, StoreTypes, ServerTypes, CounterTypes, store

LEMMA LoadPendingTyped == ASSUME Typed, NEW c \in Callers, LoadPending(c) PROVE Typed'
<1>1. CallsOK /\ job[c] \in Job /\ pc[c] = "pending" /\ job[c].kind = "complete"
  BY CallAt DEF LoadPending, Sensible
<1>2. UNCHANGED <<store, mem, mu, server, lost, aborted, calls, logins>>
  BY DEF LoadPending
<1> DEFINE j == [job[c] EXCEPT !.pending = pending.value]
<1>3. j \in Job /\ j.kind = job[c].kind /\ j.callback # 0
  <2>1. job[c].callback # 0
    BY CallAt DEF LoadPending, Sensible
  <2>2. QED
    BY <1>1, <2>1 DEF Job, Typed, TypeOK, StoreTypes
<1>4. Moves(c, "redeem", j)
  BY <1>1 DEF LoadPending, Moves, Goto, CallsOK, CallTypes
<1>5. "redeem" \in Places \ {"idle", "lock"} /\ Sensible("redeem", j)
  BY <1>1, <1>3 DEF Places, Sensible, Sealing
<1> HIDE DEF j
<1>6. CallsOK'
  BY <1>1, <1>2, <1>3, <1>4, <1>5, MovesTyped
<1>7. QED
  BY <1>2, <1>6 DEF Typed, TypeOK, CallsOK, StoreTypes, ServerTypes, CounterTypes, store, server

LEMMA CompleteAuthorizationTyped == ASSUME Typed, NEW c \in Callers, CompleteAuthorization(c) PROVE Typed'
<1> DEFINE g == job[c].callback
<1>1. CallsOK /\ job[c] \in Job /\ pc[c] = "redeem" /\ job[c].kind = "complete" /\ g # 0
  BY CallAt DEF CompleteAuthorization, Sensible
<1>2. UNCHANGED <<store, mem, rotates, clients, lost, aborted, calls, logins>>
  BY DEF CompleteAuthorization
<1>3. PICK turn \in {0, 1}, fresh \in BOOLEAN :
        /\ grants' = [grants EXCEPT ![g].redeemed = TRUE, ![g].turn = turn, ![g].by = Home[c]]
        /\ \/ /\ Goto(c, "find") /\ UNCHANGED mu
              /\ job' = [job EXCEPT ![c].record = "token",
                           ![c].token = [grant |-> g, turn |-> turn, fresh |-> fresh]]
           \/ Leave(c)
  BY DEF CompleteAuthorization
<1> DEFINE n == [grants[g] EXCEPT !.redeemed = TRUE, !.turn = turn, !.by = Home[c]]
<1>8. grants \in [Grants -> Grant] /\ Home[c] \in Homes
  BY DEF Typed, TypeOK, ServerTypes
<1>9. g \in Grants => n \in Grant
  <2> SUFFICES ASSUME g \in Grants PROVE n \in Grant
    OBVIOUS
  <2>1. grants[g] \in Grant /\ turn \in Nat
    BY <1>8
  <2> HIDE DEF g
  <2>2. QED
    BY <1>8, <2>1 DEF Grant
<1>10. grants' = [grants EXCEPT ![g] = n]
  BY <1>3, <1>8
<1> HIDE DEF n
<1>4. grants' \in [Grants -> Grant]
  BY <1>8, <1>9, <1>10
<1>5. CASE Leave(c)
  <2>1. mem' \in [Homes -> Token]
    BY <1>1, <1>2 DEF CallsOK, CallTypes
  <2>2. CallsOK'
    BY <1>1, <1>5, <2>1, LeaveTyped
  <2>3. QED
    BY <1>2, <1>4, <2>2 DEF Typed, TypeOK, CallsOK, StoreTypes, ServerTypes, CounterTypes, store
<1>6. CASE /\ Goto(c, "find") /\ UNCHANGED mu
           /\ job' = [job EXCEPT ![c].record = "token",
                        ![c].token = [grant |-> g, turn |-> turn, fresh |-> fresh]]
  <2> DEFINE t == [grant |-> g, turn |-> turn, fresh |-> fresh]
             j == [job[c] EXCEPT !.record = "token", !.token = t]
  <2>1. t \in Token /\ t.grant # 0
    BY <1>1 DEF Token, Job
  <2> HIDE DEF t
  <2>2. j \in Job /\ j.kind = job[c].kind /\ j.record = "token" /\ j.token.grant # 0
    BY <1>1, <2>1 DEF Job
  <2>3. Moves(c, "find", j)
    BY <1>1, <1>6 DEF Moves, Goto, CallsOK, CallTypes, t
  <2>4. "find" \in Places \ {"idle", "lock"} /\ Sensible("find", j)
    BY <1>1, <2>2 DEF Places, Sensible, Sealing
  <2> HIDE DEF j
  <2>5. CallsOK'
    BY <1>1, <1>2, <1>6, <2>2, <2>3, <2>4, MovesTyped
  <2>6. QED
    BY <1>2, <1>4, <2>5 DEF Typed, TypeOK, CallsOK, StoreTypes, ServerTypes, CounterTypes, store
<1>7. QED
  BY <1>3, <1>5, <1>6

LEMMA LoadTokenTyped == ASSUME Typed, NEW c \in Callers, LoadToken(c) PROVE Typed'
<1>1. CallsOK /\ job[c] \in Job /\ pc[c] = "load" /\ job[c].kind = "acquire"
  BY CallAt DEF LoadToken, Sensible
<1>2. UNCHANGED <<store, mem, mu, server, lost, aborted, calls, logins>>
  BY DEF LoadToken
<1> DEFINE j == [job[c] EXCEPT !.token = token.value]
<1>3. j \in Job /\ j.kind = job[c].kind /\ j.token.grant # 0
  BY <1>1 DEF Job, Typed, TypeOK, StoreTypes, LoadToken
<1>4. PICK l \in {"remember", "refresh"} : Moves(c, l, j)
  BY <1>1 DEF LoadToken, Moves, Goto, CallsOK, CallTypes
<1>5. l \in Places \ {"idle", "lock"} /\ Sensible(l, j)
  BY <1>1, <1>3 DEF Places, Sensible, Sealing
<1> HIDE DEF j
<1>6. CallsOK'
  BY <1>1, <1>2, <1>3, <1>4, <1>5, MovesTyped
<1>7. QED
  BY <1>2, <1>6 DEF Typed, TypeOK, CallsOK, StoreTypes, ServerTypes, CounterTypes, store, server

LEMMA RefreshedTyped ==
  ASSUME NEW t \in Token, NEW fresh \in BOOLEAN
  PROVE  /\ Refreshed(t, fresh) \in Token /\ Refreshed(t, fresh).grant = t.grant
         /\ Refreshed(t, fresh).turn = IF rotates THEN t.turn + 1 ELSE t.turn
<1> DEFINE n == IF rotates THEN t.turn + 1 ELSE t.turn
<1>1. n \in Nat /\ Refreshed(t, fresh) = [t EXCEPT !.turn = n, !.fresh = fresh]
  BY DEF Refreshed, Token
<1> HIDE DEF n
<1>2. [t EXCEPT !.turn = n, !.fresh = fresh] \in Token /\ t = [grant |-> t.grant, turn |-> t.turn, fresh |-> t.fresh]
  BY <1>1 DEF Token
<1>3. QED
  BY <1>1, <1>2 DEF n, Token

LEMMA RefreshTyped == ASSUME Typed, NEW c \in Callers, Refresh(c) PROVE Typed'
<1> DEFINE old == job[c].token
<1>1. CallsOK /\ job[c] \in Job /\ pc[c] = "refresh" /\ job[c].kind = "acquire" /\ old.grant # 0
  BY CallAt DEF Refresh, Sensible
<1>2. UNCHANGED <<store, mem, rotates, clients, aborted, calls, logins>>
  BY DEF Refresh
<1>3. old \in Token
  BY <1>1 DEF Job
<1>4. PICK fresh \in BOOLEAN :
        /\ grants' = [grants EXCEPT ![old.grant].turn = IF rotates THEN @ + 1 ELSE @,
                                    ![old.grant].by = Home[c]]
        /\ \/ /\ Goto(c, "find") /\ UNCHANGED <<mu, lost>>
              /\ job' = [job EXCEPT ![c].record = "token", ![c].token = Refreshed(old, fresh)]
           \/ Leave(c) /\ lost' = IF rotates THEN lost \cup {old.grant} ELSE lost
  BY DEF Refresh
<1> DEFINE turn == IF rotates THEN grants[old.grant].turn + 1 ELSE grants[old.grant].turn
           n == [grants[old.grant] EXCEPT !.turn = turn, !.by = Home[c]]
<1>5. grants \in [Grants -> Grant] /\ Home[c] \in Homes
  BY DEF Typed, TypeOK, ServerTypes
<1>12. old.grant \in Grants
  BY <1>1, <1>3 DEF Token, Grants
<1>6. n \in Grant
  <2>1. grants[old.grant] \in Grant /\ turn \in Nat
    BY <1>5, <1>12 DEF Grant
  <2> HIDE DEF old, turn
  <2>2. QED
    BY <1>5, <2>1 DEF Grant
<1>7. grants' = [grants EXCEPT ![old.grant] = n]
  BY <1>4, <1>5
<1>8. grants' \in [Grants -> Grant]
  <2> HIDE DEF n, old
  <2>1. QED
    BY <1>5, <1>6, <1>7
<1>9. CASE Leave(c) /\ lost' = IF rotates THEN lost \cup {old.grant} ELSE lost
  <2>1. mem' \in [Homes -> Token]
    BY <1>1, <1>2 DEF CallsOK, CallTypes
  <2>2. CallsOK'
    BY <1>1, <1>9, <2>1, LeaveTyped
  <2>4. lost' \subseteq Grants
    BY <1>9, <1>12 DEF Typed, TypeOK, CounterTypes
  <2>5. QED
    BY <1>2, <1>8, <2>2, <2>4 DEF Typed, TypeOK, CallsOK, StoreTypes, ServerTypes, CounterTypes, store
<1>10. CASE /\ Goto(c, "find") /\ UNCHANGED <<mu, lost>>
            /\ job' = [job EXCEPT ![c].record = "token", ![c].token = Refreshed(old, fresh)]
  <2> DEFINE t == Refreshed(old, fresh)
             j == [job[c] EXCEPT !.record = "token", !.token = t]
  <2>1. t \in Token /\ t.grant # 0
    BY <1>1, <1>3, RefreshedTyped
  <2> HIDE DEF t
  <2>2. j \in Job /\ j.kind = job[c].kind /\ j.record = "token" /\ j.token.grant # 0
    BY <1>1, <2>1 DEF Job
  <2>3. Moves(c, "find", j)
    BY <1>1, <1>10 DEF Moves, Goto, CallsOK, CallTypes, t
  <2>4. "find" \in Places \ {"idle", "lock"} /\ Sensible("find", j)
    BY <1>1, <2>2 DEF Places, Sensible, Sealing
  <2> HIDE DEF j
  <2>5. CallsOK'
    BY <1>1, <1>2, <1>10, <2>2, <2>3, <2>4, MovesTyped
  <2>6. QED
    BY <1>2, <1>8, <1>10, <2>5 DEF Typed, TypeOK, CallsOK, StoreTypes, ServerTypes, CounterTypes, store
<1>11. QED
  BY <1>4, <1>9, <1>10

LEMMA DeletePendingTyped == ASSUME Typed, NEW c \in Callers, DeletePending(c) PROVE Typed'
<1>1. CallsOK /\ job[c] \in Job /\ pc[c] = "forget" /\ job[c].kind = "complete"
  BY CallAt DEF DeletePending, Sensible
<1>2. /\ UNCHANGED <<keyfile, filled, keys, registration, token, mem, mu, job, server, lost, aborted, calls, logins>>
      /\ Goto(c, "take") /\ pending' = [key |-> 0, value |-> NoPending]
  BY DEF DeletePending
<1>3. Sensible("take", job[c]) /\ "take" \in Places \ {"idle", "lock"}
  BY <1>1 DEF Sensible, Sealing, Places
<1>4. CallsOK'
  BY <1>1, <1>2, <1>3, GotoTyped
<1>5. pending' \in [key : KeyIds, value : Pending]
  BY <1>2, DataTypes DEF KeyIds
<1>6. QED
  BY <1>2, <1>4, <1>5 DEF Typed, TypeOK, CallsOK, StoreTypes, ServerTypes, CounterTypes, server

LEMMA KeepTyped == ASSUME Typed, NEW c \in Callers, Keep(c) PROVE Typed'
<1>1. CallsOK /\ job[c] \in Job
  BY CallAt
<1>2. mem' = [mem EXCEPT ![Home[c]] = job[c].token] /\ Leave(c) /\ UNCHANGED <<store, server, lost, aborted, calls, logins>>
  BY DEF Keep
<1>3. mem' \in [Homes -> Token]
  BY <1>1, <1>2 DEF Job, CallsOK, CallTypes
<1>4. CallsOK'
  BY <1>1, <1>2, <1>3, LeaveTyped
<1>5. QED
  BY <1>2, <1>4 DEF Typed, TypeOK, CallsOK, StoreTypes, ServerTypes, CounterTypes, store, server

LEMMA FoundKeyTyped ==
  ASSUME CallsOK, NEW c \in Callers, pc[c] \in {"find", "create"}, FoundKey(c), keyfile \in KeyIds,
         UNCHANGED <<mem, mu>>
  PROVE  CallsOK'
<1>1. job[c] \in Job /\ Sensible(pc[c], job[c])
  BY DEF CallsOK, CallTypes, CallsInv
<1> DEFINE j == [job[c] EXCEPT !.key = keyfile]
<1>2. j \in Job /\ j.kind = job[c].kind /\ j.record = job[c].record /\ j.token = job[c].token
  BY <1>1 DEF Job
<1>3. Moves(c, "put", j)
  BY DEF FoundKey, Goto, Moves, CallsOK, CallTypes
<1>4. "put" \in Places \ {"idle", "lock"} /\ Sensible("put", j)
  BY <1>1, <1>2 DEF Places, Sensible, Sealing
<1> HIDE DEF j
<1>5. QED
  BY <1>2, <1>3, <1>4, MovesTyped

LEMMA FindKeyTyped == ASSUME Typed, NEW c \in Callers, FindKey(c) PROVE Typed'
<1>1. CallsOK /\ job[c] \in Job /\ pc[c] = "find" /\ Sensible("find", job[c]) /\ keyfile \in KeyIds
  BY CallAt DEF FindKey, Typed, TypeOK, StoreTypes
<1>2. UNCHANGED <<store, mem, mu, server, lost, aborted, calls, logins>>
  BY DEF FindKey
<1>3. CASE FoundKey(c)
  BY <1>1, <1>2, <1>3, FoundKeyTyped
     DEF Typed, TypeOK, CallsOK, StoreTypes, ServerTypes, CounterTypes, store, server
<1>4. CASE Goto(c, "create") /\ UNCHANGED job
  <2>1. Sensible("create", job[c]) /\ "create" \in Places \ {"idle", "lock"}
    BY <1>1 DEF Sensible, Sealing, Places
  <2>2. CallsOK'
    BY <1>1, <1>2, <1>4, <2>1, GotoTyped
  <2>3. QED
    BY <1>2, <2>2 DEF Typed, TypeOK, CallsOK, StoreTypes, ServerTypes, CounterTypes, store, server
<1>5. QED
  BY <1>3, <1>4 DEF FindKey

LEMMA CreateKeyTyped == ASSUME Typed, NEW c \in Callers, CreateKey(c) PROVE Typed'
<1>1. /\ CallsOK /\ job[c] \in Job /\ pc[c] = "create" /\ Sensible("create", job[c])
      /\ keyfile \in KeyIds /\ keys + 1 \in KeyIds
  BY CallAt DEF CreateKey, Typed, TypeOK, StoreTypes, KeyIds
<1>2. UNCHANGED <<filled, registration, pending, token, mem, mu, server, lost, aborted, calls, logins>>
  BY DEF CreateKey
<1>3. CASE FoundKey(c) /\ UNCHANGED <<keyfile, keys>>
  BY <1>1, <1>2, <1>3, FoundKeyTyped
     DEF Typed, TypeOK, CallsOK, StoreTypes, ServerTypes, CounterTypes, server
<1>4. CASE /\ keyfile' = keys + 1 /\ keys' = keys + 1
           /\ Goto(c, "fill") /\ job' = [job EXCEPT ![c].key = keys + 1]
  <2> DEFINE j == [job[c] EXCEPT !.key = keys + 1]
  <2>1. j \in Job /\ j.kind = job[c].kind /\ j.record = job[c].record /\ j.token = job[c].token
    BY <1>1 DEF Job
  <2>2. Moves(c, "fill", j)
    BY <1>1, <1>4 DEF Goto, Moves, CallsOK, CallTypes
  <2>3. "fill" \in Places \ {"idle", "lock"} /\ Sensible("fill", j)
    BY <1>1, <2>1 DEF Places, Sensible, Sealing
  <2> HIDE DEF j
  <2>4. CallsOK'
    BY <1>1, <1>2, <2>1, <2>2, <2>3, MovesTyped
  <2>5. keyfile' \in KeyIds /\ keys' \in Nat
    BY <1>1, <1>4 DEF KeyIds
  <2>6. QED
    BY <1>2, <2>4, <2>5 DEF Typed, TypeOK, CallsOK, StoreTypes, ServerTypes, CounterTypes, server
<1>5. QED
  BY <1>3, <1>4 DEF CreateKey

LEMMA FillKeyTyped == ASSUME Typed, NEW c \in Callers, FillKey(c) PROVE Typed'
<1>1. CallsOK /\ job[c] \in Job /\ pc[c] = "fill" /\ Sensible("fill", job[c])
  BY CallAt DEF FillKey
<1>2. UNCHANGED <<keyfile, keys, registration, pending, token, mem, mu, job, server, lost, aborted, calls, logins>>
      /\ filled' = TRUE /\ Goto(c, "sync")
  BY DEF FillKey
<1>3. Sensible("sync", job[c]) /\ "sync" \in Places \ {"idle", "lock"}
  BY <1>1 DEF Sensible, Sealing, Places
<1>4. CallsOK'
  BY <1>1, <1>2, <1>3, GotoTyped
<1>5. filled' \in BOOLEAN
  BY <1>2
<1>6. QED
  BY <1>2, <1>4, <1>5 DEF Typed, TypeOK, CallsOK, StoreTypes, ServerTypes, CounterTypes, server

LEMMA PutTyped == ASSUME Typed, NEW c \in Callers, Put(c) PROVE Typed'
<1>1. /\ CallsOK /\ job[c] \in Job /\ pc[c] \in {"sync", "put"} /\ Sensible(pc[c], job[c])
  BY CallAt DEF Put
<1>2. UNCHANGED <<keyfile, filled, keys, mem, server, lost, aborted, calls, logins>>
  BY DEF Put
<1>3. /\ job[c].key \in KeyIds /\ job[c].client \in Clients /\ job[c].pending \in Pending
      /\ job[c].token \in Token
  BY <1>1 DEF Job
<1>4. CASE /\ job[c].record = "registration" /\ Goto(c, AfterRegistration(c)) /\ UNCHANGED <<mu, job>>
           /\ registration' = [key |-> job[c].key, value |-> job[c].client]
           /\ UNCHANGED <<pending, token>>
  <2>1. Sensible(AfterRegistration(c), job[c]) /\ AfterRegistration(c) \in Places \ {"idle", "lock"}
    BY <1>1, <1>4 DEF Sensible, Sealing, Places, AfterRegistration
  <2>2. CallsOK'
    BY <1>1, <1>2, <1>4, <2>1, GotoTyped
  <2>3. QED
    BY <1>2, <1>3, <1>4, <2>2 DEF Typed, TypeOK, CallsOK, StoreTypes, ServerTypes, CounterTypes, server
<1>5. CASE /\ job[c].record = "pending" /\ Leave(c)
           /\ pending' = [key |-> job[c].key, value |-> job[c].pending]
           /\ UNCHANGED <<registration, token>>
  <2>1. mem' \in [Homes -> Token]
    BY <1>1, <1>2 DEF CallsOK, CallTypes
  <2>2. CallsOK'
    BY <1>1, <1>5, <2>1, LeaveTyped
  <2>3. QED
    BY <1>2, <1>3, <1>5, <2>2 DEF Typed, TypeOK, CallsOK, StoreTypes, ServerTypes, CounterTypes, server
<1>6. CASE /\ job[c].record = "token" /\ UNCHANGED <<mu, job, registration, pending>>
           /\ Goto(c, IF job[c].kind = "acquire" THEN "remember" ELSE "forget")
           /\ token' = [key |-> job[c].key, value |-> job[c].token]
  <2> DEFINE l == IF job[c].kind = "acquire" THEN "remember" ELSE "forget"
  <2>1. Sensible(l, job[c]) /\ l \in Places \ {"idle", "lock"}
    BY <1>1, <1>6 DEF Sensible, Sealing, Places
  <2>2. CallsOK'
    BY <1>1, <1>2, <1>6, <2>1, GotoTyped
  <2>3. QED
    BY <1>2, <1>3, <1>6, <2>2 DEF Typed, TypeOK, CallsOK, StoreTypes, ServerTypes, CounterTypes, server
<1>7. QED
  BY <1>4, <1>5, <1>6 DEF Put

LEMMA FailTyped == ASSUME Typed, NEW c \in Callers, Fail(c) PROVE Typed'
<1>1. CallsOK /\ UNCHANGED <<keys, registration, pending, token, mem, server, calls, logins>> /\ Leave(c)
  BY CallAt DEF Fail
<1>2. mem' \in [Homes -> Token]
  BY <1>1 DEF CallsOK, CallTypes
<1>3. CallsOK'
  BY <1>1, <1>2, LeaveTyped
<1>4. lost' \subseteq Grants
  BY DEF Fail, Dropped, Unsaved, Typed, TypeOK, CounterTypes
<1>5. keyfile' \in KeyIds /\ filled' \in BOOLEAN /\ aborted' \in BOOLEAN
  <2>1. CASE UNCHANGED <<keyfile, filled, aborted>>
    BY <2>1 DEF Typed, TypeOK, StoreTypes, CounterTypes
  <2>2. CASE keyfile' = 0 /\ filled' = FALSE /\ aborted' = (aborted \/ filled)
    BY <2>2 DEF KeyIds
  <2>3. QED
    BY <2>1, <2>2 DEF Fail
<1>6. QED
  BY <1>1, <1>3, <1>4, <1>5 DEF Typed, TypeOK, CallsOK, StoreTypes, ServerTypes, CounterTypes, server

LEMMA ExitTyped == ASSUME Typed, NEW p \in Homes, Exit(p) PROVE Typed'
<1>1. CallsOK
  BY DEF Typed, TypeOK, CallsOK
<1>2. /\ UNCHANGED <<store, server, aborted, calls, logins>>
      /\ mem' = [mem EXCEPT ![p] = NoToken] /\ mu' = [mu EXCEPT ![p] = NoCaller]
      /\ pc' = [c \in Callers |-> IF Home[c] = p THEN "idle" ELSE pc[c]]
      /\ job' = [c \in Callers |-> IF Home[c] = p THEN NoJob ELSE job[c]]
  BY DEF Exit
<1>3. CallTypes'
  BY <1>1, <1>2, DataTypes DEF CallsOK, CallTypes, Places
<1>4. MutexOK'
  BY <1>1, <1>2 DEF CallsOK, CallTypes, MutexOK
<1>5. CallsInv'
  BY <1>1, <1>2 DEF CallsOK, CallTypes, CallsInv, Sensible, HasMutex, NoJob, Sealing
<1>6. lost' \subseteq Grants
  BY DEF Exit, Dropped, Unsaved, Typed, TypeOK, CounterTypes
<1>7. QED
  BY <1>2, <1>3, <1>4, <1>5, <1>6 DEF Typed, TypeOK, StoreTypes, ServerTypes, CounterTypes, store, server

LEMMA StaleTyped ==
  ASSUME NEW t \in Token
  PROVE  Stale(t) \in Token /\ Stale(t).grant = t.grant /\ Stale(t).turn = t.turn
BY DEF Stale, Token

LEMMA LapsedTyped == ASSUME NEW r \in Pending PROVE Lapsed(r) \in Pending
BY DEF Lapsed, Pending

(* Time changes what calls hold, not where they are. *)
LEMMA AgedTyped ==
  ASSUME CallsOK, UNCHANGED <<mu, pc>>, mem' \in [Homes -> Token], job' \in [Callers -> Job],
         \A c \in Callers : /\ job'[c].kind = job[c].kind /\ job'[c].record = job[c].record
                            /\ job'[c].callback = job[c].callback /\ job'[c].token.grant = job[c].token.grant
                            /\ job[c] = NoJob => job'[c] = NoJob
  PROVE  CallsOK'
<1>1. CallTypes' /\ MutexOK'
  BY DEF CallsOK, CallTypes, MutexOK
<1>2. CallsInv'
  BY DEF CallsOK, CallsInv, Sensible, HasMutex
<1>3. QED
  BY <1>1, <1>2 DEF CallsOK

LEMMA ExpireTyped == ASSUME Typed, Expire PROVE Typed'
<1>1. /\ CallsOK /\ UNCHANGED <<keyfile, filled, keys, registration, pending, mu, pc, server, lost, aborted, calls, logins>>
      /\ token' = [token EXCEPT !.value = Stale(token.value)] /\ mem' = [p \in Homes |-> Stale(mem[p])]
      /\ job' = [c \in Callers |-> [job[c] EXCEPT !.token = Stale(job[c].token)]]
  BY DEF Expire, Typed, TypeOK, CallsOK
<1>2. mem' \in [Homes -> Token]
  BY <1>1, StaleTyped DEF CallsOK, CallTypes
<1>3. ASSUME NEW c \in Callers
      PROVE  /\ job'[c] \in Job /\ job'[c].kind = job[c].kind /\ job'[c].record = job[c].record
             /\ job'[c].callback = job[c].callback /\ job'[c].token.grant = job[c].token.grant
             /\ job[c] = NoJob => job'[c] = NoJob
  <2>1. job[c] \in Job /\ job[c].token \in Token
    BY <1>1 DEF CallsOK, CallTypes, Job
  <2> DEFINE t == Stale(job[c].token)
  <2>2. t \in Token /\ t.grant = job[c].token.grant
    BY <2>1, StaleTyped
  <2>3. job[c] = NoJob => t = job[c].token
    <3>1. Stale(NoToken) = NoToken
      BY DataTypes, StaleTyped DEF Stale, NoToken, Token
    <3>2. NoJob.token = NoToken
      BY DEF NoJob
    <3>3. QED
      BY <3>1, <3>2
  <2> HIDE DEF t
  <2>4. job'[c] = [job[c] EXCEPT !.token = t]
    BY <1>1 DEF t
  <2>5. QED
    BY <2>1, <2>2, <2>3, <2>4 DEF Job
<1>4. job' \in [Callers -> Job]
  BY <1>1, <1>3
<1>5. CallsOK'
  BY <1>1, <1>2, <1>3, <1>4, AgedTyped
<1>6. token' \in [key : KeyIds, value : Token]
  <2>1. token \in [key : KeyIds, value : Token] /\ Stale(token.value) \in Token
    BY StaleTyped DEF Typed, TypeOK, StoreTypes
  <2>2. QED
    BY <1>1, <2>1
<1>7. QED
  BY <1>1, <1>5, <1>6 DEF Typed, TypeOK, CallsOK, StoreTypes, ServerTypes, CounterTypes, server

LEMMA LapseTyped == ASSUME Typed, Lapse PROVE Typed'
<1>1. /\ CallsOK /\ UNCHANGED <<keyfile, filled, keys, registration, token, mem, mu, pc, server, lost, aborted, calls, logins>>
      /\ pending' = [pending EXCEPT !.value = Lapsed(pending.value)]
      /\ job' = [c \in Callers |-> [job[c] EXCEPT !.pending = Lapsed(job[c].pending)]]
  BY DEF Lapse, Typed, TypeOK, CallsOK
<1>2. ASSUME NEW c \in Callers
      PROVE  /\ job'[c] \in Job /\ job'[c].kind = job[c].kind /\ job'[c].record = job[c].record
             /\ job'[c].callback = job[c].callback /\ job'[c].token = job[c].token
             /\ job[c] = NoJob => job'[c] = NoJob
  <2>1. job[c] \in Job /\ job[c].pending \in Pending
    BY <1>1 DEF CallsOK, CallTypes, Job
  <2> DEFINE r == Lapsed(job[c].pending)
  <2>2. r \in Pending
    BY <2>1, LapsedTyped
  <2>3. job[c] = NoJob => r = job[c].pending
    BY DEF NoJob, NoPending, Lapsed
  <2> HIDE DEF r
  <2>4. job'[c] = [job[c] EXCEPT !.pending = r]
    BY <1>1 DEF r
  <2>5. QED
    BY <2>1, <2>2, <2>3, <2>4 DEF Job
<1>3. mem' \in [Homes -> Token] /\ job' \in [Callers -> Job]
  BY <1>1, <1>2 DEF CallsOK, CallTypes
<1>4. CallsOK'
  BY <1>1, <1>2, <1>3, AgedTyped
<1>5. pending' \in [key : KeyIds, value : Pending]
  <2>1. pending \in [key : KeyIds, value : Pending] /\ Lapsed(pending.value) \in Pending
    BY LapsedTyped DEF Typed, TypeOK, StoreTypes
  <2>2. QED
    BY <1>1, <2>1
<1>6. QED
  BY <1>1, <1>4, <1>5 DEF Typed, TypeOK, CallsOK, StoreTypes, ServerTypes, CounterTypes, server

LEMMA IdleTyped == ASSUME Typed, UNCHANGED vars PROVE Typed'
BY DEF Typed, TypeOK, StoreTypes, CallTypes, ServerTypes, CounterTypes, MutexOK, CallsInv, HasMutex,
       vars, store, server

LEMMA TypedStep == Typed /\ [Next]_vars => Typed'
<1> SUFFICES ASSUME Typed, [Next]_vars PROVE Typed'
  OBVIOUS
<1>1. ASSUME NEW c \in Callers, Begin(c) \/ Lock(c) \/ Take(c) PROVE Typed'
  BY <1>1, BeginTyped, LockTyped, KeepTyped DEF Take
<1>2. ASSUME NEW c \in Callers, Step(c) PROVE Typed'
  BY <1>2, LoadRegistrationTyped, RegisterTyped, StartAuthorizationTyped, LoadPendingTyped,
     CompleteAuthorizationTyped, LoadTokenTyped, RefreshTyped, DeletePendingTyped, KeepTyped,
     FindKeyTyped, CreateKeyTyped, FillKeyTyped, PutTyped, FailTyped DEF Step, Remember
<1>3. ASSUME NEW p \in Homes, Exit(p) PROVE Typed'
  BY <1>3, ExitTyped
<1>4. QED
  BY <1>1, <1>2, <1>3, ExpireTyped, LapseTyped, IdleTyped DEF Next, Done

(* Records, calls, memory and the server are well typed, and whoever holds *)
(* a process's mutex is an acquiring call of that process.                 *)
THEOREM TypeCorrect == Spec => []TypeOK
<1>1. Spec => []Typed
  BY TypedInit, TypedStep, PTL DEF Spec
<1>2. Typed => TypeOK
  BY DEF Typed
<1>3. QED
  BY <1>1, <1>2, PTL

-----------------------------------------------------------------------------
(* As long as no sync of a fresh key has failed: one call at most is       *)
(* writing the key, and whoever seals has the key of the file.             *)
KeyPlaces == {"fill", "sync", "put"}
KeyInv ==
  /\ keyfile = 0 => ~filled
  /\ \A c \in Callers : pc[c] = "fill" => job[c].key = keyfile /\ keyfile # 0 /\ ~filled
  /\ \A c, d \in Callers : pc[c] = "fill" /\ pc[d] = "fill" => c = d
  /\ \A c \in Callers : pc[c] \in {"sync", "put"} => job[c].key = keyfile /\ filled
  /\ registration.key # 0 => filled /\ registration.key = keyfile
  /\ pending.key # 0 => filled /\ pending.key = keyfile
  /\ token.key # 0 => filled /\ token.key = keyfile

LEMMA KeyInit == Init => KeyInv
<1> SUFFICES ASSUME Init PROVE KeyInv
  OBVIOUS
<1>1. \A c \in Callers : pc[c] = "idle"
  BY DEF Init
<1>2. pending.key = 0
  BY DEF Init
<1>3. CASE /\ keyfile = 0 /\ filled = FALSE
           /\ registration = [key |-> 0, value |-> 0] /\ token = [key |-> 0, value |-> NoToken]
  <2>1. registration.key = 0 /\ token.key = 0 /\ ~filled
    BY <1>3
  <2>2. QED
    BY <1>1, <1>2, <2>1 DEF KeyInv
<1>4. CASE /\ keyfile = 1 /\ filled = TRUE /\ registration = [key |-> 1, value |-> 1]
           /\ token = [key |-> 1, value |-> [grant |-> 1, turn |-> 1, fresh |-> TRUE]]
  <2>1. registration.key = 1 /\ token.key = 1 /\ filled
    BY <1>4
  <2>2. QED
    BY <1>1, <1>2, <1>4, <2>1 DEF KeyInv
<1>5. QED
  BY <1>3, <1>4 DEF Init

LEMMA KeyKept ==
  ASSUME KeyInv, UNCHANGED <<keyfile, filled>>,
         \A c \in Callers : pc'[c] \in KeyPlaces => pc'[c] = pc[c] /\ job'[c].key = job[c].key,
         registration'.key \in {registration.key, 0}, pending'.key \in {pending.key, 0},
         token'.key \in {token.key, 0}
  PROVE  KeyInv'
BY DEF KeyInv, KeyPlaces

(* What a call does that has nothing to do with keys. *)
LEMMA KeyIdleStep ==
  ASSUME Typed, KeyInv, NEW c \in Callers,
         \/ Begin(c) \/ Lock(c) \/ LoadRegistration(c) \/ RegisterDynamicClient(c)
         \/ StartAuthorization(c) \/ LoadPending(c) \/ CompleteAuthorization(c)
         \/ LoadToken(c) \/ Refresh(c) \/ DeletePending(c) \/ Keep(c)
  PROVE  KeyInv'
<1>1. pc \in [Callers -> Places] /\ job \in [Callers -> Job]
  BY DEF Typed, TypeOK, CallTypes
<1>2. \A d \in Callers \ {c} : pc'[d] = pc[d] /\ job'[d] = job[d]
  BY <1>1 DEF Begin, Lock, LoadRegistration, RegisterDynamicClient, StartAuthorization, LoadPending,
              CompleteAuthorization, LoadToken, Refresh, DeletePending, Keep, Leave, Goto
<1>3. pc'[c] \notin KeyPlaces
  BY <1>1 DEF Begin, Lock, LoadRegistration, RegisterDynamicClient, StartAuthorization, LoadPending,
              CompleteAuthorization, LoadToken, Refresh, DeletePending, Keep, Leave, Goto, KeyPlaces,
              AfterRegistration
<1>4. UNCHANGED <<keyfile, filled, registration, token>> /\ pending'.key \in {pending.key, 0}
  <2>1. CASE DeletePending(c)
    BY <2>1 DEF DeletePending
  <2>2. CASE UNCHANGED store
    BY <2>2 DEF store
  <2>3. QED
    BY <2>1, <2>2 DEF Begin, Lock, LoadRegistration, RegisterDynamicClient, StartAuthorization, LoadPending,
                      CompleteAuthorization, LoadToken, Refresh, Keep
<1>5. QED
  BY <1>2, <1>3, <1>4, KeyKept

LEMMA KeyFound ==
  ASSUME Typed, KeyInv, NEW c \in Callers, FoundKey(c),
         UNCHANGED <<keyfile, filled, registration, pending, token>>
  PROVE  KeyInv'
<1>1. /\ \A d \in Callers \ {c} : pc'[d] = pc[d] /\ job'[d].key = job[d].key
      /\ pc'[c] = "put" /\ job'[c].key = keyfile
  BY DEF FoundKey, Goto, Typed, TypeOK, CallTypes, Job
<1>2. QED
  BY <1>1 DEF KeyInv, FoundKey

LEMMA KeySealing ==
  ASSUME Typed, KeyInv, NEW c \in Callers, FindKey(c) \/ CreateKey(c) \/ FillKey(c) \/ Put(c)
  PROVE  KeyInv'
<1>1. pc \in [Callers -> Places] /\ job \in [Callers -> Job] /\ keys \in Nat
  BY DEF Typed, TypeOK, CallTypes, StoreTypes
<1>2. CASE FindKey(c)
  <2>1. UNCHANGED <<keyfile, filled, registration, pending, token>>
    BY <1>2 DEF FindKey, store
  <2>2. CASE FoundKey(c)
    BY <2>1, <2>2, KeyFound
  <2>3. CASE Goto(c, "create") /\ UNCHANGED job
    BY <1>1, <2>1, <2>3, KeyKept DEF Goto, KeyPlaces
  <2>4. QED
    BY <1>2, <2>2, <2>3 DEF FindKey
<1>3. CASE CreateKey(c)
  <2>1. UNCHANGED <<filled, registration, pending, token>>
    BY <1>3 DEF CreateKey
  <2>2. CASE FoundKey(c) /\ UNCHANGED <<keyfile, keys>>
    BY <2>1, <2>2, KeyFound
  <2>3. CASE /\ keyfile = 0 /\ keyfile' = keys + 1 /\ keys' = keys + 1
             /\ Goto(c, "fill") /\ job' = [job EXCEPT ![c].key = keys + 1]
    <3>1. /\ \A d \in Callers \ {c} : pc'[d] = pc[d] /\ job'[d].key = job[d].key
          /\ pc'[c] = "fill" /\ job'[c].key = keyfile' /\ keyfile' # 0
      BY <1>1, <2>3 DEF Goto, Job
    <3>2. QED
      BY <2>1, <2>3, <3>1 DEF KeyInv
  <2>4. QED
    BY <1>3, <2>2, <2>3 DEF CreateKey
<1>4. CASE FillKey(c)
  <2>1. /\ \A d \in Callers \ {c} : pc'[d] = pc[d] /\ job'[d].key = job[d].key
        /\ pc'[c] = "sync" /\ job'[c].key = job[c].key /\ pc[c] = "fill" /\ filled' = TRUE
        /\ UNCHANGED <<keyfile, registration, pending, token>>
    BY <1>1, <1>4 DEF FillKey, Goto
  <2>2. QED
    BY <2>1 DEF KeyInv
<1>5. CASE Put(c)
  <2>1. /\ \A d \in Callers \ {c} : pc'[d] = pc[d] /\ job'[d].key = job[d].key
        /\ pc'[c] \notin KeyPlaces /\ UNCHANGED <<keyfile, filled>>
    BY <1>1, <1>5 DEF Put, Goto, Leave, AfterRegistration, KeyPlaces
  <2>2. filled /\ job[c].key = keyfile
    BY <1>5 DEF KeyInv, Put
  <2>3. /\ registration'.key \in {registration.key, keyfile}
        /\ pending'.key \in {pending.key, keyfile} /\ token'.key \in {token.key, keyfile}
    BY <1>5, <2>2 DEF Put
  <2>4. QED
    BY <2>1, <2>2, <2>3 DEF KeyInv, KeyPlaces
<1>6. QED
  BY <1>2, <1>3, <1>4, <1>5

LEMMA KeyFail ==
  ASSUME Typed, KeyInv, NEW c \in Callers, Fail(c), ~aborted'
  PROVE  KeyInv'
<1>1. /\ \A d \in Callers \ {c} : pc'[d] = pc[d] /\ job'[d] = job[d]
      /\ pc'[c] = "idle" /\ UNCHANGED <<registration, pending, token>>
  BY DEF Fail, Leave, Goto, Typed, TypeOK, CallTypes
<1>2. CASE UNCHANGED <<keyfile, filled>>
  BY <1>1, <1>2, KeyKept DEF KeyPlaces
<1>3. CASE pc[c] \in {"fill", "sync"} /\ keyfile' = 0 /\ filled' = FALSE /\ ~filled
  BY <1>1, <1>3 DEF KeyInv
<1>4. QED
  BY <1>2, <1>3 DEF Fail

LEMMA NotAborted ==
  ASSUME [Next]_vars, ~aborted'
  PROVE  ~aborted
<1>1. ASSUME NEW c \in Callers, Step(c) PROVE ~aborted
  <2>1. CASE Fail(c)
    BY <2>1 DEF Fail
  <2>2. QED
    BY <1>1, <2>1 DEF Step, LoadRegistration, RegisterDynamicClient, StartAuthorization, LoadPending,
         CompleteAuthorization, LoadToken, Refresh, DeletePending, Remember, Keep,
         FindKey, CreateKey, FillKey, Put
<1>2. ASSUME NEW c \in Callers, Begin(c) \/ Lock(c) \/ Take(c) PROVE ~aborted
  BY <1>2 DEF Begin, Lock, Take, Keep
<1>3. CASE (\E p \in Homes : Exit(p)) \/ Expire \/ Lapse \/ UNCHANGED vars
  BY <1>3 DEF Exit, Expire, Lapse, vars
<1>4. QED
  BY <1>1, <1>2, <1>3 DEF Next, Done

LEMMA KeyEnvironment ==
  ASSUME Typed, KeyInv, (\E p \in Homes : Exit(p)) \/ Expire \/ Lapse \/ UNCHANGED vars
  PROVE  KeyInv'
<1>1. /\ UNCHANGED <<keyfile, filled, registration>> /\ pending'.key = pending.key /\ token'.key = token.key
  BY DEF Exit, Expire, Lapse, vars, store, Typed, TypeOK, StoreTypes
<1>2. \A c \in Callers : pc'[c] \in KeyPlaces => pc'[c] = pc[c] /\ job'[c].key = job[c].key
  <2>1. ASSUME NEW p \in Homes, Exit(p), NEW c \in Callers, pc'[c] \in KeyPlaces
        PROVE  pc'[c] = pc[c] /\ job'[c].key = job[c].key
    BY <2>1 DEF Exit, KeyPlaces
  <2>2. CASE Expire \/ Lapse
    BY <2>2 DEF Expire, Lapse, Typed, TypeOK, CallTypes, Job
  <2>3. CASE UNCHANGED vars
    BY <2>3 DEF vars
  <2>4. QED
    BY <2>1, <2>2, <2>3
<1>3. QED
  BY <1>1, <1>2, KeyKept

LEMMA KeyStep == Typed /\ (~aborted => KeyInv) /\ [Next]_vars => (~aborted => KeyInv)'
<1> SUFFICES ASSUME Typed, ~aborted => KeyInv, [Next]_vars, ~aborted' PROVE KeyInv'
  OBVIOUS
<1>1. ~aborted
  BY NotAborted
<1>2. ASSUME NEW c \in Callers, Begin(c) \/ Lock(c) \/ Take(c) \/ Step(c) PROVE KeyInv'
  BY <1>1, <1>2, KeyIdleStep, KeySealing, KeyFail DEF Step, Take, Remember
<1>3. QED
  BY <1>1, <1>2, KeyEnvironment DEF Next, Done

(* Whatever processes create, find, seal and abort at the same time, every *)
(* record opens with the key that is there (loadOrCreateKey, seal).        *)
THEOREM RecordsOpen == Spec => []Sealed
<1>1. Spec => []Typed
  BY TypedInit, TypedStep, PTL DEF Spec
<1>2. Init => (~aborted => KeyInv)
  BY KeyInit
<1>3. Spec => [](~aborted => KeyInv)
  BY <1>1, <1>2, KeyStep, PTL DEF Spec
<1>4. (~aborted => KeyInv) => Sealed
  BY DEF KeyInv, Sealed
<1>5. QED
  BY <1>3, <1>4, PTL

-----------------------------------------------------------------------------
(* Who has a refresh token of a grant, and who has one the store does not  *)
(* have yet.                                                               *)
New(c) == pc[c] \in Sealing /\ job[c].record = "token"
Has(c) == pc[c] = "refresh" \/ New(c)
Top(t) == grants[t.grant].turn

(* No token is ahead of the server; if the server rotates, one of a lost   *)
(* grant is behind, if it does not, none is.                               *)
Behind(t) ==
  /\ grants[t.grant].redeemed /\ t.turn <= Top(t)
  /\ ~rotates => t.turn = Top(t)
  /\ rotates /\ t.grant \in lost => t.turn < Top(t)
(* What is left of a grant of which c has the newest token: if it is from  *)
(* a login, nothing.                                                       *)
Superseded(c, t) ==
  t.grant = job[c].token.grant => (rotates => t.turn < Top(t)) /\ job[c].kind # "complete"
Newest(c) == LET t == job[c].token IN t.turn = Top(t) /\ (rotates => grants[t.grant].by = Home[c])

HeldInv == \A c \in Callers : Has(c) => Behind(job[c].token)
StoredInv == token.value.grant # 0 => Behind(token.value)
NewInv == \A c \in Callers : New(c) => Newest(c) /\ Superseded(c, token.value)
OthersInv == \A c, d \in Callers : New(c) /\ Has(d) /\ c # d => Superseded(c, job[d].token)
LiveInv ==
  LET t == token.value IN
    t.grant = 0 \/ t.turn = Top(t) \/ t.grant \in lost
      \/ \E c \in Callers : New(c) /\ job[c].token.grant = t.grant
LostInv == \A g \in lost : grants[g].redeemed
GrantsInv == HeldInv /\ StoredInv /\ NewInv /\ OthersInv /\ LiveInv /\ LostInv /\ SingleFlight

LEMMA HasGrant ==
  ASSUME Typed, NEW c \in Callers, Has(c)
  PROVE  /\ job[c].token \in Token /\ job[c].token.grant \in Grants
         /\ grants[job[c].token.grant] \in Grant
BY CallAt DEF Has, New, Sensible, Sealing, Job, Token, Grants, Typed, TypeOK, ServerTypes

LEMMA UnsavedIsNew ==
  ASSUME Typed, NEW c \in Callers
  PROVE  Unsaved(c) = IF New(c) THEN {job[c].token.grant} ELSE {}
<1>1. New(c) => job[c].token.grant \in Grants
  BY HasGrant DEF Has
<1>2. QED
  BY <1>1 DEF Unsaved, New, Sealing

LEMMA StoredGrant ==
  ASSUME Typed, token.value.grant # 0
  PROVE  token.value \in Token /\ token.value.grant \in Grants /\ grants[token.value.grant] \in Grant
BY DEF Typed, TypeOK, StoreTypes, ServerTypes, Token, Grants

LEMMA GrantsInit == Init => GrantsInv
<1> SUFFICES ASSUME Init PROVE GrantsInv
  OBVIOUS
<1>1. \A c \in Callers : ~Has(c) /\ ~New(c) /\ pc[c] = "idle"
  BY DEF Init, Has, New, Sealing
<1>2. \/ token.value.grant = 0
      \/ token.value.grant = 1 /\ token.value.turn = 1 /\ grants[1].turn = 1 /\ grants[1].redeemed
  <2>1. 1 \in Grants
    BY DEF Grants
  <2>2. CASE token = [key |-> 0, value |-> NoToken]
    <3>1. token.value = NoToken /\ NoToken.grant = 0
      BY <2>2 DEF NoToken
    <3>2. QED
      BY <3>1
  <2>3. CASE /\ token = [key |-> 1, value |-> [grant |-> 1, turn |-> 1, fresh |-> TRUE]]
             /\ grants = [[g \in Grants |-> NoGrant] EXCEPT ![1] =
                            [client |-> 1, redeemed |-> TRUE, turn |-> 1, by |-> NoCaller]]
    <3>1. token.value = [grant |-> 1, turn |-> 1, fresh |-> TRUE]
      BY <2>3
    <3>2. grants[1] = [client |-> 1, redeemed |-> TRUE, turn |-> 1, by |-> NoCaller]
      BY <2>1, <2>3
    <3>3. QED
      BY <3>1, <3>2
  <2>4. QED
    BY <2>2, <2>3 DEF Init
<1>3. lost = {}
  BY DEF Init
<1>4. StoredInv /\ LiveInv
  BY <1>2, <1>3 DEF StoredInv, LiveInv, Behind, Top
<1>5. QED
  BY <1>1, <1>3, <1>4 DEF GrantsInv, HeldInv, NewInv, OthersInv, LostInv, SingleFlight

(* Steps that leave tokens, grants and who has them alone. *)
SameToken(t, u) == u.grant = t.grant /\ u.turn = t.turn
Quiet ==
  /\ UNCHANGED <<rotates, lost>> /\ SameToken(token.value, token'.value)
  /\ \A g \in Grants : /\ grants'[g].turn = grants[g].turn /\ grants'[g].by = grants[g].by
                       /\ grants'[g].redeemed = grants[g].redeemed
  /\ \A c \in Callers : /\ New(c)' <=> New(c)
                        /\ pc'[c] = "refresh" => pc[c] = "refresh"
                        /\ Has(c)' => SameToken(job[c].token, job'[c].token) /\ job'[c].kind = job[c].kind

LEMMA GrantsQuiet ==
  ASSUME Typed, Typed', GrantsInv, Quiet
  PROVE  GrantsInv'
<1>1. \A c \in Callers : Has(c)' => Has(c)
  BY DEF Quiet, Has
<1>2. \A c \in Callers : Has(c)' => /\ job'[c].token.grant \in Grants /\ job'[c].token.grant = job[c].token.grant
                                    /\ job'[c].token.turn = job[c].token.turn /\ job'[c].kind = job[c].kind
  BY <1>1, HasGrant DEF Quiet, SameToken
<1>3. token'.value.grant = token.value.grant /\ token'.value.turn = token.value.turn
  BY DEF Quiet, SameToken
<1>4. token.value.grant # 0 => token.value.grant \in Grants
  BY StoredGrant
<1>5. HeldInv'
  BY <1>1, <1>2 DEF GrantsInv, HeldInv, Behind, Top, Quiet
<1>6. StoredInv'
  BY <1>3, <1>4 DEF GrantsInv, StoredInv, Behind, Top, Quiet
<1>7. NewInv'
  BY <1>1, <1>2, <1>3, <1>4 DEF GrantsInv, NewInv, Newest, Superseded, Top, Quiet, Has
<1>8. OthersInv'
  BY <1>1, <1>2 DEF GrantsInv, OthersInv, Superseded, Top, Quiet, Has
<1>9. LiveInv'
  BY <1>2, <1>3, <1>4 DEF GrantsInv, LiveInv, Top, Quiet, Has
<1>10. SingleFlight'
  BY <1>1, <1>2 DEF GrantsInv, SingleFlight, Quiet, Has
<1>11. LostInv'
  BY DEF GrantsInv, LostInv, Quiet, Typed, TypeOK, CounterTypes
<1>12. QED
  BY <1>5, <1>6, <1>7, <1>8, <1>9, <1>10, <1>11 DEF GrantsInv

LEMMA QuietCall ==
  ASSUME Typed, Typed', GrantsInv, NEW c \in Callers,
         \/ Begin(c) \/ Lock(c) \/ LoadRegistration(c) \/ RegisterDynamicClient(c)
         \/ LoadPending(c) \/ DeletePending(c) \/ (Keep(c) /\ pc[c] \in {"remember", "take"})
         \/ FindKey(c) \/ CreateKey(c) \/ FillKey(c)
         \/ Put(c) /\ job[c].record # "token"
  PROVE  GrantsInv'
<1>1. pc \in [Callers -> Places] /\ job \in [Callers -> Job]
  BY DEF Typed, TypeOK, CallTypes
<1>2. \A d \in Callers \ {c} : pc'[d] = pc[d] /\ job'[d] = job[d]
  BY <1>1 DEF Begin, Lock, LoadRegistration, RegisterDynamicClient, LoadPending, DeletePending, Keep,
              FindKey, FoundKey, CreateKey, FillKey, Put, Leave, Goto
<1>3. /\ New(c)' <=> New(c)
      /\ pc'[c] # "refresh"
      /\ New(c)' => job'[c].token = job[c].token /\ job'[c].kind = job[c].kind
  <2>1. CASE \/ Begin(c) \/ Lock(c) \/ LoadRegistration(c) \/ LoadPending(c) \/ DeletePending(c)
             \/ (Keep(c) /\ pc[c] \in {"remember", "take"})
             \/ Put(c) /\ job[c].record # "token"
    <3>1. ~New(c)
      BY <2>1 DEF Begin, Lock, LoadRegistration, LoadPending, DeletePending, Put, New, Sealing
    <3>2. pc'[c] \notin Sealing /\ pc'[c] # "refresh"
      BY <1>1, <2>1 DEF Begin, Lock, LoadRegistration, LoadPending, DeletePending, Keep, Put,
                        Leave, Goto, AfterRegistration, Sealing
    <3>3. QED
      BY <3>1, <3>2 DEF New
  <2>2. CASE RegisterDynamicClient(c)
    <3>1. pc[c] = "register" /\ pc'[c] = "find" /\ job'[c].record = "registration"
      BY <1>1, <2>2 DEF RegisterDynamicClient, Goto, Job
    <3>2. QED
      BY <3>1 DEF New, Sealing
  <2>3. CASE FindKey(c) \/ CreateKey(c) \/ FillKey(c)
    <3>1. /\ pc[c] \in Sealing /\ pc'[c] \in Sealing /\ job'[c].record = job[c].record
          /\ job'[c].token = job[c].token /\ job'[c].kind = job[c].kind
      BY <1>1, <2>3 DEF FindKey, FoundKey, CreateKey, FillKey, Goto, Sealing, Job
    <3>2. QED
      BY <3>1 DEF New, Sealing
  <2>4. QED
    BY <2>1, <2>2, <2>3
<1>4. UNCHANGED <<rotates, grants>> /\ token'.value = token.value
  BY DEF Begin, Lock, LoadRegistration, RegisterDynamicClient, LoadPending, DeletePending, Keep,
         FindKey, CreateKey, FillKey, Put, store, server
<1>5. lost' = lost
  BY DEF Begin, Lock, LoadRegistration, RegisterDynamicClient, LoadPending, DeletePending, Keep,
         FindKey, CreateKey, FillKey, Put
<1>6. Quiet
  BY <1>2, <1>3, <1>4, <1>5 DEF Quiet, SameToken, Has, New
<1>7. QED
  BY <1>6, GrantsQuiet

LEMMA QuietStart ==
  ASSUME Typed, Typed', GrantsInv, NEW c \in Callers, StartAuthorization(c)
  PROVE  GrantsInv'
<1>1. pc \in [Callers -> Places] /\ job \in [Callers -> Job] /\ grants \in [Grants -> Grant]
  BY DEF Typed, TypeOK, CallTypes, ServerTypes
<1>2. \A d \in Callers \ {c} : pc'[d] = pc[d] /\ job'[d] = job[d]
  BY <1>1 DEF StartAuthorization, Goto
<1>3. pc[c] = "authorize" /\ pc'[c] = "find" /\ job'[c].record = "pending"
  BY <1>1 DEF StartAuthorization, Goto, Job
<1>4. \A g \in Grants : /\ grants'[g].turn = grants[g].turn /\ grants'[g].by = grants[g].by
                        /\ grants'[g].redeemed = grants[g].redeemed
  BY <1>1 DEF StartAuthorization, Grant
<1>5. UNCHANGED <<rotates, lost, token>>
  BY DEF StartAuthorization, store
<1>6. Quiet
  BY <1>2, <1>3, <1>4, <1>5 DEF Quiet, SameToken, Has, New, Sealing
<1>7. QED
  BY <1>6, GrantsQuiet

LEMMA QuietTime ==
  ASSUME Typed, Typed', GrantsInv, Expire \/ Lapse \/ UNCHANGED vars
  PROVE  GrantsInv'
<1>1. \A c \in Callers : job[c] \in Job /\ job[c].token \in Token
  BY DEF Typed, TypeOK, CallTypes, Job
<1>2. token.value \in Token /\ token \in [key : KeyIds, value : Token]
  BY DEF Typed, TypeOK, StoreTypes
<1>3. CASE Expire
  <2>1. \A c \in Callers : /\ job'[c].token = Stale(job[c].token) /\ job'[c].kind = job[c].kind
                           /\ job'[c].record = job[c].record
    BY <1>1, <1>3 DEF Expire, Job
  <2>2. token'.value = Stale(token.value) /\ UNCHANGED <<rotates, lost, grants, pc>>
    BY <1>2, <1>3 DEF Expire, server
  <2>3. Quiet
    BY <1>1, <1>2, <2>1, <2>2, StaleTyped DEF Quiet, SameToken, Has, New
  <2>4. QED
    BY <2>3, GrantsQuiet
<1>4. CASE Lapse
  <2>1. \A c \in Callers : /\ job'[c].token = job[c].token /\ job'[c].kind = job[c].kind
                           /\ job'[c].record = job[c].record
    BY <1>1, <1>4 DEF Lapse, Job
  <2>2. UNCHANGED <<token, rotates, lost, grants, pc>>
    BY <1>4 DEF Lapse, server
  <2>3. Quiet
    BY <2>1, <2>2 DEF Quiet, SameToken, Has, New
  <2>4. QED
    BY <2>3, GrantsQuiet
<1>5. CASE UNCHANGED vars
  <2>1. Quiet
    BY <1>5 DEF vars, store, server, Quiet, SameToken, Has, New
  <2>2. QED
    BY <2>1, GrantsQuiet
<1>6. QED
  BY <1>3, <1>4, <1>5

(* The steps of a call that has something to do with a refresh token. *)
LEMMA GrantsComplete ==
  ASSUME Typed, Typed', GrantsInv, NEW c \in Callers, CompleteAuthorization(c)
  PROVE  GrantsInv'
<1> DEFINE g == job[c].callback
<1>1. pc \in [Callers -> Places] /\ job \in [Callers -> Job] /\ grants \in [Grants -> Grant]
  BY DEF Typed, TypeOK, CallTypes, ServerTypes
<1>2. pc[c] = "redeem" /\ g \in Grants /\ ~grants[g].redeemed /\ ~Has(c) /\ ~New(c)
  BY <1>1 DEF CompleteAuthorization, Typed, CallsInv, Sensible, Job, Grants, Has, New, Sealing
<1>3. PICK turn \in {0, 1}, fresh \in BOOLEAN :
        /\ grants' = [grants EXCEPT ![g].redeemed = TRUE, ![g].turn = turn, ![g].by = Home[c]]
        /\ \/ /\ Goto(c, "find")
              /\ job' = [job EXCEPT ![c].record = "token",
                           ![c].token = [grant |-> g, turn |-> turn, fresh |-> fresh]]
           \/ Leave(c)
  BY DEF CompleteAuthorization
<1>4. \A d \in Callers \ {c} : pc'[d] = pc[d] /\ job'[d] = job[d]
  BY <1>1, <1>3 DEF Leave, Goto
<1>5. \A h \in Grants \ {g} : grants'[h] = grants[h]
  BY <1>1, <1>3
<1>6. grants'[g].redeemed = TRUE /\ grants'[g].turn = turn /\ grants'[g].by = Home[c]
  BY <1>1, <1>2, <1>3 DEF Grant
<1>7. UNCHANGED <<rotates, lost, token>>
  BY DEF CompleteAuthorization, store
<1>8. ~Has(c)' \/ (New(c)' /\ job'[c].token.grant = g /\ job'[c].token.turn = turn /\ pc'[c] # "refresh")
  <2>1. CASE Leave(c)
    BY <1>1, <2>1 DEF Leave, Goto, Has, New, Sealing
  <2>2. CASE /\ Goto(c, "find")
             /\ job' = [job EXCEPT ![c].record = "token",
                          ![c].token = [grant |-> g, turn |-> turn, fresh |-> fresh]]
    <3>1. pc'[c] = "find" /\ job'[c] = [job[c] EXCEPT !.record = "token",
                                           !.token = [grant |-> g, turn |-> turn, fresh |-> fresh]]
      BY <1>1, <2>2 DEF Goto
    <3>2. job'[c].record = "token" /\ job'[c].token = [grant |-> g, turn |-> turn, fresh |-> fresh]
      BY <1>1, <3>1 DEF Job
    <3>3. QED
      BY <3>1, <3>2 DEF New, Sealing
  <2>3. QED
    BY <1>3, <2>1, <2>2
<1>9. \A d \in Callers \ {c} : (New(d)' <=> New(d)) /\ (Has(d)' <=> Has(d))
  BY <1>4 DEF New, Has
<1>10. \A d \in Callers : Has(d) => job[d].token.grant \in Grants \ {g}
  BY <1>2, HasGrant DEF GrantsInv, HeldInv, Behind
<1>11. token.value.grant # 0 => token.value.grant \in Grants \ {g}
  BY <1>2, StoredGrant DEF GrantsInv, StoredInv, Behind
<1>12. New(c)' => Has(c)'
  BY DEF Has
<1>13. g # 0 /\ g \notin lost
  BY <1>2 DEF Grants, GrantsInv, LostInv
<1> HIDE DEF g
<1>14. HeldInv'
  BY <1>4, <1>5, <1>6, <1>7, <1>8, <1>9, <1>10, <1>13 DEF GrantsInv, HeldInv, Behind, Top
<1>15. StoredInv'
  BY <1>5, <1>7, <1>11 DEF GrantsInv, StoredInv, Behind, Top
<1>16. NewInv'
  <2>1. ASSUME NEW d \in Callers, New(d)' PROVE (Newest(d) /\ Superseded(d, token.value))'
    <3>1. CASE d = c
      BY <1>6, <1>7, <1>8, <1>11, <1>12, <1>13, <2>1, <3>1 DEF Newest, Superseded, Top
    <3>2. CASE d # c
      BY <1>4, <1>5, <1>7, <1>9, <1>10, <1>11, <2>1, <3>2
         DEF GrantsInv, NewInv, Newest, Superseded, Top, Has
    <3>3. QED
      BY <3>1, <3>2
  <2>2. QED
    BY <2>1 DEF NewInv
<1>17. OthersInv'
  <2>1. ASSUME NEW d \in Callers, NEW e \in Callers, New(d)', Has(e)', d # e
        PROVE  Superseded(d, job[e].token)'
    <3>1. CASE d = c
      BY <1>4, <1>8, <1>9, <1>10, <1>12, <2>1, <3>1 DEF Superseded
    <3>2. CASE e = c
      BY <1>4, <1>8, <1>9, <1>10, <2>1, <3>2 DEF Superseded, Has
    <3>3. CASE d # c /\ e # c
      BY <1>4, <1>5, <1>7, <1>9, <1>10, <2>1, <3>3 DEF GrantsInv, OthersInv, Superseded, Top, Has
    <3>4. QED
      BY <3>1, <3>2, <3>3
  <2>2. QED
    BY <2>1 DEF OthersInv
<1>18. LiveInv'
  BY <1>2, <1>4, <1>5, <1>7, <1>9, <1>11 DEF GrantsInv, LiveInv, Top
<1>19. LostInv'
  BY <1>5, <1>6, <1>7 DEF GrantsInv, LostInv, Typed, TypeOK, CounterTypes
<1>20. SingleFlight'
  <2>1. \A d \in Callers : pc'[d] = "refresh" => d # c /\ Has(d)
    BY <1>4, <1>8 DEF Has
  <2>2. QED
    BY <1>4, <1>5, <1>7, <1>10, <2>1 DEF GrantsInv, SingleFlight
<1>21. QED
  BY <1>14, <1>15, <1>16, <1>17, <1>18, <1>19, <1>20 DEF GrantsInv

LEMMA GrantsLoad ==
  ASSUME Typed, Typed', GrantsInv, NEW c \in Callers, LoadToken(c)
  PROVE  GrantsInv'
<1> DEFINE t == token.value
<1>1. pc \in [Callers -> Places] /\ job \in [Callers -> Job]
  BY DEF Typed, TypeOK, CallTypes
<1>2. \A d \in Callers \ {c} : pc'[d] = pc[d] /\ job'[d] = job[d]
  BY <1>1 DEF LoadToken, Goto
<1>3. /\ pc[c] = "load" /\ job[c].kind = "acquire" /\ ~Has(c) /\ ~New(c) /\ t.grant # 0
      /\ job'[c].token = t /\ pc'[c] \in {"remember", "refresh"}
  BY <1>1 DEF LoadToken, Goto, Typed, CallsInv, Sensible, Has, New, Sealing, Job
<1>4. UNCHANGED <<rotates, lost, token, grants>>
  BY DEF LoadToken, store, server
<1>5. CASE pc'[c] = "remember"
  <2>1. Quiet
    BY <1>2, <1>3, <1>4, <1>5 DEF Quiet, SameToken, Has, New, Sealing
  <2>2. QED
    BY <2>1, GrantsQuiet
<1>6. CASE pc'[c] = "refresh"
  <2>1. t \in Token /\ t.grant \in Grants /\ Behind(t)
    BY <1>3, StoredGrant DEF GrantsInv, StoredInv
  <2>2. /\ ~New(c)'
        /\ \A d \in Callers \ {c} : (New(d)' <=> New(d)) /\ (Has(d)' <=> Has(d))
    BY <1>2, <1>6 DEF New, Has, Sealing
  <2>3. HeldInv' /\ StoredInv' /\ NewInv' /\ LiveInv' /\ LostInv'
    BY <1>2, <1>3, <1>4, <2>1, <2>2 DEF GrantsInv, HeldInv, StoredInv, NewInv, LiveInv, LostInv, Behind, Top,
                                        Newest, Superseded
  <2>4. OthersInv'
    BY <1>2, <1>3, <1>4, <2>2 DEF GrantsInv, OthersInv, NewInv, Superseded, Top
  <2>5. t.turn = Top(t) \/ t.grant \in lost \/ grants[t.grant].by # Home[c]
    <3>1. SUFFICES ASSUME rotates, NEW d \in Callers, New(d), job[d].token.grant = t.grant
                   PROVE  grants[t.grant].by # Home[c]
      BY <1>3, <2>1 DEF GrantsInv, LiveInv, Behind, Typed, TypeOK, ServerTypes
    <3>2. grants[t.grant].by = Home[d] /\ job[d].kind # "complete" /\ d # c
      BY <1>3, <3>1 DEF GrantsInv, NewInv, Newest, Superseded
    <3>3. job[d].kind = "acquire" /\ pc[d] \notin {"idle", "lock"}
      BY <3>1, <3>2 DEF Typed, CallsInv, Sensible, New, Sealing
    <3>4. mu[Home[d]] = d /\ mu[Home[c]] = c
      BY <1>3, <3>3 DEF Typed, CallsInv, HasMutex
    <3>5. QED
      BY <3>2, <3>4
  <2>6. SingleFlight'
    BY <1>2, <1>3, <1>4, <2>5 DEF GrantsInv, SingleFlight, Top
  <2>7. QED
    BY <2>3, <2>4, <2>6 DEF GrantsInv
<1>7. QED
  BY <1>3, <1>5, <1>6

LEMMA GrantsPut ==
  ASSUME Typed, Typed', GrantsInv, NEW c \in Callers, Put(c), job[c].record = "token"
  PROVE  GrantsInv'
<1>1. pc \in [Callers -> Places] /\ job \in [Callers -> Job]
  BY DEF Typed, TypeOK, CallTypes
<1>2. /\ New(c) /\ UNCHANGED <<job, rotates, grants, lost>> /\ token'.value = job[c].token
      /\ pc'[c] \in {"remember", "forget"}
      /\ \A d \in Callers \ {c} : pc'[d] = pc[d]
  BY <1>1 DEF Put, Goto, New, Sealing, server
<1>3. /\ ~Has(c)' /\ ~New(c)'
      /\ \A d \in Callers \ {c} : (New(d)' <=> New(d)) /\ (Has(d)' <=> Has(d))
  BY <1>2 DEF New, Has, Sealing
<1>4. Has(c) /\ Behind(job[c].token) /\ Newest(c)
  BY <1>2 DEF Has, GrantsInv, HeldInv, NewInv
<1>5. HeldInv' /\ StoredInv' /\ OthersInv' /\ LostInv'
  BY <1>2, <1>3, <1>4 DEF GrantsInv, HeldInv, StoredInv, OthersInv, LostInv, Behind, Top, Superseded
<1>6. NewInv'
  BY <1>2, <1>3, <1>4 DEF GrantsInv, NewInv, OthersInv, Newest, Superseded, Top
<1>7. LiveInv'
  BY <1>2, <1>4 DEF LiveInv, Newest, Top
<1>8. SingleFlight'
  BY <1>2 DEF GrantsInv, SingleFlight
<1>9. QED
  BY <1>5, <1>6, <1>7, <1>8 DEF GrantsInv

(* Calls end, and what they had in hand goes. *)
LEMMA GrantsEnd ==
  ASSUME Typed, Typed', GrantsInv, NEW G \in SUBSET Callers,
         \A d \in Callers \ G : pc'[d] = pc[d] /\ job'[d] = job[d],
         \A d \in G : pc'[d] = "idle",
         UNCHANGED <<rotates, grants>>, token'.value = token.value,
         lost' = lost \cup UNION {Dropped(d) : d \in G}
  PROVE  GrantsInv'
<1>1. /\ \A d \in G : ~New(d)' /\ ~Has(d)' /\ pc'[d] # "refresh"
      /\ \A d \in Callers \ G : (New(d)' <=> New(d)) /\ (Has(d)' <=> Has(d))
  BY DEF New, Has, Sealing
<1>2. lost \subseteq lost'
  OBVIOUS
<1>3. \A g \in lost' : g \notin lost => rotates /\ \E d \in G : New(d) /\ job[d].token.grant = g
  BY UnsavedIsNew DEF Dropped
<1>4. \A d \in G : New(d) /\ rotates => job[d].token.grant \in lost'
  BY UnsavedIsNew DEF Dropped
<1>5. HeldInv'
  BY <1>1, <1>3 DEF GrantsInv, HeldInv, OthersInv, Behind, Superseded, Top
<1>6. StoredInv'
  BY <1>3 DEF GrantsInv, StoredInv, NewInv, Behind, Superseded, Top
<1>7. NewInv' /\ OthersInv'
  BY <1>1 DEF GrantsInv, NewInv, OthersInv, Newest, Superseded, Top
<1>8. LiveInv'
  <2>1. CASE rotates
    BY <1>1, <1>2, <1>4, <2>1 DEF GrantsInv, LiveInv, Top
  <2>2. CASE ~rotates
    BY <2>2 DEF GrantsInv, LiveInv, StoredInv, Behind, Top
  <2>3. QED
    BY <2>1, <2>2
<1>9. LostInv'
  BY <1>3 DEF GrantsInv, LostInv, HeldInv, Behind, Has
<1>10. SingleFlight'
  BY <1>1, <1>2 DEF GrantsInv, SingleFlight
<1>11. QED
  BY <1>5, <1>6, <1>7, <1>8, <1>9, <1>10 DEF GrantsInv

LEMMA GrantsFail ==
  ASSUME Typed, Typed', GrantsInv, NEW c \in Callers, Fail(c)
  PROVE  GrantsInv'
<1>1. pc \in [Callers -> Places] /\ job \in [Callers -> Job]
  BY DEF Typed, TypeOK, CallTypes
<1>2. /\ \A d \in Callers \ {c} : pc'[d] = pc[d] /\ job'[d] = job[d]
      /\ pc'[c] = "idle" /\ UNCHANGED <<rotates, grants, token>>
  BY <1>1 DEF Fail, Leave, Goto, server
<1>3. lost' = lost \cup UNION {Dropped(d) : d \in {c}}
  BY DEF Fail
<1> DEFINE G == {c}
<1>4. /\ G \in SUBSET Callers /\ token'.value = token.value
      /\ \A d \in Callers \ G : pc'[d] = pc[d] /\ job'[d] = job[d]
      /\ \A d \in G : pc'[d] = "idle"
      /\ lost' = lost \cup UNION {Dropped(d) : d \in G}
  BY <1>2, <1>3
<1> HIDE DEF G
<1>5. QED
  BY <1>2, <1>4, GrantsEnd

LEMMA GrantsExit ==
  ASSUME Typed, Typed', GrantsInv, NEW p \in Homes, Exit(p)
  PROVE  GrantsInv'
<1> DEFINE G == {c \in Callers : Home[c] = p}
<1>1. pc \in [Callers -> Places] /\ job \in [Callers -> Job]
  BY DEF Typed, TypeOK, CallTypes
<1>2. /\ \A d \in Callers \ G : pc'[d] = pc[d] /\ job'[d] = job[d]
      /\ \A d \in G : pc'[d] = "idle"
      /\ UNCHANGED <<rotates, grants, token>>
      /\ lost' = lost \cup UNION {Dropped(d) : d \in G}
  BY <1>1 DEF Exit, store, server
<1>3. QED
  BY <1>2, GrantsEnd

LEMMA GrantsRefresh ==
  ASSUME Typed, Typed', GrantsInv, NEW c \in Callers, Refresh(c)
  PROVE  GrantsInv'
<1> DEFINE old == job[c].token
           g == old.grant
<1>1. /\ pc \in [Callers -> Places] /\ job \in [Callers -> Job] /\ grants \in [Grants -> Grant]
      /\ rotates \in BOOLEAN
  BY DEF Typed, TypeOK, CallTypes, ServerTypes
<1>2. pc[c] = "refresh" /\ job[c].kind = "acquire" /\ Has(c) /\ ~New(c)
  BY DEF Refresh, Typed, CallsInv, Sensible, Has, New, Sealing
<1>3. old \in Token /\ g \in Grants /\ grants[g] \in Grant /\ old.turn = grants[g].turn /\ Behind(old)
  BY <1>2, HasGrant DEF Refresh, Honoured, GrantsInv, HeldInv
<1>4. PICK fresh \in BOOLEAN :
        /\ grants' = [grants EXCEPT ![g].turn = IF rotates THEN @ + 1 ELSE @, ![g].by = Home[c]]
        /\ \/ /\ Goto(c, "find") /\ lost' = lost
              /\ job' = [job EXCEPT ![c].record = "token", ![c].token = Refreshed(old, fresh)]
           \/ Leave(c) /\ lost' = IF rotates THEN lost \cup {g} ELSE lost
  BY DEF Refresh
<1>5. \A d \in Callers \ {c} : pc'[d] = pc[d] /\ job'[d] = job[d]
  BY <1>1, <1>4 DEF Leave, Goto
<1>6. \A h \in Grants \ {g} : grants'[h] = grants[h]
  BY <1>1, <1>4
<1>7. /\ grants'[g].redeemed = grants[g].redeemed /\ grants'[g].by = Home[c]
      /\ grants'[g].turn = IF rotates THEN grants[g].turn + 1 ELSE grants[g].turn
  <2>1. grants'[g] = [grants[g] EXCEPT !.turn = IF rotates THEN @ + 1 ELSE @, !.by = Home[c]]
    BY <1>1, <1>3, <1>4
  <2>2. QED
    BY <1>3, <2>1 DEF Grant
<1>8. UNCHANGED <<rotates, token>>
  BY DEF Refresh, store
<1>9. pc'[c] # "refresh" /\ (New(c)' => job'[c].token = Refreshed(old, fresh) /\ job'[c].kind = "acquire")
  <2>1. CASE Leave(c)
    BY <1>1, <2>1 DEF Leave, Goto, New, Sealing
  <2>2. CASE /\ Goto(c, "find")
             /\ job' = [job EXCEPT ![c].record = "token", ![c].token = Refreshed(old, fresh)]
    BY <1>1, <1>2, <2>2 DEF Goto, Job
  <2>3. QED
    BY <1>4, <2>1, <2>2
<1>10. \/ New(c)' /\ lost' = lost
       \/ ~New(c)' /\ lost' = IF rotates THEN lost \cup {g} ELSE lost
  <2>1. CASE Leave(c) /\ lost' = IF rotates THEN lost \cup {g} ELSE lost
    BY <1>1, <2>1 DEF Leave, Goto, New, Sealing
  <2>2. CASE /\ Goto(c, "find") /\ lost' = lost
             /\ job' = [job EXCEPT ![c].record = "token", ![c].token = Refreshed(old, fresh)]
    BY <1>1, <2>2 DEF Goto, Job, New, Sealing
  <2>3. QED
    BY <1>4, <2>1, <2>2
<1>11. New(c)' => /\ job'[c].token.grant = g /\ job'[c].token.turn = grants'[g].turn
                  /\ job'[c].kind = "acquire"
  BY <1>3, <1>7, <1>9, RefreshedTyped
<1>12. \A d \in Callers \ {c} : (New(d)' <=> New(d)) /\ (Has(d)' <=> Has(d))
  BY <1>5 DEF New, Has
<1>13. \A d \in Callers : New(d) /\ d # c /\ job[d].token.grant = g => ~rotates /\ job[d].kind # "complete"
  BY <1>2, <1>3 DEF GrantsInv, OthersInv, Superseded, Top, Token, Grant
<1>14. \A d \in Callers : Has(d) => job[d].token.grant \in Grants /\ job[d].token.turn \in Nat
  BY HasGrant DEF Token
<1>15. token.value.grant # 0 => token.value.grant \in Grants /\ token.value.turn \in Nat
  BY StoredGrant DEF Token
<1>16. Has(c)' => New(c)'
  BY <1>9 DEF Has
<1>17. rotates => g \notin lost
  BY <1>3 DEF Behind, Top, Grant
<1>18. grants[g].turn \in Nat /\ g # 0 /\ grants[g].redeemed
  BY <1>3 DEF Grant, Grants, Behind
<1>19. \A h \in Grants : grants'[h].turn \in Nat
  BY DEF Typed, TypeOK, ServerTypes, Grant
<1> HIDE DEF old, g
<1>20. HeldInv'
  <2>1. ASSUME NEW d \in Callers, Has(d)' PROVE Behind(job[d].token)'
    <3>1. CASE d = c
      <4>1. New(c)' /\ lost' = lost /\ job'[d].token.grant = g /\ job'[d].token.turn = grants'[g].turn
        BY <1>10, <1>11, <1>16, <2>1, <3>1
      <4>2. grants'[g].redeemed /\ grants'[g].turn \in Nat
        BY <1>3, <1>7, <1>18, <1>19
      <4>3. QED
        BY <1>1, <1>8, <1>17, <4>1, <4>2 DEF Behind, Top
    <3>2. CASE d # c /\ job[d].token.grant = g
      <4>1. Behind(job[d].token) /\ job[d].token.turn \in Nat /\ job'[d] = job[d]
        BY <1>5, <1>12, <1>14, <2>1, <3>2 DEF GrantsInv, HeldInv
      <4>2. job[d].token.turn <= grants'[g].turn /\ (rotates => job[d].token.turn < grants'[g].turn)
        BY <1>7, <1>18, <3>2, <4>1 DEF Behind, Top
      <4>3. (~rotates => job[d].token.turn = grants'[g].turn) /\ grants'[g].redeemed
        BY <1>7, <1>18, <3>2, <4>1 DEF Behind, Top
      <4>4. QED
        BY <1>8, <3>2, <4>1, <4>2, <4>3 DEF Behind, Top
    <3>3. CASE d # c /\ job[d].token.grant # g
      BY <1>5, <1>6, <1>8, <1>10, <1>12, <1>14, <2>1, <3>3 DEF GrantsInv, HeldInv, Behind, Top
    <3>4. QED
      BY <3>1, <3>2, <3>3
  <2>2. QED
    BY <2>1 DEF HeldInv
<1>21. StoredInv'
  <2>1. CASE token.value.grant = g
    <3>1. Behind(token.value) /\ token.value.turn \in Nat
      BY <1>15, <1>18, <2>1 DEF GrantsInv, StoredInv
    <3>2. grants'[g].redeemed /\ token'.value = token.value
      BY <1>7, <1>8, <1>18
    <3>3. token.value.turn <= grants'[g].turn /\ (rotates => token.value.turn < grants'[g].turn)
      BY <1>7, <1>18, <2>1, <3>1 DEF Behind, Top
    <3>4. ~rotates => token.value.turn = grants'[g].turn
      BY <1>7, <2>1, <3>1 DEF Behind, Top
    <3>5. QED
      BY <1>8, <2>1, <3>2, <3>3, <3>4 DEF StoredInv, Behind, Top
  <2>2. CASE token.value.grant # g
    BY <1>6, <1>8, <1>10, <1>15, <2>2 DEF GrantsInv, StoredInv, Behind, Top
  <2>3. QED
    BY <2>1, <2>2
<1>22. NewInv'
  <2>1. ASSUME NEW d \in Callers, New(d)' PROVE (Newest(d) /\ Superseded(d, token.value))'
    <3>1. CASE d = c
      <4>1. Newest(c)'
        BY <1>7, <1>11, <2>1, <3>1 DEF Newest, Top
      <4>2. rotates /\ token.value.grant = g => token.value.turn < grants'[g].turn
        BY <1>7, <1>15, <1>18 DEF GrantsInv, StoredInv, Behind, Top
      <4>3. QED
        BY <1>8, <1>11, <2>1, <3>1, <4>1, <4>2 DEF Superseded, Top
    <3>2. CASE d # c
      <4>1. New(d) /\ Has(d) /\ Newest(d) /\ Superseded(d, token.value)
        BY <1>12, <2>1, <3>2 DEF GrantsInv, NewInv, Has
      <4>2. CASE job[d].token.grant = g
        BY <1>5, <1>7, <1>8, <1>13, <2>1, <3>2, <4>1, <4>2 DEF Newest, Superseded, Top
      <4>3. CASE job[d].token.grant # g
        BY <1>5, <1>6, <1>8, <1>14, <2>1, <3>2, <4>1, <4>3 DEF Newest, Superseded, Top
      <4>4. QED
        BY <4>2, <4>3
    <3>3. QED
      BY <3>1, <3>2
  <2>2. QED
    BY <2>1 DEF NewInv
<1>23. OthersInv'
  <2>1. ASSUME NEW d \in Callers, NEW e \in Callers, New(d)', Has(e)', d # e
        PROVE  Superseded(d, job[e].token)'
    <3>1. CASE d = c
      <4>1. rotates /\ job[e].token.grant = g => job[e].token.turn < grants'[g].turn
        BY <1>7, <1>12, <1>14, <1>18, <2>1, <3>1 DEF GrantsInv, HeldInv, Behind, Top
      <4>2. QED
        BY <1>5, <1>8, <1>11, <2>1, <3>1, <4>1 DEF Superseded, Top
    <3>2. CASE e = c
      <4>1. New(d) /\ job'[d] = job[d] /\ job'[e].token.grant = g
        BY <1>5, <1>11, <1>12, <1>16, <2>1, <3>2
      <4>2. QED
        BY <1>8, <1>13, <2>1, <3>2, <4>1 DEF Superseded
    <3>3. CASE d # c /\ e # c
      <4>1. New(d) /\ Has(e) /\ Has(d) /\ Superseded(d, job[e].token) /\ job'[d] = job[d] /\ job'[e] = job[e]
        BY <1>5, <1>12, <2>1, <3>3 DEF GrantsInv, OthersInv, Has
      <4>2. CASE job[d].token.grant = g
        BY <1>8, <1>13, <3>3, <4>1, <4>2 DEF Superseded
      <4>3. CASE job[d].token.grant # g
        BY <1>6, <1>8, <1>14, <4>1, <4>3 DEF Superseded, Top
      <4>4. QED
        BY <4>2, <4>3
    <3>4. QED
      BY <3>1, <3>2, <3>3
  <2>2. QED
    BY <2>1 DEF OthersInv
<1>24. LiveInv'
  <2>1. CASE token.value.grant = g
    BY <1>7, <1>8, <1>10, <1>11, <1>18, <2>1, <1>1, <1>5, <1>12, <1>2 DEF GrantsInv, LiveInv, Top
  <2>2. CASE token.value.grant # g
    BY <1>2, <1>5, <1>6, <1>8, <1>10, <1>12, <1>15, <2>2 DEF GrantsInv, LiveInv, Top
  <2>3. QED
    BY <2>1, <2>2
<1>25. LostInv'
  <2>1. \A h \in Grants : grants[h].redeemed => grants'[h].redeemed
    BY <1>6, <1>7
  <2>2. QED
    BY <1>3, <1>10, <1>18, <2>1 DEF GrantsInv, LostInv, Typed, TypeOK, CounterTypes
<1>26. SingleFlight'
  <2>1. ASSUME NEW d \in Callers, pc'[d] = "refresh"
        PROVE  LET t == job'[d].token IN
                 t.turn = grants'[t.grant].turn \/ t.grant \in lost' \/ grants'[t.grant].by # Home[d]
    <3>1. d # c /\ pc[d] = "refresh" /\ Has(d) /\ job'[d] = job[d]
      BY <1>5, <1>9, <2>1 DEF Has
    <3>2. CASE job[d].token.grant = g
      <4>1. mu[Home[c]] = c /\ mu[Home[d]] = d
        BY <1>2, <3>1 DEF Typed, CallsInv, Sensible, HasMutex
      <4>2. Home[d] # Home[c]
        BY <3>1, <4>1
      <4>3. QED
        BY <1>7, <3>1, <3>2, <4>2
    <3>3. CASE job[d].token.grant # g
      BY <1>6, <1>10, <1>14, <3>1, <3>3 DEF GrantsInv, SingleFlight
    <3>4. QED
      BY <3>2, <3>3
  <2>2. QED
    BY <2>1 DEF SingleFlight
<1>27. QED
  BY <1>20, <1>21, <1>22, <1>23, <1>24, <1>25, <1>26 DEF GrantsInv

LEMMA GrantsStep == Typed /\ GrantsInv /\ [Next]_vars => GrantsInv'
<1> SUFFICES ASSUME Typed, GrantsInv, [Next]_vars PROVE GrantsInv'
  OBVIOUS
<1>1. Typed'
  BY TypedStep
<1>2. CASE \E c \in Callers : Begin(c) \/ Lock(c) \/ Take(c) \/ Step(c)
  <2>1. PICK c \in Callers : Begin(c) \/ Lock(c) \/ Take(c) \/ Step(c)
    BY <1>2
  <2>2. CASE \/ Begin(c) \/ Lock(c) \/ Take(c) \/ Remember(c) \/ LoadRegistration(c)
             \/ RegisterDynamicClient(c) \/ LoadPending(c) \/ DeletePending(c)
             \/ FindKey(c) \/ CreateKey(c) \/ FillKey(c)
    <3>1. Take(c) \/ Remember(c) => Keep(c) /\ pc[c] \in {"remember", "take"}
      BY DEF Take, Remember
    <3>2. QED
      BY <1>1, <2>2, <3>1, QuietCall
  <2>3. CASE Put(c)
    BY <1>1, <2>3, QuietCall, GrantsPut
  <2>4. CASE StartAuthorization(c) \/ CompleteAuthorization(c) \/ LoadToken(c) \/ Refresh(c) \/ Fail(c)
    BY <1>1, <2>4, QuietStart, GrantsComplete, GrantsLoad, GrantsRefresh, GrantsFail
  <2>5. QED
    BY <2>1, <2>2, <2>3, <2>4 DEF Step
<1>3. CASE \E p \in Homes : Exit(p)
  BY <1>1, <1>3, GrantsExit
<1>4. CASE Expire \/ Lapse \/ Done \/ UNCHANGED vars
  BY <1>1, <1>4, QuietTime DEF Done
<1>5. QED
  BY <1>2, <1>3, <1>4 DEF Next

LEMMA GrantsAlways == Spec => []GrantsInv
BY TypedInit, TypedStep, GrantsInit, GrantsStep, PTL DEF Spec

(* SingleFlight: acquireOAuth holds tokenMu from the look into memory to   *)
(* its end, so two calls of a process never present one refresh token, and *)
(* what it presents is the newest there is.                                *)
THEOREM FlightsSingle == Spec => []SingleFlight
<1>1. GrantsInv => SingleFlight
  BY DEF GrantsInv
<1>2. QED
  BY <1>1, GrantsAlways, PTL

(* StoreLive: a token is saved by the call that has received it before     *)
(* anything else, and no later Save puts an older one in its place         *)
(* (refreshOAuth, CompleteOAuthLogin), whatever fails or exits on the way. *)
THEOREM StoreKeepsUp == Spec => []StoreLive
<1>1. Typed /\ GrantsInv => StoreLive
  <2> SUFFICES ASSUME Typed, GrantsInv PROVE StoreLive
    OBVIOUS
  <2>1. \A c \in Callers : New(c) => job[c].token.grant \in Unsaved(c)
    BY UnsavedIsNew
  <2>2. QED
    BY <2>1 DEF GrantsInv, LiveInv, StoreLive, Top
<1>2. Spec => []Typed
  BY TypedInit, TypedStep, PTL DEF Spec
<1>3. QED
  BY <1>1, <1>2, GrantsAlways, PTL

(* Renewable: what a refresh stores is the newest refresh token of its     *)
(* grant (refreshOAuth keeps the old one if the answer has none), and the  *)
(* newest of a grant that had one is one.                                  *)
THEOREM LoginsStayRenewable == Spec => Renewable
<1>1. ASSUME Typed, GrantsInv, [Next]_vars
      PROVE  [token'.value.grant = token.value.grant /\ token.value.turn # 0 => token'.value.turn # 0]_vars
  <2>1. SUFFICES ASSUME token'.value.grant = token.value.grant, token.value.turn # 0, Next
                 PROVE  token'.value.turn # 0
    BY <1>1 DEF vars, store
  <2>2. CASE token' = token
    BY <2>1, <2>2
  <2>3. CASE Expire
    <3>1. token'.value = Stale(token.value)
      BY <1>1, <2>3 DEF Expire, Typed, TypeOK, StoreTypes
    <3>2. token'.value.turn = token.value.turn
      BY <1>1, <3>1 DEF Stale, Typed, TypeOK, StoreTypes, Token
    <3>3. QED
      BY <2>1, <3>2
  <2>4. ASSUME NEW c \in Callers, Put(c), job[c].record = "token" PROVE token'.value.turn # 0
    <3>1. New(c) /\ Has(c) /\ token'.value = job[c].token
      BY <2>4 DEF Put, New, Has, Sealing
    <3>2. job[c].token.turn = Top(job[c].token) /\ job[c].token.grant \in Grants
      BY <1>1, <3>1, HasGrant DEF GrantsInv, NewInv, Newest
    <3>3. token.value.grant \in Grants /\ token.value.grant # 0
      BY <2>1, <3>1, <3>2 DEF Grants
    <3>4. token.value.turn <= Top(token.value) /\ token.value \in Token /\ grants[token.value.grant] \in Grant
      BY <1>1, <3>3, StoredGrant DEF GrantsInv, StoredInv, Behind
    <3>5. Top(token.value) = Top(job[c].token)
      BY <2>1, <3>1 DEF Top
    <3>6. token.value.turn \in Nat /\ Top(token.value) \in Nat
      BY <3>4 DEF Token, Top, Grant
    <3>7. QED
      BY <2>1, <3>1, <3>2, <3>4, <3>5, <3>6
  <2>5. token' = token \/ Expire \/ \E c \in Callers : Put(c) /\ job[c].record = "token"
    <3>1. ASSUME NEW c \in Callers, Begin(c) \/ Lock(c) \/ Take(c) \/ Step(c)
          PROVE  token' = token \/ (Put(c) /\ job[c].record = "token")
      <4>1. CASE Put(c)
        BY <4>1 DEF Put
      <4>2. CASE ~Put(c)
        BY <3>1, <4>2 DEF Begin, Lock, Take, Keep, Step, LoadRegistration, RegisterDynamicClient,
           StartAuthorization, LoadPending, CompleteAuthorization, LoadToken, Refresh, DeletePending,
           Remember, FindKey, CreateKey, FillKey, Fail, store
      <4>3. QED
        BY <4>1, <4>2
    <3>2. Lapse \/ Done \/ (\E p \in Homes : Exit(p)) => token' = token
      BY DEF Lapse, Done, Exit, store, vars
    <3>3. QED
      BY <2>1, <3>1, <3>2 DEF Next
  <2>6. QED
    BY <2>2, <2>3, <2>4, <2>5
<1>2. Spec => []Typed
  BY TypedInit, TypedStep, PTL DEF Spec
<1>3. QED
  BY <1>1, <1>2, GrantsAlways, PTL DEF Spec, Renewable
=============================================================================
