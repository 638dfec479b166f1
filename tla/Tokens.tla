------------------------------- MODULE Tokens -------------------------------
(***************************************************************************)
(* Tokens of an authorization-code profile: internal/auth (pkce.go,        *)
(* oauth.go, registration.go, tokenstore.go) and their callers in          *)
(* internal/trust/config.go.                                               *)
(*                                                                         *)
(* One profile whose client is registered dynamically.  A call acquires a  *)
(* token, starts a login or completes one; calls of one process share its  *)
(* Config (memory and mutex), processes share the key file and the three   *)
(* sealed records.  A record knows the key it is sealed under; a grant is  *)
(* the login attempt it came from, a refresh token the number of times the *)
(* authorization server has rotated it.                                    *)
(***************************************************************************)
EXTENDS Integers

CONSTANTS
  Callers,    \* calls in progress at one time
  Homes,      \* processes
  Home,       \* the process a caller belongs to
  NoCaller,   \* the mutex is free
  MaxCalls,   \* bound: calls
  MaxLogins   \* bound: logins started

ASSUME TokensAssumption ==
  /\ Home \in [Callers -> Homes] /\ NoCaller \notin Callers
  /\ MaxCalls \in Nat /\ MaxLogins \in Nat \ {0}

Grants == 1..MaxLogins
Clients == Nat   \* 0: not registered yet
KeyIds == Nat    \* 0: no file, nothing sealed
Token == [grant : 0..MaxLogins, turn : Nat, fresh : BOOLEAN]  \* grant 0: no token
Pending == [grant : 0..MaxLogins, client : Clients, lapsed : BOOLEAN]
Job == [kind : {"none", "acquire", "start", "complete"}, key : KeyIds, client : Clients,
        token : Token, pending : Pending, callback : 0..MaxLogins, record : {"none", "registration", "pending", "token"}]
Grant == [client : Clients, redeemed : BOOLEAN, turn : Nat, by : Homes \cup {NoCaller}]

NoToken == [grant |-> 0, turn |-> 0, fresh |-> FALSE]
NoPending == [grant |-> 0, client |-> 0, lapsed |-> FALSE]
NoGrant == [client |-> 0, redeemed |-> FALSE, turn |-> 0, by |-> NoCaller]
NoJob == [kind |-> "none", key |-> 0, client |-> 0, token |-> NoToken, pending |-> NoPending,
          callback |-> 0, record |-> "none"]

VARIABLES
  keyfile, filled, keys,           \* the key file: which key, all of its bytes; keys made so far
  registration, pending, token,    \* the sealed records: [key, value]
  mem, mu,                         \* c.tokens[profile] and c.tokenMu of each process
  pc, job,                         \* the calls
  rotates, grants, clients,        \* the authorization server
  lost,                            \* history: grants whose last refresh token nobody received
  aborted,                         \* history: a complete key was removed again
  calls, logins

store == <<keyfile, filled, keys, registration, pending, token>>
server == <<rotates, grants, clients>>
vars == <<store, mem, mu, pc, job, server, lost, aborted, calls, logins>>

(* Nothing is there yet, or the first login has been done before. *)
Init ==
  /\ pending = [key |-> 0, value |-> NoPending]
  /\ \/ /\ keyfile = 0 /\ keys = 0 /\ filled = FALSE /\ clients = 0 /\ logins = 0
        /\ registration = [key |-> 0, value |-> 0]
        /\ token = [key |-> 0, value |-> NoToken]
        /\ grants = [g \in Grants |-> NoGrant]
     \/ /\ keyfile = 1 /\ keys = 1 /\ filled = TRUE /\ clients = 1 /\ logins = 1
        /\ registration = [key |-> 1, value |-> 1]
        /\ token = [key |-> 1, value |-> [grant |-> 1, turn |-> 1, fresh |-> TRUE]]
        /\ grants = [[g \in Grants |-> NoGrant] EXCEPT ![1] =
                       [client |-> 1, redeemed |-> TRUE, turn |-> 1, by |-> NoCaller]]
  /\ mem = [p \in Homes |-> NoToken] /\ mu = [p \in Homes |-> NoCaller]
  /\ pc = [c \in Callers |-> "idle"] /\ job = [c \in Callers |-> NoJob]
  /\ rotates \in BOOLEAN /\ lost = {} /\ aborted = FALSE /\ calls = 0

-----------------------------------------------------------------------------
(* Moves of a call. *)
Goto(c, l) == pc' = [pc EXCEPT ![c] = l]
(* mutant: returns without unlocking *)
LeaveLocked(c) == Goto(c, "idle") /\ job' = [job EXCEPT ![c] = NoJob] /\ UNCHANGED mu
Leave(c) == /\ Goto(c, "idle") /\ job' = [job EXCEPT ![c] = NoJob]
            /\ mu' = [p \in Homes |-> IF mu[p] = c THEN NoCaller ELSE mu[p]]

(* A token in a call's hands that the store does not have yet. *)
Unsaved(c) == {g \in Grants : /\ pc[c] \in {"find", "create", "fill", "sync", "put"}
                              /\ job[c].record = "token" /\ job[c].token.grant = g}

Readable(record) == record.key # 0 /\ record.key = keyfile /\ filled
(* open: os.ErrNotExist without the key or without the record; any other error fails the call. *)
Absent(record) == keyfile = 0 \/ (filled /\ record.key = 0)

AfterRegistration(c) == IF job[c].kind = "acquire" THEN "load" ELSE "authorize"

(* acquireOAuth, StartOAuthLogin and CompleteOAuthLogin are called; the    *)
(* callback is the redirect of a login that was started, whichever.        *)
Begin(c) ==
  /\ pc[c] = "idle" /\ calls < MaxCalls /\ calls' = calls + 1
  /\ \/ Goto(c, "lock") /\ job' = [job EXCEPT ![c].kind = "acquire"]
     \/ Goto(c, "client") /\ job' = [job EXCEPT ![c].kind = "start"]
     \/ /\ Goto(c, "pending")
        /\ \E g \in 1..logins : job' = [job EXCEPT ![c].kind = "complete", ![c].callback = g]
  /\ UNCHANGED <<store, mem, mu, server, lost, aborted, logins>>

(* mutant: the mutex and the memory are ignored *)
LockAnyway(c) ==
  /\ pc[c] = "lock" /\ Goto(c, "client") /\ mu' = [mu EXCEPT ![Home[c]] = c]
  /\ UNCHANGED <<store, mem, job, server, lost, aborted, calls, logins>>
(* The mutex, and the token in memory, which ends the call. *)
Lock(c) ==
  /\ pc[c] = "lock" /\ mu[Home[c]] = NoCaller
  /\ IF mem[Home[c]].fresh THEN Leave(c)
     ELSE Goto(c, "client") /\ mu' = [mu EXCEPT ![Home[c]] = c] /\ UNCHANGED job
  /\ UNCHANGED <<store, mem, server, lost, aborted, calls, logins>>

LoadRegistration(c) ==
  /\ pc[c] = "client"
  /\ \/ /\ Readable(registration) /\ Goto(c, AfterRegistration(c))
        /\ job' = [job EXCEPT ![c].client = registration.value]
     \/ Absent(registration) /\ Goto(c, "register") /\ UNCHANGED job
  /\ UNCHANGED <<store, mem, mu, server, lost, aborted, calls, logins>>

(* Every call that registers has a client of its own; the answer may be lost (Fail). *)
RegisterDynamicClient(c) ==
  /\ pc[c] = "register" /\ clients' = clients + 1 /\ Goto(c, "find")
  /\ job' = [job EXCEPT ![c].client = clients + 1, ![c].record = "registration"]
  /\ UNCHANGED <<store, mem, mu, rotates, grants, lost, aborted, calls, logins>>

(* StartAuthorization: the state and verifier of this login, at the server *)
(* once the user opens the URL.                                            *)
StartAuthorization(c) ==
  /\ pc[c] = "authorize" /\ logins < MaxLogins
  /\ logins' = logins + 1 /\ Goto(c, "find")
  /\ grants' = [grants EXCEPT ![logins + 1].client = job[c].client]
  /\ job' = [job EXCEPT ![c].record = "pending",
               ![c].pending = [grant |-> logins + 1, client |-> job[c].client, lapsed |-> FALSE]]
  /\ UNCHANGED <<store, mem, mu, rotates, clients, lost, aborted, calls>>

LoadPending(c) ==
  /\ pc[c] = "pending" /\ Readable(pending) /\ Goto(c, "redeem")
  /\ job' = [job EXCEPT ![c].pending = pending.value]
  /\ UNCHANGED <<store, mem, mu, server, lost, aborted, calls, logins>>

(* CompleteAuthorization: the checks of the callback, then one token       *)
(* request; a code is good once.  The server may issue a refresh token or  *)
(* not, and a token that lives for less than the 30 seconds that count.    *)
CallbackMatches(c) == ~job[c].pending.lapsed /\ job[c].callback = job[c].pending.grant
CompleteAuthorization(c) ==
  LET g == job[c].callback IN
  /\ pc[c] = "redeem" /\ CallbackMatches(c)
  /\ ~grants[g].redeemed /\ grants[g].client = job[c].pending.client
  /\ \E turn \in {0, 1}, fresh \in BOOLEAN :
       /\ grants' = [grants EXCEPT ![g].redeemed = TRUE, ![g].turn = turn, ![g].by = Home[c]]
       /\ \/ /\ Goto(c, "find") /\ UNCHANGED mu
             /\ job' = [job EXCEPT ![c].record = "token",
                          ![c].token = [grant |-> g, turn |-> turn, fresh |-> fresh]]
          \/ Leave(c)
  /\ UNCHANGED <<store, mem, rotates, clients, lost, aborted, calls, logins>>

-----------------------------------------------------------------------------
(* acquireOAuth on the stored token. *)
LoadToken(c) ==
  /\ pc[c] = "load" /\ Readable(token) /\ token.value.grant # 0
  /\ job' = [job EXCEPT ![c].token = token.value]
  /\ \/ token.value.fresh /\ Goto(c, "remember")
     \/ ~token.value.fresh /\ token.value.turn # 0 /\ Goto(c, "refresh")
  /\ UNCHANGED <<store, mem, mu, server, lost, aborted, calls, logins>>

(* The server takes the newest refresh token of the grant, from the client *)
(* it was granted to; it hands out the next one, or none and the old stays *)
(* good.                                                                   *)
Honoured(c) == LET t == job[c].token IN
  grants[t.grant].turn = t.turn /\ grants[t.grant].client = job[c].client
(* mutant: the answer is stored as it is *)
RefreshedAsAnswered(old, fresh) == [old EXCEPT !.turn = IF rotates THEN @ + 1 ELSE 0, !.fresh = fresh]
Refreshed(old, fresh) == [old EXCEPT !.turn = IF rotates THEN @ + 1 ELSE @, !.fresh = fresh]
(* mutant: the refreshed token is only kept in memory *)
RefreshUnsaved(c) ==
  LET old == job[c].token IN
  /\ pc[c] = "refresh" /\ Honoured(c)
  /\ grants' = [grants EXCEPT ![old.grant].turn = IF rotates THEN @ + 1 ELSE @, ![old.grant].by = Home[c]]
  /\ Goto(c, "remember") /\ job' = [job EXCEPT ![c].token = Refreshed(old, TRUE)]
  /\ UNCHANGED <<store, mem, mu, rotates, clients, lost, aborted, calls, logins>>
Refresh(c) ==
  LET old == job[c].token IN
  /\ pc[c] = "refresh" /\ Honoured(c)
  /\ \E fresh \in BOOLEAN :
       LET new == Refreshed(old, fresh) IN
       /\ grants' = [grants EXCEPT ![old.grant].turn = IF rotates THEN @ + 1 ELSE @,
                                   ![old.grant].by = Home[c]]
       /\ \/ /\ Goto(c, "find") /\ UNCHANGED <<mu, lost>>
             /\ job' = [job EXCEPT ![c].record = "token", ![c].token = new]
          \/ Leave(c) /\ lost' = IF rotates THEN lost \cup {old.grant} ELSE lost
  /\ UNCHANGED <<store, mem, rotates, clients, aborted, calls, logins>>

(* CompleteOAuthLogin removes whatever continuation is there. *)
DeletePending(c) ==
  /\ pc[c] = "forget" /\ Goto(c, "take")
  /\ pending' = [key |-> 0, value |-> NoPending]
  /\ UNCHANGED <<keyfile, filled, keys, registration, token, mem, mu, job, server, lost, aborted, calls, logins>>

(* The token in memory: acquireOAuth holds the mutex, CompleteOAuthLogin takes it now. *)
Keep(c) ==
  /\ mem' = [mem EXCEPT ![Home[c]] = job[c].token] /\ Leave(c)
  /\ UNCHANGED <<store, server, lost, aborted, calls, logins>>
Remember(c) == pc[c] = "remember" /\ Keep(c)
Take(c) == pc[c] = "take" /\ mu[Home[c]] = NoCaller /\ Keep(c)

-----------------------------------------------------------------------------
(* seal: the key, made by the first who needs it, then the record.         *)
FoundKey(c) == /\ filled /\ Goto(c, "put") /\ job' = [job EXCEPT ![c].key = keyfile]

FindKey(c) ==
  /\ pc[c] = "find"
  /\ \/ keyfile # 0 /\ FoundKey(c)
     \/ keyfile = 0 /\ Goto(c, "create") /\ UNCHANGED job
  /\ UNCHANGED <<store, mem, mu, server, lost, aborted, calls, logins>>

(* mutant: without O_EXCL, an existing file is overwritten *)
CreateKeyAnyway(c) ==
  /\ pc[c] = "create" /\ keyfile' = keys + 1 /\ keys' = keys + 1 /\ filled' = FALSE
  /\ Goto(c, "fill") /\ job' = [job EXCEPT ![c].key = keys + 1]
  /\ UNCHANGED <<registration, pending, token, mem, mu, server, lost, aborted, calls, logins>>

(* O_EXCL: a second creator reads the first one's key, whole or not (Fail). *)
CreateKey(c) ==
  /\ pc[c] = "create"
  /\ \/ keyfile # 0 /\ FoundKey(c) /\ UNCHANGED <<keyfile, keys>>
     \/ /\ keyfile = 0 /\ keyfile' = keys + 1 /\ keys' = keys + 1
        /\ Goto(c, "fill") /\ job' = [job EXCEPT ![c].key = keys + 1]
  /\ UNCHANGED <<filled, registration, pending, token, mem, mu, server, lost, aborted, calls, logins>>

FillKey(c) ==
  /\ pc[c] = "fill" /\ filled' = TRUE /\ Goto(c, "sync")
  /\ UNCHANGED <<keyfile, keys, registration, pending, token, mem, mu, job, server, lost, aborted, calls, logins>>

(* The key is synced if it is new; atomicSecretWrite: the rename; then the statement after the Save. *)
Put(c) ==
  /\ pc[c] \in {"sync", "put"}
  /\ \/ /\ job[c].record = "registration" /\ Goto(c, AfterRegistration(c)) /\ UNCHANGED <<mu, job>>
        /\ registration' = [key |-> job[c].key, value |-> job[c].client]
        /\ UNCHANGED <<pending, token>>
     \/ /\ job[c].record = "pending" /\ Leave(c)
        /\ pending' = [key |-> job[c].key, value |-> job[c].pending]
        /\ UNCHANGED <<registration, token>>
     \/ /\ job[c].record = "token" /\ UNCHANGED <<mu, job, registration, pending>>
        /\ Goto(c, IF job[c].kind = "acquire" THEN "remember" ELSE "forget")
        /\ token' = [key |-> job[c].key, value |-> job[c].token]
  /\ UNCHANGED <<keyfile, filled, keys, mem, server, lost, aborted, calls, logins>>

-----------------------------------------------------------------------------
(* Failures: a request, a file operation, a refusal of the server, a       *)
(* profile without a token.  The token in hand goes; abort removes the key *)
(* file that this call has created.                                        *)
Dropped(c) == IF rotates THEN Unsaved(c) ELSE {}
Fail(c) ==
  /\ pc[c] \notin {"idle", "lock", "take", "remember"} /\ Leave(c)
  /\ lost' = lost \cup Dropped(c)
  /\ \/ pc[c] # "fill" /\ UNCHANGED <<keyfile, filled, aborted>>
     \/ /\ pc[c] \in {"fill", "sync"} /\ keyfile' = 0 /\ filled' = FALSE
        /\ aborted' = (aborted \/ filled)
  /\ UNCHANGED <<keys, registration, pending, token, mem, server, calls, logins>>

(* A process ends, in the middle of its calls or after them. *)
Exit(p) ==
  LET gone == {c \in Callers : Home[c] = p} IN
  /\ mem[p] # NoToken \/ \E c \in gone : pc[c] # "idle"
  /\ mem' = [mem EXCEPT ![p] = NoToken] /\ mu' = [mu EXCEPT ![p] = NoCaller]
  /\ pc' = [c \in Callers |-> IF c \in gone THEN "idle" ELSE pc[c]]
  /\ job' = [c \in Callers |-> IF c \in gone THEN NoJob ELSE job[c]]
  /\ lost' = lost \cup UNION {Dropped(c) : c \in gone}
  /\ UNCHANGED <<store, server, aborted, calls, logins>>

(* Time passes: for the tokens that are about, for the continuations. *)
Stale(t) == [t EXCEPT !.fresh = FALSE]
Expire ==
  /\ token.value.fresh \/ \E p \in Homes : mem[p].fresh
  /\ token' = [token EXCEPT !.value = Stale(@)] /\ mem' = [p \in Homes |-> Stale(mem[p])]
  /\ job' = [c \in Callers |-> [job[c] EXCEPT !.token = Stale(@)]]
  /\ UNCHANGED <<keyfile, filled, keys, registration, pending, mu, pc, server, lost, aborted, calls, logins>>

Lapsed(r) == IF r.grant = 0 THEN r ELSE [r EXCEPT !.lapsed = TRUE]
Lapse ==
  /\ pending.value.grant # 0 /\ ~pending.value.lapsed
  /\ pending' = [pending EXCEPT !.value = Lapsed(@)]
  /\ job' = [c \in Callers |-> [job[c] EXCEPT !.pending = Lapsed(@)]]
  /\ UNCHANGED <<keyfile, filled, keys, registration, token, mem, mu, pc, server, lost, aborted, calls, logins>>

Step(c) ==
  \/ LoadRegistration(c) \/ RegisterDynamicClient(c)
  \/ StartAuthorization(c) \/ LoadPending(c) \/ CompleteAuthorization(c)
  \/ LoadToken(c) \/ Refresh(c) \/ DeletePending(c) \/ Remember(c)
  \/ FindKey(c) \/ CreateKey(c) \/ FillKey(c) \/ Put(c) \/ Fail(c)

Done == calls = MaxCalls /\ (\A c \in Callers : pc[c] = "idle") /\ UNCHANGED vars

Next ==
  \/ \E c \in Callers : Begin(c) \/ Lock(c) \/ Take(c) \/ Step(c)
  \/ \E p \in Homes : Exit(p)
  \/ Expire \/ Lapse \/ Done

(* A request answers or times out, a waiter gets the mutex when it is free. *)
Fairness == \A c \in Callers : WF_vars(Lock(c) \/ Take(c) \/ Step(c))

Spec == Init /\ [][Next]_vars /\ Fairness

-----------------------------------------------------------------------------
Places == {"idle", "lock", "client", "register", "authorize", "pending", "redeem", "load", "refresh",
           "find", "create", "fill", "sync", "put", "forget", "take", "remember"}
StoreTypes ==
  /\ keyfile \in KeyIds /\ keys \in Nat /\ filled \in BOOLEAN
  /\ registration \in [key : KeyIds, value : Clients]
  /\ pending \in [key : KeyIds, value : Pending]
  /\ token \in [key : KeyIds, value : Token]
CallTypes ==
  /\ mem \in [Homes -> Token] /\ mu \in [Homes -> Callers \cup {NoCaller}]
  /\ pc \in [Callers -> Places] /\ job \in [Callers -> Job]
ServerTypes == rotates \in BOOLEAN /\ grants \in [Grants -> Grant] /\ clients \in Clients
CounterTypes ==
  /\ lost \subseteq Grants /\ aborted \in BOOLEAN
  /\ calls \in 0..MaxCalls /\ logins \in 0..MaxLogins
TypeOK == StoreTypes /\ CallTypes /\ ServerTypes /\ CounterTypes

(* Whatever processes do at the same time, every record in the store can   *)
(* be opened with the key that is there (loadOrCreateKey, seal), as long   *)
(* as no sync of a fresh key has failed.                                   *)
Sealed ==
  ~aborted => \A key \in {registration.key, pending.key, token.key} :
                key # 0 => filled /\ key = keyfile

(* Refreshing is single-flight in a process: acquireOAuth presents the     *)
(* newest refresh token, unless another process has rotated it or nobody   *)
(* has received it.                                                        *)
SingleFlight ==
  \A c \in Callers : LET t == job[c].token IN
    pc[c] = "refresh" => \/ t.turn = grants[t.grant].turn \/ t.grant \in lost
                         \/ grants[t.grant].by # Home[c]

(* The store never stays behind the server: its refresh token is the       *)
(* newest, or the newest is in the hands of a call, or nobody received it. *)
StoreLive ==
  LET t == token.value IN
    t.grant = 0 \/ t.turn = grants[t.grant].turn \/ t.grant \in lost
      \/ \E c \in Callers : t.grant \in Unsaved(c)

(* A login that can be renewed stays so: a refresh whose answer has no     *)
(* refresh token does not lose the old one.                                *)
Renewable ==
  [][token'.value.grant = token.value.grant /\ token.value.turn # 0 => token'.value.turn # 0]_vars

(* Every call ends, whatever fails on the way: no path leaves the mutex    *)
(* locked and nobody waits for ever.                                       *)
CallsEnd == \A c \in Callers : pc[c] # "idle" ~> pc[c] = "idle"
=============================================================================
