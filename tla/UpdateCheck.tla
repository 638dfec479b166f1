---------------------------- MODULE UpdateCheck ----------------------------
(***************************************************************************)
(* The release-notice checker, internal/updatecheck.                       *)
(*                                                                         *)
(* Every skillex process on a machine shares one cache file per release    *)
(* source.  Checker.Notices reads it, and when a check is due takes a      *)
(* nonblocking file lease, reads it again, persists a backoff, contacts    *)
(* the release service and stores the outcome.  Processes interleave at    *)
(* every file operation and may crash between any two of them.             *)
(*                                                                         *)
(* Time is counted in ticks; the code's durations are the constants below. *)
(***************************************************************************)
EXTENDS Integers, FiniteSets

CONSTANTS
  Callers,    \* goroutines that call Notices
  Processes,  \* operating system processes, each with one Checker
  ProcessOf,  \* the process a caller runs in
  Offline,    \* callers whose process was started with SKILLEX_OFFLINE=1
  Nobody,     \* nobody holds the mutex or the lease
  Interval,   \* wait after a success (24 h)
  Retry,      \* least wait after a failed check (1 h)
  Slack,      \* how far past Interval a stored schedule is believed (1 min)
  Skew,       \* how far in the future a stored attempt is believed (5 min)
  MaxPause,   \* longest time one call may take
  MaxClock,   \* bound: the clock stops here
  MaxRelease  \* bound: releases published

ASSUME CallersAssumption ==
  /\ ProcessOf \in [Callers -> Processes]
  /\ Offline \subseteq Callers
  /\ Nobody \notin Callers

ASSUME TimesAssumption ==
  /\ Retry \in Nat /\ Interval \in Nat /\ Slack \in Nat /\ Skew \in Nat
  /\ 0 < Slack /\ Slack < Skew /\ Skew < Retry /\ Retry < Interval
  /\ MaxPause \in Nat /\ MaxClock \in Nat \ {0} /\ MaxRelease \in Nat \ {0}

VARIABLES
  clock,       \* the machine's clock
  release,     \* the newest stable release the service publishes
  cache,       \* contents of updates/<source>.json
  mu,          \* Checker.mu of each process: the caller inside, or Nobody
  lease,       \* the caller holding the file lock, or Nobody
  pc,          \* where each caller is inside Notices
  state,       \* its local copy of the cache
  entered,     \* the time it read on entry
  lastContact, \* history: the entry time of the last request sent
  lastGood     \* history: the entry time of the last success stored

checkVars == <<clock, release, cache, mu, lease, pc, state, entered, lastContact, lastGood>>

(* What the cache file holds.  A zero time stands for the Go zero time, so *)
(* the empty cache (no file, or one that does not parse) is due at once.   *)
Cache == [latest : Nat, success : Nat, attempt : Nat, next : Nat]
NoCache == [latest |-> 0, success |-> 0, attempt |-> 0, next |-> 0]

HoldsLease == {"leased", "backoff", "contact", "fetch", "store", "hint"}
Steps == {"idle", "read", "due"} \cup HoldsLease
Timed == Steps \ {"idle", "read"}

Due(s, t) ==
  \/ s.next <= t
  \/ s.next > t + Interval + Slack
  \/ s.attempt > t + Skew

(* No request has been sent yet: any later one is far enough away. *)
Never == 0 - Interval

CheckInit ==
  /\ clock = 1
  /\ release = 1
  /\ cache \in {NoCache} \cup
       \* left by an earlier invocation, perhaps before the clock was set back
       {[latest |-> 1, success |-> t, attempt |-> t, next |-> t + Interval] :
          t \in {1, MaxClock}}
  /\ mu = [p \in Processes |-> Nobody]
  /\ lease = Nobody
  /\ pc = [c \in Callers |-> "idle"]
  /\ state = [c \in Callers |-> NoCache]
  /\ entered = [c \in Callers |-> 0]
  /\ lastContact = Never
  /\ lastGood = Never

Goto(c, step) == pc' = [pc EXCEPT ![c] = step]

(* Every return of Notices runs the deferred unlock and, when the lease was *)
(* opened, the deferred close that drops the file lock; its locals are gone. *)
Return(c) ==
  /\ Goto(c, "idle")
  /\ state' = [state EXCEPT ![c] = NoCache]
  /\ entered' = [entered EXCEPT ![c] = 0]
  /\ mu' = [mu EXCEPT ![ProcessOf[c]] = Nobody]
  /\ lease' = IF lease = c THEN Nobody ELSE lease

(* TryLock succeeds and the cache is read.  A caller that finds the mutex  *)
(* taken answers from the cache and changes nothing.                       *)
Begin(c) ==
  /\ pc[c] = "idle"
  /\ mu[ProcessOf[c]] = Nobody
  /\ mu' = [mu EXCEPT ![ProcessOf[c]] = c]
  /\ state' = [state EXCEPT ![c] = cache]
  /\ Goto(c, "read")
  /\ UNCHANGED <<clock, release, cache, lease, entered, lastContact, lastGood>>

(* The clock is read once; everything below uses this time. *)
NotDue(c) ==
  /\ pc[c] = "read"
  /\ c \in Offline \/ ~Due(state[c], clock)
  /\ Return(c)
  /\ UNCHANGED <<clock, release, cache, lastContact, lastGood>>

CheckDue(c) ==
  /\ pc[c] = "read"
  /\ c \notin Offline
  /\ Due(state[c], clock)
  /\ Goto(c, "due")
  /\ entered' = [entered EXCEPT ![c] = clock]
  /\ UNCHANGED <<clock, release, cache, mu, lease, state, lastContact, lastGood>>

(* mutant: the lease is taken from its holder *)
LockAnyway(c) ==
  /\ pc[c] = "due"
  /\ lease' = c
  /\ Goto(c, "leased")
  /\ UNCHANGED <<clock, release, cache, mu, state, entered, lastContact, lastGood>>

Lock(c) ==
  /\ pc[c] = "due"
  /\ lease = Nobody
  /\ lease' = c
  /\ Goto(c, "leased")
  /\ UNCHANGED <<clock, release, cache, mu, state, entered, lastContact, lastGood>>

(* The directory or the lock file cannot be opened, or another holds it. *)
LockFails(c) ==
  /\ pc[c] = "due"
  /\ Return(c)
  /\ UNCHANGED <<clock, release, cache, lastContact, lastGood>>

(* mutant: the cache is not checked again under the lease *)
RereadUnchecked(c) ==
  /\ pc[c] = "leased"
  /\ state' = [state EXCEPT ![c] = cache]
  /\ Goto(c, "backoff")
  /\ UNCHANGED <<clock, release, cache, mu, lease, entered, lastContact, lastGood>>

Reread(c) ==
  /\ pc[c] = "leased"
  /\ \/ /\ Due(cache, entered[c])
        /\ state' = [state EXCEPT ![c] = cache]
        /\ Goto(c, "backoff")
        /\ UNCHANGED <<mu, lease, entered>>
     \/ ~Due(cache, entered[c]) /\ Return(c)
  /\ UNCHANGED <<clock, release, cache, lastContact, lastGood>>

(* mutant: the last result is forgotten *)
BackedOffForgets(s, t) == [NoCache EXCEPT !.attempt = t, !.next = t + Retry]

BackedOff(s, t) == [s EXCEPT !.attempt = t, !.next = t + Retry]

(* The schedule is written before the service is contacted. *)
Backoff(c) ==
  /\ pc[c] = "backoff"
  /\ \/ /\ state' = [state EXCEPT ![c] = BackedOff(state[c], entered[c])]
        /\ cache' = BackedOff(state[c], entered[c])
        /\ Goto(c, "contact")
        /\ UNCHANGED <<mu, lease, entered>>
     \/ Return(c) /\ UNCHANGED cache
  /\ UNCHANGED <<clock, release, lastContact, lastGood>>

Contact(c) ==
  /\ pc[c] = "contact"
  /\ lastContact' = entered[c]
  /\ Goto(c, "fetch")
  /\ UNCHANGED <<clock, release, cache, mu, lease, state, entered, lastGood>>

Succeeded(s, t) == [s EXCEPT !.latest = release, !.success = t, !.next = t + Interval]

FetchSucceeds(c) ==
  /\ pc[c] = "fetch"
  /\ state' = [state EXCEPT ![c] = Succeeded(state[c], entered[c])]
  /\ Goto(c, "store")
  /\ UNCHANGED <<clock, release, cache, mu, lease, entered, lastContact, lastGood>>

(* 429, 403 or 503 with a hint: retryAt clamps it to Interval from the     *)
(* moment of the answer, and only a hint later than the backoff is stored  *)
(* (an earlier one is a FetchFails).                                       *)
FetchRefused(c) ==
  /\ pc[c] = "fetch"
  /\ \E at \in clock..(clock + Interval) :
       /\ at > state[c].next
       /\ state' = [state EXCEPT ![c].next = at]
  /\ Goto(c, "hint")
  /\ UNCHANGED <<clock, release, cache, mu, lease, entered, lastContact, lastGood>>

(* Any other error, or the deadline.  Nothing is written. *)
FetchFails(c) ==
  /\ pc[c] = "fetch"
  /\ Return(c)
  /\ UNCHANGED <<clock, release, cache, lastContact, lastGood>>

(* The outcome is written, or the write fails and is forgotten. *)
Store(c) ==
  /\ pc[c] \in {"store", "hint"}
  /\ \/ /\ cache' = state[c]
        /\ lastGood' = IF pc[c] = "store" THEN entered[c] ELSE lastGood
     \/ UNCHANGED <<cache, lastGood>>
  /\ Return(c)
  /\ UNCHANGED <<clock, release, lastContact>>

(* A process dies: its mutex goes with it and the system drops its lease. *)
Crash(p) ==
  /\ mu[p] # Nobody
  /\ Return(mu[p])
  /\ UNCHANGED <<clock, release, cache, lastContact, lastGood>>

(* Time passes, but no call is held up for longer than MaxPause. *)
ClockTick ==
  /\ clock < MaxClock
  /\ \A c \in Callers : pc[c] \in Timed => clock < entered[c] + MaxPause
  /\ clock' = clock + 1
  /\ UNCHANGED <<release, cache, mu, lease, pc, state, entered, lastContact, lastGood>>

PublishRelease ==
  /\ release < MaxRelease
  /\ release' = release + 1
  /\ UNCHANGED <<clock, cache, mu, lease, pc, state, entered, lastContact, lastGood>>

(* What one caller's own code does after the call began. *)
Advance(c) ==
  \/ NotDue(c) \/ CheckDue(c) \/ Lock(c) \/ LockFails(c) \/ Reread(c)
  \/ Backoff(c) \/ Contact(c) \/ FetchFails(c) \/ Store(c)

Answer(c) == FetchSucceeds(c) \/ FetchRefused(c)

CheckNext ==
  \/ \E c \in Callers : Begin(c) \/ Advance(c) \/ Answer(c)
  \/ \E p \in Processes : Crash(p)
  \/ ClockTick
  \/ PublishRelease

CheckSpec == CheckInit /\ [][CheckNext]_checkVars

---------------------------------------------------------------------------
CheckTypeOK ==
  /\ clock \in 0..MaxClock /\ release \in 0..MaxRelease
  /\ cache \in Cache
  /\ mu \in [Processes -> Callers \cup {Nobody}]
  /\ lease \in Callers \cup {Nobody}
  /\ pc \in [Callers -> Steps]
  /\ state \in [Callers -> Cache]
  /\ entered \in [Callers -> 0..MaxClock]
  /\ lastContact \in Int /\ lastGood \in Int

(* "A failed check leaves the last good result intact" (Notices): whatever *)
(* other processes did since, failed, lost the lease or crashed, the file  *)
(* still carries the success that was stored last.                         *)
GoodResultKept == lastGood # Never => cache.success = lastGood

(* The backoff persisted before each request is honoured by every process: *)
(* two requests are at least Retry apart, crashes included, and a stored   *)
(* success answers everybody for the whole Interval.                       *)
RequestsSpaced ==
  [][\A c \in Callers : Contact(c) =>
        entered[c] >= lastContact + Retry /\ entered[c] >= lastGood + Interval]_checkVars

(* The lease has one holder, and what it works on is the file's content:   *)
(* with CheckTypeOK, inductive.                                            *)
LeaseInv ==
  /\ \A c \in Callers : pc[c] \in HoldsLease => lease = c
  /\ \A c \in Callers : pc[c] \in {"backoff", "contact", "fetch"} => state[c] = cache
  /\ \A c \in Callers : pc[c] = "store" => state[c].success = entered[c]
  /\ \A c \in Callers : pc[c] = "hint" => state[c].success = cache.success
  /\ GoodResultKept

(* What the schedule rests on: a call is over before the                  *)
(* time it read on entry is older than Slack.                              *)
PromptCalls == MaxPause <= Slack

(* What one call knows of the schedule at each step. *)
CallKnows(c) ==
  /\ pc[c] \in Timed => entered[c] <= clock /\ clock <= entered[c] + MaxPause
  /\ pc[c] \in {"backoff", "contact"} =>
       entered[c] >= lastContact + Retry /\ entered[c] >= lastGood + Interval
  /\ pc[c] \in {"contact", "fetch"} => cache.next = entered[c] + Retry /\ cache.attempt = entered[c]
  /\ pc[c] \in {"fetch", "store", "hint"} => lastContact = entered[c]
  /\ pc[c] \in {"store", "hint"} => state[c].attempt = entered[c]
  /\ pc[c] = "store" => state[c].next = entered[c] + Interval
  /\ pc[c] = "hint" => /\ state[c].next >= entered[c] + Retry
                       /\ state[c].next >= lastGood + Interval
                       /\ state[c].next <= clock + Interval

(* The file protects the last contact and the last success, and once a     *)
(* request was sent holds no time a prompt caller would disbelieve: with   *)
(* CheckTypeOK, LeaseInv and PromptCalls, inductive.                       *)
ScheduleInv ==
  /\ lastGood <= lastContact /\ lastContact <= clock
  /\ cache.next >= lastContact + Retry
  /\ cache.next >= lastGood + Interval
  /\ lastContact # Never => cache.next <= clock + Interval /\ cache.attempt <= clock
  /\ \A c \in Callers : CallKnows(c)
=============================================================================
