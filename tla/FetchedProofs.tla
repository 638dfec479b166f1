--------------------------- MODULE FetchedProofs ---------------------------
(***************************************************************************)
(* What the processes that keep in files what they fetched can rely on:    *)
(* the release notice (UpdateCheck) and the catalogs (Catalogs), each for  *)
(* any number of processes and any constants that satisfy the assumptions. *)
(***************************************************************************)
EXTENDS UpdateCheck, Catalogs, FiniteSetTheorems, SequenceTheorems, WellFoundedInduction, TLAPS

-----------------------------------------------------------------------------
(* UpdateCheck.  LeaseInv needs nothing but the file lock; ScheduleInv     *)
(* needs PromptCalls too, because the time that is compared under the      *)
(* lease was read before it.                                               *)
LEMMA ConstantFacts ==
  /\ Retry \in Nat /\ Interval \in Nat /\ Slack \in Nat /\ Skew \in Nat
  /\ 0 < Slack /\ Slack < Skew /\ Skew < Retry /\ Retry < Interval
  /\ MaxPause \in Nat /\ MaxClock \in Nat /\ MaxRelease \in Nat
  /\ 1 \in 0..MaxClock /\ 1 \in 0..MaxRelease
  /\ Never \in Int /\ Never < 0
  /\ Nobody \notin Callers
  /\ ProcessOf \in [Callers -> Processes]
  BY CallersAssumption, TimesAssumption DEF Never

LEMMA NoCacheType == NoCache \in Cache
  BY DEF NoCache, Cache

LEMMA BackedOffType ==
  ASSUME NEW s \in Cache, NEW t \in Nat
  PROVE  BackedOff(s, t) \in Cache
<1>1. t + Retry \in Nat
  BY ConstantFacts
<1>2. QED
  BY <1>1 DEF BackedOff, Cache

LEMMA SucceededType ==
  ASSUME NEW s \in Cache, NEW t \in Nat, release \in Nat
  PROVE  Succeeded(s, t) \in Cache
<1>1. t + Interval \in Nat
  BY ConstantFacts
<1>2. QED
  BY <1>1 DEF Succeeded, Cache

(* Return gives up the caller's place and its copies, nothing else. *)
LEMMA ReturnType ==
  ASSUME CheckTypeOK, NEW c \in Callers, Return(c)
  PROVE  /\ mu' \in [Processes -> Callers \cup {Nobody}]
         /\ lease' \in Callers \cup {Nobody}
         /\ pc' \in [Callers -> Steps]
         /\ state' \in [Callers -> Cache]
         /\ entered' \in [Callers -> 0..MaxClock]
<1>1. mu' \in [Processes -> Callers \cup {Nobody}] /\ lease' \in Callers \cup {Nobody}
  BY DEF CheckTypeOK, Return
<1>2. pc' \in [Callers -> Steps]
  BY DEF CheckTypeOK, Return, Goto, Steps
<1>3. state' \in [Callers -> Cache]
  BY NoCacheType DEF CheckTypeOK, Return
<1>4. entered' \in [Callers -> 0..MaxClock]
  BY ConstantFacts DEF CheckTypeOK, Return
<1>5. QED
  BY <1>1, <1>2, <1>3, <1>4

(* Every variable keeps its type. *)
THEOREM CheckTypeCorrect == CheckSpec => []CheckTypeOK
<1>1. CheckInit => CheckTypeOK
  <2> SUFFICES ASSUME CheckInit PROVE CheckTypeOK
    OBVIOUS
  <2>1. cache \in Cache
    BY ConstantFacts, NoCacheType DEF CheckInit, Cache
  <2>2. QED
    BY <2>1, ConstantFacts, NoCacheType DEF CheckInit, CheckTypeOK, Steps
<1>2. CheckTypeOK /\ [CheckNext]_checkVars => CheckTypeOK'
  <2> SUFFICES ASSUME CheckTypeOK, [CheckNext]_checkVars PROVE CheckTypeOK'
    OBVIOUS
  <2> USE ConstantFacts DEF CheckTypeOK
  <2>1. ASSUME NEW c \in Callers, Begin(c) PROVE CheckTypeOK'
    BY <2>1 DEF Begin, Goto, Steps
  <2>2. ASSUME NEW c \in Callers, NotDue(c) PROVE CheckTypeOK'
    BY <2>2, ReturnType DEF NotDue
  <2>3. ASSUME NEW c \in Callers, CheckDue(c) PROVE CheckTypeOK'
    BY <2>3 DEF CheckDue, Goto, Steps
  <2>4. ASSUME NEW c \in Callers, Lock(c) PROVE CheckTypeOK'
    BY <2>4 DEF Lock, Goto, Steps, HoldsLease
  <2>5. ASSUME NEW c \in Callers, LockFails(c) PROVE CheckTypeOK'
    BY <2>5, ReturnType DEF LockFails
  <2>6. ASSUME NEW c \in Callers, Reread(c) PROVE CheckTypeOK'
    <3>1. CASE Return(c)
      BY <2>6, <3>1, ReturnType DEF Reread
    <3>2. CASE ~Return(c)
      BY <2>6, <3>2 DEF Reread, Goto, Steps, HoldsLease
    <3>3. QED
      BY <3>1, <3>2
  <2>7. ASSUME NEW c \in Callers, Backoff(c) PROVE CheckTypeOK'
    <3>1. BackedOff(state[c], entered[c]) \in Cache
      <4>1. state[c] \in Cache /\ entered[c] \in Nat
        OBVIOUS
      <4>2. QED
        BY <4>1, BackedOffType
    <3>2. CASE Return(c) /\ UNCHANGED cache
      BY <2>7, <3>2, ReturnType DEF Backoff
    <3>3. CASE ~(Return(c) /\ UNCHANGED cache)
      BY <2>7, <3>1, <3>3 DEF Backoff, Goto, Steps, HoldsLease
    <3>4. QED
      BY <3>2, <3>3
  <2>8. ASSUME NEW c \in Callers, Contact(c) PROVE CheckTypeOK'
    BY <2>8 DEF Contact, Goto, Steps, HoldsLease
  <2>9. ASSUME NEW c \in Callers, FetchSucceeds(c) PROVE CheckTypeOK'
    <3>1. Succeeded(state[c], entered[c]) \in Cache
      <4>1. state[c] \in Cache /\ entered[c] \in Nat /\ release \in Nat
        OBVIOUS
      <4>2. QED
        BY <4>1, SucceededType
    <3>2. QED
      BY <2>9, <3>1 DEF FetchSucceeds, Goto, Steps, HoldsLease
  <2>10. ASSUME NEW c \in Callers, FetchRefused(c) PROVE CheckTypeOK'
    <3>1. PICK at \in clock..(clock + Interval) : state' = [state EXCEPT ![c].next = at]
      BY <2>10 DEF FetchRefused
    <3>2. at \in Nat
      BY <3>1
    <3>3. [state[c] EXCEPT !.next = at] \in Cache
      BY <3>2 DEF Cache
    <3>4. state' \in [Callers -> Cache]
      BY <3>1, <3>3
    <3>5. QED
      BY <2>10, <3>4 DEF FetchRefused, Goto, Steps, HoldsLease
  <2>11. ASSUME NEW c \in Callers, FetchFails(c) PROVE CheckTypeOK'
    BY <2>11, ReturnType DEF FetchFails
  <2>12. ASSUME NEW c \in Callers, Store(c) PROVE CheckTypeOK'
    BY <2>12, ReturnType DEF Store
  <2>13. ASSUME NEW p \in Processes, Crash(p) PROVE CheckTypeOK'
    <3>1. mu[p] \in Callers
      BY <2>13 DEF Crash
    <3>2. QED
      BY <2>13, <3>1, ReturnType DEF Crash
  <2>14. CASE ClockTick
    BY <2>14 DEF ClockTick
  <2>15. CASE PublishRelease
    BY <2>15 DEF PublishRelease
  <2>16. CASE UNCHANGED checkVars
    BY <2>16 DEF checkVars
  <2>17. QED
    BY <2>1, <2>2, <2>3, <2>4, <2>5, <2>6, <2>7, <2>8, <2>9, <2>10, <2>11, <2>12,
       <2>13, <2>14, <2>15, <2>16 DEF CheckNext, Advance, Answer
<1>3. QED
  BY <1>1, <1>2, PTL DEF CheckSpec

---------------------------------------------------------------------------
(* Return can only take a caller out of the lease. *)
LEMMA ReturnLease ==
  ASSUME CheckTypeOK, LeaseInv, NEW c \in Callers, Return(c)
  PROVE  /\ \A d \in Callers : pc'[d] \in HoldsLease => lease' = d
         /\ \A d \in Callers : pc'[d] # "idle" =>
              d # c /\ pc'[d] = pc[d] /\ state'[d] = state[d] /\ entered'[d] = entered[d]
<1>1. ASSUME NEW d \in Callers, pc'[d] # "idle"
      PROVE  d # c /\ pc'[d] = pc[d] /\ state'[d] = state[d] /\ entered'[d] = entered[d]
  BY <1>1 DEF CheckTypeOK, Return, Goto
<1>2. ASSUME NEW d \in Callers, pc'[d] \in HoldsLease PROVE lease' = d
  BY <1>1, <1>2 DEF LeaseInv, Return, HoldsLease
<1>3. QED
  BY <1>1, <1>2

(* The lease invariant survives every return that leaves the file alone. *)
LEMMA ReturnKeeps ==
  ASSUME CheckTypeOK, LeaseInv, NEW c \in Callers, Return(c), UNCHANGED <<cache, lastGood>>
  PROVE  LeaseInv'
  BY ReturnLease DEF LeaseInv, GoodResultKept, HoldsLease

(* The lease admits one caller, which works on what the file holds. *)
THEOREM LeaseSafe == CheckSpec => []LeaseInv
<1>1. CheckInit => LeaseInv
  BY DEF CheckInit, LeaseInv, GoodResultKept, HoldsLease
<1>2. CheckTypeOK /\ LeaseInv /\ [CheckNext]_checkVars => LeaseInv'
  <2> SUFFICES ASSUME CheckTypeOK, LeaseInv, [CheckNext]_checkVars PROVE LeaseInv'
    OBVIOUS
  <2>1. ASSUME NEW c \in Callers, Begin(c) PROVE LeaseInv'
    BY <2>1 DEF CheckTypeOK, LeaseInv, GoodResultKept, HoldsLease, Begin, Goto
  <2>2. ASSUME NEW c \in Callers, NotDue(c) PROVE LeaseInv'
    BY <2>2, ReturnKeeps DEF NotDue
  <2>3. ASSUME NEW c \in Callers, CheckDue(c) PROVE LeaseInv'
    BY <2>3 DEF CheckTypeOK, LeaseInv, GoodResultKept, HoldsLease, CheckDue, Goto
  <2>4. ASSUME NEW c \in Callers, Lock(c) PROVE LeaseInv'
    BY <2>4, ConstantFacts DEF CheckTypeOK, LeaseInv, GoodResultKept, HoldsLease, Lock, Goto
  <2>5. ASSUME NEW c \in Callers, LockFails(c) PROVE LeaseInv'
    BY <2>5, ReturnKeeps DEF LockFails
  <2>6. ASSUME NEW c \in Callers, Reread(c) PROVE LeaseInv'
    <3>1. CASE Return(c)
      BY <2>6, <3>1, ReturnKeeps DEF Reread
    <3>2. CASE ~Return(c)
      BY <2>6, <3>2 DEF CheckTypeOK, LeaseInv, GoodResultKept, HoldsLease, Reread, Goto
    <3>3. QED
      BY <3>1, <3>2
  <2>7. ASSUME NEW c \in Callers, Backoff(c) PROVE LeaseInv'
    <3>1. CASE Return(c) /\ UNCHANGED cache
      BY <2>7, <3>1, ReturnKeeps DEF Backoff
    <3>2. CASE ~(Return(c) /\ UNCHANGED cache)
      <4>1. \A d \in Callers : pc[d] \in HoldsLease => d = c
        BY <2>7 DEF LeaseInv, Backoff, HoldsLease
      <4>2. state'[c] = cache' /\ pc'[c] = "contact" /\ UNCHANGED <<lease, entered, lastGood>>
        BY <2>7, <3>2 DEF CheckTypeOK, Backoff, Goto
      <4>3. cache'.success = cache.success
        BY <2>7, <3>2 DEF Backoff, BackedOff, LeaseInv, CheckTypeOK, Cache
      <4>4. \A d \in Callers : d # c => pc'[d] = pc[d] /\ state'[d] = state[d]
        BY <2>7, <3>2 DEF CheckTypeOK, Backoff, Goto
      <4>5. QED
        BY <2>7, <4>1, <4>2, <4>3, <4>4 DEF LeaseInv, GoodResultKept, HoldsLease, Backoff
    <3>3. QED
      BY <3>1, <3>2
  <2>8. ASSUME NEW c \in Callers, Contact(c) PROVE LeaseInv'
    BY <2>8 DEF CheckTypeOK, LeaseInv, GoodResultKept, HoldsLease, Contact, Goto
  <2>9. ASSUME NEW c \in Callers, FetchSucceeds(c) PROVE LeaseInv'
    <3>1. state'[c].success = entered[c] /\ pc'[c] = "store"
      BY <2>9 DEF CheckTypeOK, Cache, FetchSucceeds, Goto, Succeeded
    <3>2. \A d \in Callers : d # c => pc'[d] = pc[d] /\ state'[d] = state[d]
      BY <2>9 DEF CheckTypeOK, FetchSucceeds, Goto
    <3>3. QED
      BY <2>9, <3>1, <3>2 DEF LeaseInv, GoodResultKept, HoldsLease, FetchSucceeds
  <2>10. ASSUME NEW c \in Callers, FetchRefused(c) PROVE LeaseInv'
    <3>1. state'[c].success = state[c].success /\ pc'[c] = "hint"
      BY <2>10 DEF CheckTypeOK, Cache, FetchRefused, Goto
    <3>2. \A d \in Callers : d # c => pc'[d] = pc[d] /\ state'[d] = state[d]
      BY <2>10 DEF CheckTypeOK, FetchRefused, Goto
    <3>3. QED
      BY <2>10, <3>1, <3>2 DEF LeaseInv, GoodResultKept, HoldsLease, FetchRefused
  <2>11. ASSUME NEW c \in Callers, FetchFails(c) PROVE LeaseInv'
    BY <2>11, ReturnKeeps DEF FetchFails
  <2>12. ASSUME NEW c \in Callers, Store(c) PROVE LeaseInv'
    <3>1. CASE UNCHANGED <<cache, lastGood>>
      BY <2>12, <3>1, ReturnKeeps DEF Store
    <3>2. CASE ~UNCHANGED <<cache, lastGood>>
      <4>1. GoodResultKept'
        BY <2>12, <3>2 DEF Store, LeaseInv, GoodResultKept
      <4>2. \A d \in Callers : pc[d] \in HoldsLease => d = c
        BY <2>12 DEF LeaseInv, Store, HoldsLease
      <4>3. \A d \in Callers : pc'[d] \notin HoldsLease
        BY <2>12, <4>2, ReturnLease DEF Store, HoldsLease
      <4>4. QED
        BY <4>1, <4>3 DEF LeaseInv, HoldsLease
    <3>3. QED
      BY <3>1, <3>2
  <2>13. ASSUME NEW p \in Processes, Crash(p) PROVE LeaseInv'
    <3>1. mu[p] \in Callers
      BY <2>13 DEF Crash, CheckTypeOK
    <3>2. QED
      BY <2>13, <3>1, ReturnKeeps DEF Crash
  <2>14. CASE ClockTick
    BY <2>14 DEF LeaseInv, GoodResultKept, ClockTick
  <2>15. CASE PublishRelease
    BY <2>15 DEF LeaseInv, GoodResultKept, PublishRelease
  <2>16. CASE UNCHANGED checkVars
    BY <2>16 DEF LeaseInv, GoodResultKept, checkVars
  <2>17. QED
    BY <2>1, <2>2, <2>3, <2>4, <2>5, <2>6, <2>7, <2>8, <2>9, <2>10, <2>11, <2>12,
       <2>13, <2>14, <2>15, <2>16 DEF CheckNext, Advance, Answer
<1>3. QED
  BY <1>1, <1>2, CheckTypeCorrect, PTL DEF CheckSpec

(* A success that was stored is never lost: not by a failed check, a lost  *)
(* lease, a crash or a slow process.                                       *)
THEOREM GoodResultSafe == CheckSpec => []GoodResultKept
<1>1. LeaseInv => GoodResultKept
  BY DEF LeaseInv
<1>2. QED
  BY <1>1, LeaseSafe, PTL

---------------------------------------------------------------------------
(* Once the file protects the last contact, a prompt caller that still     *)
(* finds the check due is far enough behind it.                            *)
LEMMA DueIsSpaced ==
  ASSUME PromptCalls, CheckTypeOK, ScheduleInv,
         NEW t \in Nat, t <= clock, clock <= t + MaxPause, Due(cache, t)
  PROVE  t >= lastContact + Retry /\ t >= lastGood + Interval
<1>1. cache.next \in Nat /\ cache.attempt \in Nat /\ clock \in Nat
  BY ConstantFacts DEF CheckTypeOK, Cache
<1>2. lastContact \in Int /\ lastGood \in Int
  BY DEF CheckTypeOK
<1>3. CASE lastContact = Never
  BY <1>2, <1>3, ConstantFacts DEF ScheduleInv, Never
<1>4. CASE lastContact # Never
  <2>1. cache.next <= t + Interval + Slack /\ cache.attempt <= t + Skew
    BY <1>1, <1>4, ConstantFacts DEF ScheduleInv, PromptCalls
  <2>2. cache.next <= t
    BY <1>1, <2>1, ConstantFacts DEF Due
  <2>3. QED
    BY <1>1, <1>2, <2>2, ConstantFacts DEF ScheduleInv
<1>5. QED
  BY <1>3, <1>4

(* A return that leaves the file alone keeps the schedule. *)
LEMMA ReturnSchedule ==
  ASSUME CheckTypeOK, LeaseInv, ScheduleInv, NEW c \in Callers, Return(c),
         UNCHANGED <<cache, clock, lastContact, lastGood>>
  PROVE  ScheduleInv'
<1>1. \A d \in Callers : CallKnows(d)'
  <2> SUFFICES ASSUME NEW d \in Callers PROVE CallKnows(d)'
    OBVIOUS
  <2>1. CASE pc'[d] = "idle"
    BY <2>1 DEF CallKnows, Timed
  <2>2. CASE pc'[d] # "idle"
    BY <2>2, ReturnLease DEF ScheduleInv, CallKnows
  <2>3. QED
    BY <2>1, <2>2
<1>2. QED
  BY <1>1 DEF ScheduleInv

(* While one caller holds the lease the others know nothing a write could  *)
(* falsify but the time they entered.                                      *)
LEMMA OthersKnow ==
  ASSUME CheckTypeOK, LeaseInv, ScheduleInv, NEW c \in Callers, lease = c, UNCHANGED clock,
         NEW d \in Callers, d # c, pc'[d] = pc[d], entered'[d] = entered[d]
  PROVE  CallKnows(d)'
<1>1. pc[d] \notin HoldsLease
  BY DEF LeaseInv
<1>2. QED
  BY <1>1 DEF ScheduleInv, CallKnows, HoldsLease

LEMMA ScheduleStep ==
  ASSUME PromptCalls, CheckTypeOK, CheckTypeOK', LeaseInv, ScheduleInv, [CheckNext]_checkVars
  PROVE  ScheduleInv'
<1> USE ConstantFacts
<1>1. ASSUME NEW c \in Callers, Begin(c) PROVE ScheduleInv'
  BY <1>1 DEF CheckTypeOK, ScheduleInv, CallKnows, Begin, Goto, Timed
<1>2. ASSUME NEW c \in Callers, NotDue(c) PROVE ScheduleInv'
  BY <1>2, ReturnSchedule DEF NotDue
<1>3. ASSUME NEW c \in Callers, CheckDue(c) PROVE ScheduleInv'
  BY <1>3 DEF CheckTypeOK, ScheduleInv, CallKnows, CheckDue, Goto, Timed
<1>4. ASSUME NEW c \in Callers, Lock(c) PROVE ScheduleInv'
  BY <1>4 DEF CheckTypeOK, ScheduleInv, CallKnows, Lock, Goto, Timed, Steps, HoldsLease
<1>5. ASSUME NEW c \in Callers, LockFails(c) PROVE ScheduleInv'
  BY <1>5, ReturnSchedule DEF LockFails
<1>6. ASSUME NEW c \in Callers, Reread(c) PROVE ScheduleInv'
  <2>1. CASE Return(c)
    BY <1>6, <2>1, ReturnSchedule DEF Reread
  <2>2. CASE ~Return(c)
    <3>1. entered[c] \in Nat /\ entered[c] <= clock /\ clock <= entered[c] + MaxPause
      BY <1>6 DEF CheckTypeOK, ScheduleInv, CallKnows, Reread, Timed, Steps, HoldsLease
    <3>2. entered[c] >= lastContact + Retry /\ entered[c] >= lastGood + Interval
      BY <1>6, <2>2, <3>1, DueIsSpaced DEF Reread
    <3>3. pc' = [pc EXCEPT ![c] = "backoff"]
          /\ UNCHANGED <<clock, cache, entered, lastContact, lastGood>>
      BY <1>6, <2>2 DEF Reread, Goto
    <3>4. \A d \in Callers : d # c => pc'[d] = pc[d] /\ state'[d] = state[d]
      BY <1>6, <2>2 DEF CheckTypeOK, Reread, Goto
    <3>5. pc'[c] = "backoff"
      BY <3>3 DEF CheckTypeOK
    <3>6. CallKnows(c)'
      BY <3>1, <3>2, <3>3, <3>5 DEF CallKnows
    <3>7. \A d \in Callers : d # c => CallKnows(d)'
      BY <3>3, <3>4 DEF ScheduleInv, CallKnows
    <3>8. QED
      BY <3>3, <3>6, <3>7 DEF ScheduleInv
  <2>3. QED
    BY <2>1, <2>2
<1>7. ASSUME NEW c \in Callers, Backoff(c) PROVE ScheduleInv'
  <2>1. CASE Return(c) /\ UNCHANGED cache
    BY <1>7, <2>1, ReturnSchedule DEF Backoff
  <2>2. CASE ~(Return(c) /\ UNCHANGED cache)
    <3>1. UNCHANGED <<clock, lease, entered, lastContact, lastGood>> /\ pc'[c] = "contact" /\
          lease = c
      BY <1>7, <2>2 DEF CheckTypeOK, Backoff, Goto, LeaseInv, HoldsLease
    <3>2. cache'.next = entered[c] + Retry /\ cache'.attempt = entered[c]
      BY <1>7, <2>2 DEF CheckTypeOK, Backoff, BackedOff, Cache
    <3>3. /\ entered[c] <= clock /\ clock <= entered[c] + MaxPause
          /\ entered[c] >= lastContact + Retry /\ entered[c] >= lastGood + Interval
      BY <1>7 DEF ScheduleInv, CallKnows, Backoff, Timed, Steps, HoldsLease
    <3>4. CallKnows(c)'
      BY <3>1, <3>2, <3>3 DEF CallKnows
    <3>5. \A d \in Callers : d # c => CallKnows(d)'
      <4>1. \A d \in Callers : d # c => pc'[d] = pc[d] /\ entered'[d] = entered[d]
        BY <1>7, <2>2 DEF CheckTypeOK, Backoff, Goto
      <4>2. QED
        BY <3>1, <4>1, OthersKnow
    <3>6. entered[c] \in Nat /\ clock \in Nat /\ lastContact \in Int /\ lastGood \in Int
      BY DEF CheckTypeOK
    <3>7. cache'.next >= lastContact + Retry /\ cache'.next >= lastGood + Interval
      BY <3>2, <3>3, <3>6 DEF ScheduleInv
    <3>8. QED
      BY <3>1, <3>2, <3>3, <3>4, <3>5, <3>6, <3>7 DEF ScheduleInv
  <2>3. QED
    BY <2>1, <2>2
<1>8. ASSUME NEW c \in Callers, Contact(c) PROVE ScheduleInv'
  <2>1. UNCHANGED <<clock, cache, lease, state, entered, lastGood>> /\ pc'[c] = "fetch" /\ lease = c
    BY <1>8 DEF CheckTypeOK, Contact, Goto, LeaseInv, HoldsLease
  <2>2. /\ entered[c] <= clock /\ clock <= entered[c] + MaxPause /\ entered[c] >= lastGood + Interval
        /\ cache.next = entered[c] + Retry /\ cache.attempt = entered[c]
    BY <1>8 DEF ScheduleInv, CallKnows, Contact, Timed, Steps, HoldsLease
  <2>3. lastContact' = entered[c]
    BY <1>8 DEF Contact
  <2>4. CallKnows(c)'
    BY <2>1, <2>2, <2>3 DEF CallKnows
  <2>5. \A d \in Callers : d # c => CallKnows(d)'
    <3>1. \A d \in Callers : d # c => pc'[d] = pc[d] /\ entered'[d] = entered[d]
      BY <1>8 DEF CheckTypeOK, Contact, Goto
    <3>2. QED
      BY <2>1, <3>1, OthersKnow
  <2>6. entered[c] \in Nat /\ clock \in Nat /\ lastGood \in Int
    BY DEF CheckTypeOK
  <2>7. QED
    BY <2>1, <2>2, <2>3, <2>4, <2>5, <2>6 DEF ScheduleInv
<1>9. ASSUME NEW c \in Callers, FetchSucceeds(c) PROVE ScheduleInv'
  <2>1. UNCHANGED <<clock, cache, lease, entered, lastContact, lastGood>> /\ pc'[c] = "store" /\
        lease = c
    BY <1>9 DEF CheckTypeOK, FetchSucceeds, Goto, LeaseInv, HoldsLease
  <2>2. state'[c].attempt = state[c].attempt /\ state'[c].next = entered[c] + Interval
    BY <1>9 DEF CheckTypeOK, Cache, FetchSucceeds, Succeeded
  <2>3. CallKnows(c)'
    BY <1>9, <2>1, <2>2
    DEF LeaseInv, ScheduleInv, CallKnows, FetchSucceeds, Timed, Steps, HoldsLease
  <2>4. \A d \in Callers : d # c => CallKnows(d)'
    <3>1. \A d \in Callers : d # c => pc'[d] = pc[d] /\ entered'[d] = entered[d]
      BY <1>9 DEF CheckTypeOK, FetchSucceeds, Goto
    <3>2. QED
      BY <2>1, <3>1, OthersKnow
  <2>5. QED
    BY <2>1, <2>3, <2>4 DEF ScheduleInv
<1>10. ASSUME NEW c \in Callers, FetchRefused(c) PROVE ScheduleInv'
  <2>1. UNCHANGED <<clock, cache, lease, entered, lastContact, lastGood>> /\ pc'[c] = "hint" /\
        lease = c
    BY <1>10 DEF CheckTypeOK, FetchRefused, Goto, LeaseInv, HoldsLease
  <2>2. PICK at \in clock..(clock + Interval) :
          at > state[c].next /\ state' = [state EXCEPT ![c].next = at]
    BY <1>10 DEF FetchRefused
  <2>3. state'[c].attempt = state[c].attempt /\ state'[c].next = at
    BY <2>2 DEF CheckTypeOK, Cache
  <2>4. state[c] = cache /\ pc[c] = "fetch"
    BY <1>10 DEF LeaseInv, FetchRefused
  <2>5. /\ at \in Nat /\ cache.next \in Nat /\ clock \in Nat /\ entered[c] \in Nat
        /\ lastGood \in Int
    BY <2>2 DEF CheckTypeOK, Cache
  <2>6. at >= entered[c] + Retry /\ at >= lastGood + Interval /\ at <= clock + Interval
    BY <2>2, <2>4, <2>5 DEF ScheduleInv, CallKnows
  <2>7. CallKnows(c)'
    BY <2>1, <2>3, <2>4, <2>6 DEF ScheduleInv, CallKnows, Timed, Steps, HoldsLease
  <2>8. \A d \in Callers : d # c => CallKnows(d)'
    <3>1. \A d \in Callers : d # c => pc'[d] = pc[d] /\ entered'[d] = entered[d]
      BY <1>10 DEF CheckTypeOK, FetchRefused, Goto
    <3>2. QED
      BY <2>1, <3>1, OthersKnow
  <2>9. QED
    BY <2>1, <2>7, <2>8 DEF ScheduleInv
<1>11. ASSUME NEW c \in Callers, FetchFails(c) PROVE ScheduleInv'
  BY <1>11, ReturnSchedule DEF FetchFails
<1>12. ASSUME NEW c \in Callers, Store(c) PROVE ScheduleInv'
  <2>1. CASE UNCHANGED <<cache, lastGood>>
    BY <1>12, <2>1, ReturnSchedule DEF Store
  <2>2. CASE ~UNCHANGED <<cache, lastGood>>
    <3>1. UNCHANGED <<clock, lastContact>> /\ cache' = state[c] /\ lease = c
      BY <1>12, <2>2 DEF Store, LeaseInv, HoldsLease
    <3>2. lastContact = entered[c] /\ state[c].attempt = entered[c] /\ entered[c] <= clock
      BY <1>12 DEF Store, ScheduleInv, CallKnows, Timed, Steps, HoldsLease
    <3>3. /\ entered[c] \in Nat /\ clock \in Nat /\ lastGood \in Int
          /\ state[c].next \in Nat
      BY DEF CheckTypeOK, Cache
    <3>4. \A d \in Callers : CallKnows(d)'
      <4> SUFFICES ASSUME NEW d \in Callers PROVE CallKnows(d)'
        OBVIOUS
      <4>1. CASE pc'[d] = "idle"
        BY <4>1 DEF CallKnows, Timed
      <4>2. CASE pc'[d] # "idle"
        BY <1>12, <4>2, <3>1, ReturnLease, OthersKnow DEF Store
      <4>3. QED
        BY <4>1, <4>2
    <3>5. CASE pc[c] = "store"
      <4>1. lastGood' = entered[c] /\ state[c].next = entered[c] + Interval
        BY <1>12, <2>2, <3>5 DEF Store, ScheduleInv, CallKnows
      <4>2. QED
        BY <3>1, <3>2, <3>3, <3>4, <4>1 DEF ScheduleInv
    <3>6. CASE pc[c] = "hint"
      <4>1. /\ lastGood' = lastGood /\ state[c].next >= entered[c] + Retry
            /\ state[c].next >= lastGood + Interval /\ state[c].next <= clock + Interval
        BY <1>12, <2>2, <3>6 DEF Store, ScheduleInv, CallKnows
      <4>2. QED
        BY <3>1, <3>2, <3>3, <3>4, <4>1 DEF ScheduleInv
    <3>7. QED
      BY <1>12, <3>5, <3>6 DEF Store
  <2>3. QED
    BY <2>1, <2>2
<1>13. ASSUME NEW p \in Processes, Crash(p) PROVE ScheduleInv'
  <2>1. mu[p] \in Callers
    BY <1>13 DEF Crash, CheckTypeOK
  <2>2. QED
    BY <1>13, <2>1, ReturnSchedule DEF Crash
<1>14. CASE ClockTick
  <2>1. clock \in Nat /\ clock' = clock + 1
    BY <1>14 DEF ClockTick, CheckTypeOK
  <2>2. \A c \in Callers : CallKnows(c)'
    BY <1>14, <2>1 DEF ClockTick, CheckTypeOK, Cache, ScheduleInv, CallKnows
  <2>3. lastContact \in Int /\ cache.next \in Nat /\ cache.attempt \in Nat
    BY DEF CheckTypeOK, Cache
  <2>4. QED
    BY <1>14, <2>1, <2>2, <2>3 DEF ClockTick, ScheduleInv
<1>15. CASE PublishRelease
  BY <1>15 DEF PublishRelease, ScheduleInv, CallKnows
<1>16. CASE UNCHANGED checkVars
  BY <1>16 DEF checkVars, ScheduleInv, CallKnows
<1>17. QED
  BY <1>1, <1>2, <1>3, <1>4, <1>5, <1>6, <1>7, <1>8, <1>9, <1>10, <1>11, <1>12,
     <1>13, <1>14, <1>15, <1>16 DEF CheckNext, Advance, Answer

(* The shared schedule holds in every state prompt callers can reach. *)
THEOREM ScheduleSafe ==
  ASSUME PromptCalls
  PROVE  CheckSpec => []ScheduleInv
<1>1. CheckInit => ScheduleInv
  BY ConstantFacts DEF CheckInit, ScheduleInv, CallKnows, Cache, NoCache, Never, Timed
<1>2. CheckTypeOK /\ CheckTypeOK' /\ LeaseInv /\ ScheduleInv /\ [CheckNext]_checkVars => ScheduleInv'
  BY ScheduleStep
<1>3. QED
  BY <1>1, <1>2, CheckTypeCorrect, LeaseSafe, PTL DEF CheckSpec

(* Two requests, whichever processes send them, are at least Retry apart,  *)
(* and none is sent within Interval of a success that was stored.          *)
THEOREM RequestsAreSpaced ==
  ASSUME PromptCalls
  PROVE  CheckSpec => RequestsSpaced
<1>1. ScheduleInv /\ [CheckNext]_checkVars =>
        [\A c \in Callers : Contact(c) =>
            entered[c] >= lastContact + Retry /\ entered[c] >= lastGood + Interval]_checkVars
  BY DEF ScheduleInv, CallKnows, Contact
<1>2. QED
  BY <1>1, ScheduleSafe, PTL DEF CheckSpec, RequestsSpaced

-----------------------------------------------------------------------------
(* Catalogs. *)
Names == Catalogs \cup Inspected
Entry == [server : Inspected, tool : Tools, expires : Nat, taken : Nat]
Record == [server : Servers, tool : Tools \cup {Discover},
           expires : Nat \cup {None}, taken : Nat \cup {None}]
Row == [server : Servers, tool : Tools \cup {Discover}, taken : Nat \cup {None}]
Cmd == [pc : {"idle", "page", "replace", "inspect", "merge", "store", "load", "clear", "insert"},
        only : {None} \cup Names, todo : Seq(Names),
        cursor : Nat, asked : SUBSET Nat, pages : Nat, found : Seq(Servers),
        seen : SUBSET (Inspected \X Tools), merged : SUBSET Entry, records : Seq(Record),
        steady : SUBSET Servers, ever : SUBSET Servers, alone : BOOLEAN]

(* A command by the place it is at. *)
Sensible(c) ==
  /\ c \in Cmd
  /\ c.pc \in {"page", "replace"} => c.todo \in Seq(Catalogs) /\ c.todo # <<>>
  /\ c.pc = "inspect" => c.todo \in Seq(Inspected) /\ c.todo # <<>> /\ IsInjective(c.todo)
  /\ c.pc = "load" => c.todo \in Seq(Catalogs) /\ IsInjective(c.todo)
  /\ IsFiniteSet(c.seen) /\ IsFiniteSet(c.merged)

WorldTypes ==
  /\ place \in [Catalogs -> [Servers -> Nat]] /\ changes \in Nat
  /\ offers \in [Inspected -> Offers] /\ offered \in [Inspected -> SUBSET Offers]
  /\ now \in Nat
FileTypes ==
  /\ file \in [Catalogs -> {None} \cup Seq(Servers)]
  /\ observed # None => observed \subseteq Entry /\ IsFiniteSet(observed)
IndexTypes == rows \subseteq Row /\ expires \in [Servers -> Nat \cup {None}] /\ marred \in BOOLEAN
CommandTypes ==
  /\ cmd \in [Commands -> Cmd]
  /\ \A p \in Commands : Sensible(cmd[p])
CatalogsTypeOK == WorldTypes /\ FileTypes /\ IndexTypes /\ CommandTypes

(* Servers of a registry are listed one by one. *)
PlacesInv ==
  /\ \A s \in Inspected : offers[s] \in offered[s]
  /\ \A src \in Faithful :
       /\ \A s \in Servers : place[src][s] <= Cardinality(Servers) + changes
       /\ \A s, t \in Servers : place[src][s] = place[src][t] /\ place[src][s] > 0 => s = t

(* A listing has so far what was listed up to its cursor and is listed     *)
(* still, and nothing that was not listed meanwhile.                       *)
HasSoFar(c, src) ==
  /\ ToSet(c.found) \subseteq c.ever /\ Now(src) \subseteq c.ever /\ c.steady \subseteq Now(src)
  /\ c.pc = "page" => /\ c.cursor <= Cardinality(Servers) + changes
                      /\ \A s \in c.steady : place[src][s] <= c.cursor => s \in ToSet(c.found)
  /\ c.pc = "replace" => c.steady \subseteq ToSet(c.found)
ListingOf(c) ==
  c.pc \in {"page", "replace"} =>
    /\ IsInjective(c.found) /\ ToSet(c.found) \subseteq Trusted(Head(c.todo)) /\ c.pages < MaxPages
    /\ Head(c.todo) \in Faithful => HasSoFar(c, Head(c.todo))
ListingInv == \A p \in Commands : ListingOf(cmd[p])

(* What is observed of a server was offered and taken at one time. *)
Whole(ts, s) == ts \in offered[s] \cup {{}}
Snapshot(E) ==
  /\ \A s \in Inspected : Whole({e.tool : e \in {o \in E : o.server = s}}, s)
  /\ \A e \in E : e.expires = e.taken + TTL
  /\ \A e, f \in E : e.server = f.server => e.taken = f.taken
InspectionOf(c) ==
  /\ c.pc \in {"inspect", "merge"} =>
       /\ \A s \in Inspected : Whole({t \in Tools : <<s, t>> \in c.seen}, s)
       /\ c.only # None => \A k \in c.seen : k[1] = c.only
  /\ c.pc = "inspect" =>
       /\ \A k \in c.seen : k[1] \notin ToSet(c.todo)
       /\ c.only # None => ToSet(c.todo) \subseteq {c.only}
  /\ c.pc = "store" => Snapshot(c.merged)
InspectionInv ==
  /\ observed # None => Snapshot(observed)
  /\ \A p \in Commands : InspectionOf(cmd[p])

(* After what was observed of a server nothing else of it is inserted. *)
Unsuggested(s) == \A k \in Suggested : k[1] # s
Stamped(records) ==
  /\ \A i \in DOMAIN records : records[i].taken # None => records[i].expires = records[i].taken + TTL
  /\ \A i, j \in DOMAIN records :
       i < j /\ records[i].server = records[j].server /\ Unsuggested(records[i].server)
       /\ records[i].taken # None => records[j].taken = records[i].taken
LoadOf(c) ==
  /\ c.pc = "load" => \A i \in DOMAIN c.records : c.records[i].taken = None
  /\ c.pc \in {"clear", "insert"} => Stamped(c.records)
LoadInv == \A p \in Commands : LoadOf(cmd[p])

StillToCome(r) ==
  \A p \in Commands : cleared = p /\ cmd[p].pc = "insert" =>
    \A i \in DOMAIN cmd[p].records :
      cmd[p].records[i].server = r.server => cmd[p].records[i].taken = r.taken
StampInv ==
  ~marred => \A r \in rows :
    r.taken # None /\ Unsuggested(r.server) =>
      expires[r.server] = r.taken + TTL /\ StillToCome(r)

(* A refresh that is alone: what is inserted and what is to be inserted    *)
(* are what the files have.                                                *)
AloneOf(p) ==
  LET c == cmd[p] IN
  c.alone =>
    /\ Alone(p) /\ c.pc \in {"load", "clear", "insert"}
    /\ c.pc = "load" => KeysOf(ToSet(c.records)) = ListedIn(Catalogs \ ToSet(c.todo))
    /\ c.pc = "clear" => KeysOf(ToSet(c.records)) = Known
    /\ c.pc = "insert" /\ ~marred => KeysOf(rows) \cup KeysOf(ToSet(c.records)) = Known
AloneInv == \A p \in Commands : AloneOf(p)

CatalogsInv == /\ CatalogsTypeOK /\ PlacesInv /\ ListingInv /\ InspectionInv
        /\ LoadInv /\ StampInv /\ AloneInv /\ runs \in Nat

(* A set of places has a least one: numbers are well founded under <. *)
LEMMA LeastPlace ==
  ASSUME NEW T, T # {}, NEW f, \A s \in T : f[s] \in Nat
  PROVE  \E s \in T : \A t \in T : f[s] <= f[t]
<1> DEFINE N == {f[s] : s \in T}
           R == OpToRel(<, Nat)
<1>1. IsWellFoundedOn(R, Nat)
  BY NatLessThanWellFounded, Zenon
<1>2. N \subseteq Nat /\ N # {}
  OBVIOUS
<1>3. PICK n \in N : \A m \in N : <<m, n>> \notin R
  <2> HIDE DEF R, N
  <2>1. QED
    BY <1>1, <1>2, WFMin
<1>4. \A m \in N : ~(m < n)
  BY <1>2, <1>3 DEF OpToRel
<1>5. PICK s \in T : n = f[s]
  OBVIOUS
<1>6. \A t \in T : f[s] <= f[t]
  BY <1>4, <1>5
<1>7. QED
  BY <1>6

(* SetToSeq lists the elements of a finite set, each of them. *)
LEMMA SetToSeqOK ==
  ASSUME NEW S, IsFiniteSet(S)
  PROVE  /\ SetToSeq(S) \in Seq(S)
         /\ ToSet(SetToSeq(S)) = S
<1> DEFINE n == Cardinality(S)
<1>1. n \in Nat /\ ExistsBijection(1..n, S)
  BY FS_CardinalityType
<1>2. PICK g \in Bijection(1..n, S) : TRUE
  BY <1>1 DEF ExistsBijection
<1>3. g \in [1..n -> S] /\ IsInjective(g)
  BY <1>2 DEF Bijection, Injection
<1>4. SetToSeq(S) \in [1..n -> S] /\ IsInjective(SetToSeq(S))
  BY <1>3 DEF SetToSeq
<1> DEFINE f == SetToSeq(S)
<1>5. f \in Injection(1..n, S)
  BY <1>4 DEF Injection
<1> HIDE DEF f
<1>6. f \in Surjection(1..n, S)
  BY <1>1, <1>5, FS_Injection, FS_Interval
<1>7. \A x \in S : \E i \in 1..n : f[i] = x
  BY <1>6 DEF Surjection
<1>8. QED
  BY <1>1, <1>4, <1>7 DEF f, ToSet
-----------------------------------------------------------------------------
(* Types. *)
LEMMA Constants ==
  /\ Sources \in Seq(Catalogs) /\ IsInjective(Sources) /\ Faithful \subseteq Catalogs
  /\ Bound \in Seq(Inspected) /\ IsInjective(Bound) /\ Inspected \subseteq Servers
  /\ IsFiniteSet(Servers) /\ Cardinality(Servers) \in Nat
  /\ TTL \in Nat /\ MaxPages \in Nat \ {0} /\ MaxLoad \in Nat /\ MaxRuns \in Nat /\ MaxChanges \in Nat
  /\ None \notin Catalogs /\ None \notin Servers /\ None \notin Nat /\ None \notin Inspected
<1>1. Bound \in Seq(Inspected) /\ Inspected \subseteq Servers
  <2>1. Bound \in Seq(Servers)
    BY CatalogsAssumption DEF CatalogsAssumption
  <2>2. Len(Bound) \in Nat /\ Bound \in [1..Len(Bound) -> Servers]
    BY <2>1, LenProperties
  <2>3. Bound \in [1..Len(Bound) -> Inspected]
    BY <2>2 DEF Inspected
  <2>4. QED
    BY <2>2, <2>3, SeqDef DEF Inspected
<1>2. Cardinality(Servers) \in Nat
  BY FS_CardinalityType, CatalogsAssumption DEF CatalogsAssumption
<1>3. QED
  BY <1>1, <1>2, CatalogsAssumption DEF CatalogsAssumption

(* `--source` and `--server` choose one of the configured names, or all. *)
LEMMA SelectedSeq ==
  ASSUME NEW S, NEW all \in Seq(S), all # <<>>, IsInjective(all), NEW only \in {None} \cup S
  PROVE  /\ Selected(all, only) \in Seq(S) /\ Selected(all, only) # <<>>
         /\ IsInjective(Selected(all, only))
         /\ only # None => ToSet(Selected(all, only)) \subseteq {only}
BY DEF Selected, IsInjective, ToSet

(* A sequence over a set is one over any larger set. *)
LEMMA SmallerSeq ==
  ASSUME NEW S, NEW T, S \subseteq T, NEW f \in Seq(S)
  PROVE  f \in Seq(T)
BY SeqMonotonic

(* Taking the first of what is to be done leaves the others, once each. *)
LEMMA TailFacts ==
  ASSUME NEW S, NEW f \in Seq(S), f # <<>>, IsInjective(f)
  PROVE  /\ Tail(f) \in Seq(S) /\ IsInjective(Tail(f))
         /\ Head(f) \in ToSet(f) /\ ToSet(Tail(f)) = ToSet(f) \ {Head(f)}
         /\ Len(f) # 1 => Tail(f) # <<>>
<1>1. /\ Len(f) \in Nat \ {0} /\ DOMAIN f = 1..Len(f) /\ Tail(f) \in Seq(S) /\ Head(f) = f[1]
      /\ Len(Tail(f)) = Len(f) - 1 /\ DOMAIN Tail(f) = 1..Len(f) - 1
      /\ \A i \in 1..Len(f) - 1 : Tail(f)[i] = f[i + 1]
  OBVIOUS
<1>2. IsInjective(Tail(f))
  BY <1>1 DEF IsInjective
<1>3. \A i \in 2..Len(f) : f[i] = Tail(f)[i - 1] /\ i - 1 \in 1..Len(f) - 1 /\ f[i] # f[1]
  BY <1>1 DEF IsInjective
<1>4. ToSet(Tail(f)) \subseteq ToSet(f) \ {f[1]}
  BY <1>1 DEF ToSet, IsInjective
<1>5. ToSet(f) \ {f[1]} \subseteq ToSet(Tail(f))
  <2> SUFFICES ASSUME NEW i \in 1..Len(f), f[i] # f[1] PROVE f[i] \in ToSet(Tail(f))
    BY <1>1 DEF ToSet
  <2>1. i \in 2..Len(f)
    BY <1>1
  <2>2. QED
    BY <1>1, <1>3, <2>1 DEF ToSet
<1>6. Head(f) \in ToSet(f) /\ (Len(f) # 1 => Tail(f) # <<>>)
  BY <1>1 DEF ToSet
<1>7. QED
  BY <1>1, <1>2, <1>4, <1>5, <1>6

(* A process that runs no command. *)
LEMMA IdleSensible == Idle \in Cmd /\ Sensible(Idle)
<1>1. IsFiniteSet({})
  BY FS_EmptySet
<1>2. QED
  BY <1>1 DEF Idle, Cmd, Sensible, Names

(* A sync that begins with the first page of its first source. *)
LEMMA SyncingSensible ==
  ASSUME WorldTypes, NEW c \in Cmd, Sensible(c), NEW todo \in Seq(Catalogs), todo # <<>>
  PROVE  Sensible(Syncing(c, todo))
<1>1. todo \in Seq(Names)
  BY SmallerSeq DEF Names
<1>2. Now(Head(todo)) \in SUBSET Servers
  BY DEF Now, Trusted
<1>3. Syncing(c, todo) \in Cmd
  <2> DEFINE n == Now(Head(todo))
  <2> HIDE DEF n
  <2>1. <<>> \in Seq(Servers) /\ n \in SUBSET Servers
    BY <1>2 DEF n
  <2>2. [c EXCEPT !.pc = "page", !.todo = todo, !.cursor = 0, !.asked = {}, !.pages = 0,
                  !.found = <<>>, !.steady = n, !.ever = n] \in Cmd
    BY <1>1, <2>1 DEF Cmd
  <2>3. QED
    BY <2>2 DEF Syncing, n
<1>4. QED
  BY <1>3 DEF Syncing, Sensible, Cmd

(* A refresh that begins. *)
LEMMA LoadingSensible ==
  ASSUME NEW b \in BOOLEAN
  PROVE  Sensible(Loading(b))
<1>1. Sources \in Seq(Names)
  BY SmallerSeq, Constants DEF Names
<1>2. IsFiniteSet({})
  BY FS_EmptySet
<1>3. Loading(b) \in Cmd
  BY <1>1, IdleSensible DEF Loading, Cmd
<1>4. QED
  BY <1>2, <1>3, Constants DEF Loading, Idle, Sensible

Moves(p) == StartSync(p) \/ StartInspect(p) \/ StartRefresh(p) \/ Step(p) \/ Stop(p)
Calmed(c) == {c, [c EXCEPT !.alone = FALSE]}

(* A command writes its own record, and in the others only that they are   *)
(* not alone any more.                                                     *)
LEMMA Frame ==
  ASSUME CommandTypes, NEW p \in Commands, Moves(p)
  PROVE  /\ UNCHANGED <<place, changes, offers, offered, now>>
         /\ cmd' = [q \in Commands |-> cmd'[q]]
         /\ \A q \in Commands : q # p => cmd'[q] \in Calmed(cmd[q])
<1> USE DEF CommandTypes, Calmed, registries, servers
<1>1. ASSUME NEW c, Start(p, c) PROVE
         /\ UNCHANGED <<place, changes, offers, offered, now>>
         /\ cmd' = [q \in Commands |-> cmd'[q]]
         /\ \A q \in Commands : q # p => cmd'[q] \in Calmed(cmd[q])
  BY <1>1 DEF Start
<1>2. ASSUME NEW c, Become(p, c) PROVE
         /\ cmd' = [q \in Commands |-> cmd'[q]]
         /\ \A q \in Commands : q # p => cmd'[q] \in Calmed(cmd[q])
  BY <1>2 DEF Become
<1>3. CASE StartSync(p) \/ StartInspect(p) \/ StartRefresh(p)
  BY <1>1, <1>3 DEF StartSync, StartInspect, StartRefresh
<1>4. CASE Step(p) \/ Stop(p)
  <2>1. UNCHANGED <<place, changes, offers, offered, now>>
    BY <1>4 DEF Step, Stop, FetchPage, ReplaceCatalog, Inspect, Merge, ReplaceObserved, LoadCatalog,
       LoadObserved, Clear, Insert, Finish
  <2>2. \E c : Become(p, c)
    BY <1>4 DEF Step, Stop, FetchPage, ReplaceCatalog, Inspect, Merge, ReplaceObserved, LoadCatalog,
       LoadObserved, Clear, Insert, Finish
  <2>3. QED
    BY <1>2, <2>1, <2>2
<1>5. QED
  BY <1>3, <1>4 DEF Moves

(* A page lists what comes after the cursor, and its own cursor is in      *)
(* range.                                                                  *)
LEMMA PageAfterFacts ==
  ASSUME WorldTypes, PlacesInv, NEW src \in Faithful, NEW cursor \in Nat,
         NEW page, page = PageAfter(src, cursor)
  PROVE  /\ page \in Page
         /\ page.server # None => place[src][page.server] > cursor
         /\ page.next <= Cardinality(Servers) + changes
         /\ page.next # 0 => \A s \in Servers :
              place[src][s] > cursor /\ place[src][s] <= page.next => s = page.server
         /\ page.next = 0 => \A s \in Servers : place[src][s] > cursor => s = page.server
<1> DEFINE rest == {s \in Servers : place[src][s] > cursor}
           first == CHOOSE s \in rest : \A t \in rest : place[src][s] <= place[src][t]
<1>0. /\ \A s \in Servers : place[src][s] \in Nat /\ place[src][s] <= Cardinality(Servers) + changes
      /\ \A s, t \in Servers : place[src][s] = place[src][t] /\ place[src][s] > 0 => s = t
      /\ changes \in Nat
  BY Constants DEF WorldTypes, PlacesInv
<1>1. CASE rest = {}
  <2>1. page = [server |-> None, next |-> 0]
    BY <1>1 DEF PageAfter
  <2>2. QED
    BY <1>0, <1>1, <2>1, Constants DEF Page
<1>2. CASE rest # {}
  <2>1. first \in rest /\ \A t \in rest : place[src][first] <= place[src][t]
    <3> DEFINE f == place[src]
    <3>1. \A s \in rest : f[s] \in Nat
      BY <1>0
    <3>2. \E s \in rest : \A t \in rest : f[s] <= f[t]
      <4> HIDE DEF f, rest
      <4>1. QED
        BY <1>2, <3>1, LeastPlace
    <3>3. QED
      BY <3>2
  <2>2. page = [server |-> first, next |-> IF rest = {first} THEN 0 ELSE place[src][first]]
    BY <1>2 DEF PageAfter
  <2> HIDE DEF first
  <2>3. page.server = first /\ first \in Servers /\ place[src][first] > cursor /\ page \in Page
    BY <1>0, <2>1, <2>2 DEF Page
  <2>4. \A s \in Servers : place[src][s] > cursor => place[src][first] <= place[src][s]
    BY <2>1
  <2>5. CASE rest = {first}
    BY <1>0, <2>2, <2>3, <2>5, Constants
  <2>6. CASE rest # {first}
    BY <1>0, <2>2, <2>3, <2>4, <2>6
  <2>7. QED
    BY <2>5, <2>6
<1>3. QED
  BY <1>1, <1>2

(* Whatever a registry answers is a page. *)
LEMMA AnswerTypes ==
  ASSUME WorldTypes, PlacesInv, NEW src \in Catalogs, NEW cursor \in Nat,
         NEW page \in Answers(src, cursor)
  PROVE  page \in Page
<1>1. CASE src \in Faithful
  BY <1>1, PageAfterFacts DEF Answers
<1>2. CASE src \notin Faithful
  BY <1>2, CatalogsAssumption DEF Answers, CatalogsAssumption
<1>3. QED
  BY <1>1, <1>2

(* Of a page, the trusted server that was not seen before is taken, once. *)
LEMMA TakenFacts ==
  ASSUME NEW c \in Cmd, NEW src, NEW page \in Page
  PROVE  /\ c.found \o Taken(c, src, page) \in Seq(Servers)
         /\ ToSet(c.found \o Taken(c, src, page)) =
              ToSet(c.found) \cup ({page.server} \cap Trusted(src))
         /\ IsInjective(c.found) => IsInjective(c.found \o Taken(c, src, page))
<1>1. c.found \in Seq(Servers) /\ Trusted(src) \subseteq Servers
  BY DEF Cmd, Trusted
<1> DEFINE f == c.found
           s == page.server
<1>2. CASE s \in Trusted(src) \ ToSet(f)
  <2>1. Taken(c, src, page) = <<s>> /\ s \in Servers
    BY <1>1, <1>2 DEF Taken
  <2> HIDE DEF f, s
  <2>2. /\ f \o <<s>> \in Seq(Servers) /\ Len(f \o <<s>>) = Len(f) + 1 /\ Len(f) \in Nat
        /\ \A i \in 1..Len(f) + 1 : (f \o <<s>>)[i] = IF i <= Len(f) THEN f[i] ELSE s
    BY <1>1, <2>1 DEF f
  <2>3. DOMAIN (f \o <<s>>) = 1..Len(f) + 1 /\ DOMAIN f = 1..Len(f)
    BY <1>1, <2>2 DEF f
  <2>4. ToSet(f \o <<s>>) = ToSet(f) \cup {s}
    BY <2>2, <2>3 DEF ToSet
  <2>5. ASSUME IsInjective(f) PROVE IsInjective(f \o <<s>>)
    BY <1>2, <2>2, <2>3, <2>5 DEF IsInjective, ToSet
  <2>6. QED
    BY <1>2, <2>1, <2>2, <2>4, <2>5 DEF f, s
<1>3. CASE s \notin Trusted(src) \ ToSet(f)
  <2>1. Taken(c, src, page) = <<>>
    BY <1>3 DEF Taken
  <2>2. f \o <<>> = f
    BY <1>1
  <2>3. QED
    BY <1>1, <1>3, <2>1, <2>2
<1>4. QED
  BY <1>2, <1>3

(* What a command becomes by each of its steps.                            *)
LEMMA StartTypes ==
  ASSUME CatalogsTypeOK, NEW p \in Commands, StartSync(p) \/ StartInspect(p) \/ StartRefresh(p)
  PROVE  Sensible(cmd'[p])
<1>0. ASSUME NEW c, Start(p, c) PROVE cmd'[p] = c
  BY <1>0 DEF Start
<1>1. CASE StartSync(p)
  <2>1. PICK only \in {None} \cup Catalogs :
          Sources # <<>> /\ Start(p, Syncing([Idle EXCEPT !.only = only], Selected(Sources, only)))
    BY <1>1 DEF StartSync
  <2>2. Selected(Sources, only) \in Seq(Catalogs) /\ Selected(Sources, only) # <<>>
    BY <2>1, Constants, SelectedSeq
  <2>3. [Idle EXCEPT !.only = only] \in Cmd /\ Sensible([Idle EXCEPT !.only = only])
    BY IdleSensible DEF Cmd, Sensible, Names, Idle
  <2>4. QED
    BY <1>0, <2>1, <2>2, <2>3, SyncingSensible DEF CatalogsTypeOK
<1>2. CASE StartInspect(p)
  <2>1. PICK only \in {None} \cup Inspected : /\ Bound # <<>>
          /\ Start(p, [Idle EXCEPT !.pc = "inspect", !.only = only, !.todo = Selected(Bound, only)])
    BY <1>2 DEF StartInspect
  <2> DEFINE todo == Selected(Bound, only)
  <2>2. todo \in Seq(Inspected) /\ todo # <<>> /\ IsInjective(todo)
    BY <2>1, Constants, SelectedSeq
  <2>3. todo \in Seq(Names)
    BY <2>2, SmallerSeq DEF Names
  <2> HIDE DEF todo
  <2>4. [Idle EXCEPT !.pc = "inspect", !.only = only, !.todo = todo] \in Cmd
    BY <2>3, IdleSensible DEF Cmd, Names
  <2>5. Sensible([Idle EXCEPT !.pc = "inspect", !.only = only, !.todo = todo])
    BY <2>2, <2>4, IdleSensible DEF Sensible, Cmd
  <2>6. QED
    BY <1>0, <2>1, <2>5 DEF todo
<1>3. CASE StartRefresh(p)
  BY <1>0, <1>3, LoadingSensible DEF StartRefresh, Alone
<1>4. QED
  BY <1>1, <1>2, <1>3

LEMMA FetchTypes ==
  ASSUME CatalogsTypeOK, PlacesInv, NEW p \in Commands, FetchPage(p)
  PROVE  Sensible(cmd'[p])
<1> DEFINE c == cmd[p]
           src == Head(c.todo)
<1>1. c \in Cmd /\ Sensible(c) /\ c.pc = "page" /\ src \in Catalogs
  BY DEF CatalogsTypeOK, CommandTypes, FetchPage, Sensible
<1>2. PICK page \in Answers(src, c.cursor) :
        LET d == [c EXCEPT !.found = c.found \o Taken(c, src, page)] IN
        Become(p, CASE Follows(c, page.next) ->
                        [d EXCEPT !.cursor = page.next, !.asked = @ \cup {page.next},
                                  !.pages = IF @ < MaxPages THEN @ + 1 ELSE @]
                   [] Completes(c, page.next) -> [d EXCEPT !.pc = "replace"]
                   [] OTHER -> Idle)
  BY DEF FetchPage
<1> DEFINE f == c.found \o Taken(c, src, page)
           d == [c EXCEPT !.found = f]
<1>3. page \in Page /\ f \in Seq(Servers)
  <2>1. page \in Page
    BY <1>1, AnswerTypes DEF CatalogsTypeOK, Cmd
  <2>2. QED
    BY <1>1, <2>1, TakenFacts
<1>4. d \in Cmd /\ Sensible(d) /\ d.pc = "page" /\ d.pages \in Nat
  <2> HIDE DEF c, f
  <2>1. d \in Cmd
    BY <1>1, <1>3 DEF Cmd
  <2>2. QED
    BY <1>1, <2>1 DEF Cmd, Sensible
<1> DEFINE d1 == [d EXCEPT !.cursor = page.next, !.asked = @ \cup {page.next},
                           !.pages = IF @ < MaxPages THEN @ + 1 ELSE @]
           d2 == [d EXCEPT !.pc = "replace"]
<1>5. Sensible(d1) /\ Sensible(d2)
  <2> HIDE DEF d
  <2> DEFINE asked == d.asked \cup {page.next}
             pages == IF d.pages < MaxPages THEN d.pages + 1 ELSE d.pages
  <2>3. page.next \in Nat /\ asked \in SUBSET Nat /\ pages \in Nat
    BY <1>3, <1>4, Constants DEF Cmd, Page
  <2>4. d2 \in Cmd
    BY <1>4 DEF Cmd
  <2>5. d1 = [d EXCEPT !.cursor = page.next, !.asked = asked, !.pages = pages]
    BY <1>4 DEF Cmd
  <2>1. d1 \in Cmd /\ d2 \in Cmd
    <3> HIDE DEF asked, pages, d1
    <3>1. [d EXCEPT !.cursor = page.next, !.asked = asked, !.pages = pages] \in Cmd
      BY <1>4, <2>3 DEF Cmd
    <3>2. QED
      BY <2>4, <2>5, <3>1
  <2>2. QED
    BY <1>4, <2>1 DEF Sensible, Cmd
<1>6. cmd'[p] \in {d1, d2, Idle}
  <2>1. \E x \in {d1, d2, Idle} : Become(p, x)
    BY <1>2
  <2> HIDE DEF d1, d2
  <2>2. QED
    BY <2>1 DEF Become, CatalogsTypeOK, CommandTypes
<1>7. QED
  BY <1>5, <1>6, IdleSensible

LEMMA ReplaceTypes ==
  ASSUME CatalogsTypeOK, NEW p \in Commands, ReplaceCatalog(p)
  PROVE  Sensible(cmd'[p])
<1> DEFINE c == cmd[p]
           rest == Tail(c.todo)
<1>1. c \in Cmd /\ Sensible(c) /\ rest \in Seq(Catalogs)
  BY DEF CatalogsTypeOK, CommandTypes, ReplaceCatalog, Sensible
<1>2. cmd'[p] = IF rest = <<>> THEN Loading(Alone(p)) ELSE Syncing(c, rest)
  BY DEF ReplaceCatalog, Become, CatalogsTypeOK, CommandTypes
<1>3. Alone(p) \in BOOLEAN
  BY DEF Alone
<1>4. QED
  <2> HIDE DEF c, rest
  <2>1. QED
    BY <1>1, <1>2, <1>3, SyncingSensible, LoadingSensible DEF CatalogsTypeOK

LEMMA InspectTypes ==
  ASSUME CatalogsTypeOK, NEW p \in Commands, Inspect(p)
  PROVE  Sensible(cmd'[p])
<1> DEFINE c == cmd[p]
           s == Head(c.todo)
           new == {<<s, t>> : t \in offers[s]}
<1>1. c \in Cmd /\ Sensible(c) /\ c.todo \in Seq(Inspected) /\ c.todo # <<>> /\
      IsInjective(c.todo) /\ s \in Inspected
  BY DEF CatalogsTypeOK, CommandTypes, Inspect, Sensible
<1>2. offers[s] \subseteq Tools /\ IsFiniteSet(offers[s])
  BY <1>1, CatalogsAssumption DEF CatalogsTypeOK, WorldTypes, CatalogsAssumption
<1>3. IsFiniteSet(new) /\ new \subseteq Inspected \X Tools
  <2>1. IsFiniteSet({s} \X offers[s])
    BY <1>2, FS_Singleton, FS_Product
  <2>2. new = {s} \X offers[s]
    OBVIOUS
  <2>3. QED
    BY <1>1, <1>2, <2>1, <2>2
<1>4. IsFiniteSet(c.seen \cup new) /\ c.seen \cup new \subseteq Inspected \X Tools
  <2>1. IsFiniteSet(c.seen) /\ c.seen \subseteq Inspected \X Tools
    BY <1>1 DEF Sensible, Cmd
  <2> HIDE DEF c, new
  <2>2. QED
    BY <1>3, <2>1, FS_Union
<1>5. /\ Tail(c.todo) \in Seq(Inspected) /\ IsInjective(Tail(c.todo)) /\ Tail(c.todo) \in Seq(Names)
      /\ Len(c.todo) # 1 => Tail(c.todo) # <<>>
  <2>1. Tail(c.todo) \in Seq(Inspected) /\ IsInjective(Tail(c.todo)) /\
        (Len(c.todo) # 1 => Tail(c.todo) # <<>>)
    BY <1>1, TailFacts
  <2>2. QED
    BY <2>1, SmallerSeq DEF Names
<1> DEFINE seen == c.seen \cup new
           todo == Tail(c.todo)
           pl == IF Len(c.todo) = 1 THEN "merge" ELSE "inspect"
           d == [c EXCEPT !.seen = seen, !.todo = todo, !.pc = pl]
<1>6. cmd'[p] = d
  BY DEF Inspect, Become, CatalogsTypeOK, CommandTypes
<1>7. d \in Cmd /\ d.todo = todo /\ d.seen = seen /\ d.merged = c.merged /\ d.pc = pl
  <2>1. pl \in {"merge", "inspect"}
    OBVIOUS
  <2> HIDE DEF c, seen, todo, pl
  <2>2. seen \in SUBSET (Inspected \X Tools) /\ todo \in Seq(Names)
    BY <1>4, <1>5 DEF seen, todo
  <2>3. QED
    BY <1>1, <2>1, <2>2 DEF Cmd
<1>8. pl = "inspect" => todo # <<>>
  BY <1>5
<1>9. IsFiniteSet(c.merged)
  BY <1>1 DEF Sensible
<1>10. QED
  <2>1. pl \in {"merge", "inspect"}
    OBVIOUS
  <2> HIDE DEF d, pl
  <2>2. QED
    BY <1>4, <1>5, <1>6, <1>7, <1>8, <1>9, <2>1 DEF Sensible

(* Merging an inspection gives a finite set of entries. *)
LEMMA MergedTypes ==
  ASSUME CatalogsTypeOK, NEW c \in Cmd, IsFiniteSet(c.seen)
  PROVE  Merged(c) \subseteq Entry /\ IsFiniteSet(Merged(c))
<1> DEFINE seen == c.seen
           E(k) == [server |-> k[1], tool |-> k[2], expires |-> now + TTL, taken |-> now]
           new == {E(k) : k \in seen}
           g == [k \in seen |-> E(k)]
<1>1. now \in Nat /\ now + TTL \in Nat /\ seen \subseteq Inspected \X Tools
  BY Constants DEF CatalogsTypeOK, WorldTypes, Cmd
<1>2. new \subseteq Entry
  BY <1>1 DEF Entry
<1>3. IsFiniteSet(new)
  <2>1. g \in Surjection(seen, new)
    BY DEF Surjection
  <2> HIDE DEF g, new
  <2>2. QED
    BY <2>1, FS_Surjection
<1>4. Kept(c) \subseteq Entry /\ IsFiniteSet(Kept(c))
  <2>1. CASE c.only = None \/ observed = None
    BY <2>1, FS_EmptySet DEF Kept
  <2>2. CASE ~(c.only = None \/ observed = None)
    <3>1. Kept(c) \subseteq observed
      BY <2>2 DEF Kept
    <3>2. observed \subseteq Entry /\ IsFiniteSet(observed)
      BY <2>2 DEF CatalogsTypeOK, FileTypes
    <3>3. QED
      BY <3>1, <3>2, FS_Subset
  <2>3. QED
    BY <2>1, <2>2
<1> DEFINE added == {e \in new : \A k \in Kept(c) : Key(k) # Key(e)}
<1>5. IsFiniteSet(added) /\ added \subseteq Entry
  <2>1. added \in SUBSET new
    OBVIOUS
  <2> HIDE DEF added, new
  <2>2. QED
    BY <1>2, <1>3, <2>1, FS_Subset
<1>6. Merged(c) = Kept(c) \cup added
  BY DEF Merged
<1>7. QED
  <2> HIDE DEF added
  <2>1. QED
    BY <1>4, <1>5, <1>6, FS_Union

(* The records of a catalog file. *)
LEMMA ListedSeq ==
  ASSUME NEW f \in Seq(Servers)
  PROVE  /\ [i \in DOMAIN f |-> Listed(f[i])] \in Seq(Record)
         /\ ToSet([i \in DOMAIN f |-> Listed(f[i])]) = {Listed(s) : s \in ToSet(f)}
<1>1. Len(f) \in Nat /\ DOMAIN f = 1..Len(f) /\ \A i \in 1..Len(f) : Listed(f[i]) \in Record
  BY DEF Listed, Record
<1>2. [i \in DOMAIN f |-> Listed(f[i])] \in [1..Len(f) -> Record]
  BY <1>1
<1>3. QED
  BY <1>1, <1>2, SeqDef DEF ToSet

(* A concatenation has the elements of both parts, in their places. *)
LEMMA ConcatSet ==
  ASSUME NEW S, NEW f \in Seq(S), NEW g \in Seq(S)
  PROVE  f \o g \in Seq(S) /\ ToSet(f \o g) = ToSet(f) \cup ToSet(g)
<1>1. /\ f \o g \in Seq(S) /\ Len(f) \in Nat /\ Len(g) \in Nat /\ Len(f \o g) = Len(f) + Len(g)
      /\ \A i \in 1..Len(f) + Len(g) : (f \o g)[i] = IF i <= Len(f) THEN f[i] ELSE g[i - Len(f)]
  BY ConcatProperties, LenProperties
<1>2. DOMAIN f = 1..Len(f) /\ DOMAIN g = 1..Len(g) /\ DOMAIN (f \o g) = 1..Len(f) + Len(g)
  BY <1>1
<1>3. ToSet(f) \subseteq ToSet(f \o g)
  BY <1>1, <1>2 DEF ToSet
<1>4. ToSet(g) \subseteq ToSet(f \o g)
  <2> SUFFICES ASSUME NEW i \in 1..Len(g) PROVE g[i] \in ToSet(f \o g)
    BY <1>2 DEF ToSet
  <2>1. i + Len(f) \in 1..Len(f) + Len(g) /\ (f \o g)[i + Len(f)] = g[i]
    BY <1>1
  <2>2. QED
    BY <1>2, <2>1 DEF ToSet
<1>5. ToSet(f \o g) \subseteq ToSet(f) \cup ToSet(g)
  BY <1>1, <1>2 DEF ToSet
<1>6. QED
  BY <1>1, <1>3, <1>4, <1>5

ObservedRecords == IF observed = None THEN <<>> ELSE SetToSeq(observed)
(* The records of observed.json, in any order. *)
LEMMA ObservedSeq ==
  ASSUME CatalogsTypeOK
  PROVE  /\ ObservedRecords \in Seq(Record) /\ ObservedRecords \in Seq(Entry)
         /\ ToSet(ObservedRecords) = IF observed = None THEN {} ELSE observed
<1>1. Entry \subseteq Record
  BY Constants DEF Entry, Record
<1>2. CASE observed = None
  BY <1>2 DEF ObservedRecords, ToSet
<1>3. CASE observed # None
  <2>1. observed \subseteq Entry /\ IsFiniteSet(observed)
    BY <1>3 DEF CatalogsTypeOK, FileTypes
  <2>2. SetToSeq(observed) \in Seq(observed) /\ ToSet(SetToSeq(observed)) = observed
    BY <2>1, SetToSeqOK
  <2>3. SetToSeq(observed) \in Seq(Entry)
    BY <2>1, <2>2, SmallerSeq
  <2>4. SetToSeq(observed) \in Seq(Record)
    BY <1>1, <2>3, SmallerSeq
  <2>5. QED
    BY <1>3, <2>2, <2>3, <2>4 DEF ObservedRecords
<1>4. QED
  BY <1>2, <1>3

(* ApplyCapabilitySuggestions adds what is suggested and not there,        *)
(* nothing else.                                                           *)
LEMMA PlaceholdersSeq ==
  ASSUME NEW records \in Seq(Record)
  PROVE  /\ Placeholders(records) \in Seq(Record)
         /\ \A r \in ToSet(Placeholders(records)) : r.taken = None /\ Key(r) \in Suggested
         /\ KeysOf(ToSet(Placeholders(records))) = Suggested \ KeysOf(ToSet(records))
<1> DEFINE wanted == {k \in Suggested : \A i \in DOMAIN records : Key(records[i]) # k}
           S == {Suggestion(k[1], k[2]) : k \in wanted}
           g == [k \in wanted |-> Suggestion(k[1], k[2])]
<1>1. wanted = Suggested \ KeysOf(ToSet(records))
  BY DEF KeysOf, ToSet
<1>2. IsFiniteSet(wanted)
  BY CatalogsAssumption, FS_Subset DEF CatalogsAssumption
<1>3. IsFiniteSet(S)
  <2>1. g \in Surjection(wanted, S)
    BY DEF Surjection
  <2> HIDE DEF g, S, wanted
  <2>2. QED
    BY <1>2, <2>1, FS_Surjection
<1>4. \A k \in Suggested : /\ Suggestion(k[1], k[2]) \in Record /\ Key(Suggestion(k[1], k[2])) = k
                           /\ Suggestion(k[1], k[2]).taken = None
  BY CatalogsAssumption DEF Suggestion, Key, Record, CatalogsAssumption
<1>5. S \subseteq Record /\ (\A r \in S : r.taken = None /\ Key(r) \in Suggested) /\
      KeysOf(S) = wanted
  BY <1>4 DEF KeysOf
<1>6. Placeholders(records) = SetToSeq(S)
  BY DEF Placeholders
<1> HIDE DEF S
<1>7. SetToSeq(S) \in Seq(S) /\ ToSet(SetToSeq(S)) = S
  BY <1>3, SetToSeqOK
<1>8. SetToSeq(S) \in Seq(Record)
  BY <1>5, <1>7, SmallerSeq
<1>9. QED
  BY <1>1, <1>5, <1>6, <1>7, <1>8

LEMMA ObservingTypes ==
  ASSUME CatalogsTypeOK, NEW p \in Commands, Merge(p) \/ ReplaceObserved(p)
  PROVE  Sensible(cmd'[p])
<1> DEFINE c == cmd[p]
           merged == Merged(c)
<1>1. c \in Cmd /\ Sensible(c) /\ IsFiniteSet(c.seen) /\ Alone(p) \in BOOLEAN /\ IsFiniteSet({})
  BY FS_EmptySet DEF CatalogsTypeOK, CommandTypes, Sensible, Alone
<1>2. CASE Merge(p)
  <2>1. cmd'[p] = [c EXCEPT !.pc = "store", !.merged = merged, !.seen = {}]
    BY <1>2 DEF Merge, Become, CatalogsTypeOK, CommandTypes
  <2>2. merged \subseteq Entry /\ IsFiniteSet(merged)
    BY <1>1, MergedTypes
  <2> HIDE DEF merged, c
  <2>3. cmd'[p] \in Cmd
    BY <1>1, <2>1, <2>2 DEF Cmd
  <2>4. cmd'[p].pc = "store" /\ cmd'[p].merged = merged /\ cmd'[p].seen = {}
    BY <1>1, <2>1 DEF Cmd
  <2>5. QED
    BY <1>1, <2>2, <2>3, <2>4 DEF Sensible
<1>3. CASE ReplaceObserved(p)
  <2>1. cmd'[p] = Loading(Alone(p))
    BY <1>3 DEF ReplaceObserved, Become, CatalogsTypeOK, CommandTypes
  <2>2. QED
    BY <1>1, <2>1, LoadingSensible
<1>4. QED
  BY <1>2, <1>3

LEMMA LoadCatalogTypes ==
  ASSUME CatalogsTypeOK, NEW p \in Commands, LoadCatalog(p)
  PROVE  Sensible(cmd'[p])
<1> DEFINE c == cmd[p]
           src == Head(c.todo)
           new == [i \in DOMAIN file[src] |-> Listed(file[src][i])]
           records == c.records \o new
           todo == Tail(c.todo)
<1>1. /\ c \in Cmd /\ Sensible(c) /\ c.pc = "load" /\ c.todo \in Seq(Catalogs) /\ c.todo # <<>>
      /\ IsInjective(c.todo) /\ c.records \in Seq(Record) /\ src \in Catalogs
  BY DEF CatalogsTypeOK, CommandTypes, LoadCatalog, Sensible, Cmd
<1>2. cmd'[p] = IF ~Loadable(src) THEN Idle ELSE [c EXCEPT !.todo = todo, !.records = records]
  BY DEF LoadCatalog, Become, CatalogsTypeOK, CommandTypes
<1>3. CASE Loadable(src)
  <2>1. file[src] \in Seq(Servers)
    BY <1>1, <1>3 DEF Loadable, CatalogsTypeOK, FileTypes
  <2>2. records \in Seq(Record)
    <3>1. new \in Seq(Record)
      BY <2>1, ListedSeq
    <3> HIDE DEF new
    <3>2. QED
      BY <1>1, <3>1, ConcatSet
  <2>3. todo \in Seq(Catalogs) /\ IsInjective(todo)
    BY <1>1, TailFacts
  <2>4. todo \in Seq(Names)
    BY <2>3, SmallerSeq DEF Names
  <2>5. cmd'[p] = [c EXCEPT !.todo = todo, !.records = records]
    BY <1>2, <1>3
  <2> HIDE DEF c, todo, records
  <2>6. cmd'[p] \in Cmd
    BY <1>1, <2>2, <2>4, <2>5 DEF Cmd
  <2>7. QED
    BY <1>1, <2>3, <2>5, <2>6 DEF Sensible, Cmd
<1>4. CASE ~Loadable(src)
  BY <1>2, <1>4, IdleSensible
<1>5. QED
  BY <1>3, <1>4

LEMMA LoadObservedTypes ==
  ASSUME CatalogsTypeOK, NEW p \in Commands, LoadObserved(p)
  PROVE  /\ Sensible(cmd'[p])
         /\ LET listed == cmd[p].records \o ObservedRecords IN
            cmd'[p] = [cmd[p] EXCEPT !.pc = "clear", !.records = listed \o Placeholders(listed)]
<1> DEFINE c == cmd[p]
           listed == c.records \o ObservedRecords
           records == listed \o Placeholders(listed)
<1>1. c \in Cmd /\ Sensible(c) /\ c.records \in Seq(Record)
  BY DEF CatalogsTypeOK, CommandTypes, Sensible, Cmd
<1>2. cmd'[p] = [c EXCEPT !.pc = "clear", !.records = records]
  BY DEF LoadObserved, Become, CatalogsTypeOK, CommandTypes, ObservedRecords
<1>3. listed \in Seq(Record)
  BY <1>1, ObservedSeq, ConcatSet
<1>4. records \in Seq(Record)
  <2> HIDE DEF listed
  <2>1. QED
    BY <1>3, PlaceholdersSeq, ConcatSet
<1>5. Sensible(cmd'[p])
  <2> HIDE DEF c, records
  <2>1. cmd'[p] \in Cmd
    BY <1>1, <1>2, <1>4 DEF Cmd
  <2>2. QED
    BY <1>1, <1>2, <2>1 DEF Sensible, Cmd
<1>6. QED
  BY <1>2, <1>5

LEMMA IndexingTypes ==
  ASSUME CatalogsTypeOK, NEW p \in Commands, Clear(p) \/ Insert(p) \/ Finish(p) \/ Stop(p)
  PROVE  Sensible(cmd'[p]) /\ IndexTypes'
<1> DEFINE c == cmd[p]
<1>1. c \in Cmd /\ Sensible(c) /\ c.records \in Seq(Record)
  BY DEF CatalogsTypeOK, CommandTypes, Sensible, Cmd
<1>2. CASE Clear(p)
  <2>1. cmd'[p] = [c EXCEPT !.pc = "insert"]
    BY <1>2 DEF Clear, Become, CatalogsTypeOK, CommandTypes
  <2>2. IndexTypes'
    BY <1>2 DEF Clear, IndexTypes
  <2>3. cmd'[p] \in Cmd
    BY <1>1, <2>1 DEF Cmd
  <2>4. QED
    BY <1>1, <2>1, <2>2, <2>3 DEF Sensible, Cmd
<1>3. CASE Insert(p)
  <2> DEFINE r == Head(c.records)
  <2>0. c.records # <<>> /\ r \in Record /\ Tail(c.records) \in Seq(Record)
    BY <1>1, <1>3 DEF Insert
  <2>1. cmd'[p] = [c EXCEPT !.records = Tail(c.records)]
    BY <1>1, <1>3 DEF Insert, Become, CatalogsTypeOK, CommandTypes, Cmd
  <2>2. cmd'[p] \in Cmd
    BY <1>1, <2>0, <2>1 DEF Cmd
  <2>3. Sensible(cmd'[p])
    BY <1>1, <2>1, <2>2, <1>3 DEF Sensible, Cmd, Insert
  <2>4. CASE InsertCapability(r) /\ marred' = (marred \/ cleared # p)
    <3>1. [server |-> r.server, tool |-> r.tool, taken |-> r.taken] \in Row /\
          r.expires \in Nat \cup {None}
      BY <2>0 DEF Row, Record
    <3>2. rows' \subseteq Row /\ expires' \in [Servers -> Nat \cup {None}]
      BY <2>4, <3>1 DEF InsertCapability, CatalogsTypeOK, IndexTypes
    <3>3. QED
      BY <2>3, <2>4, <3>2 DEF IndexTypes
  <2>5. CASE UNCHANGED <<rows, expires>> /\ marred' = TRUE
    BY <2>3, <2>5 DEF CatalogsTypeOK, IndexTypes
  <2>6. QED
    BY <1>3, <2>4, <2>5 DEF Insert
<1>4. CASE Finish(p) \/ Stop(p)
  <2>1. cmd'[p] = Idle /\ UNCHANGED index
    BY <1>4 DEF Finish, Stop, Become, CatalogsTypeOK, CommandTypes
  <2>2. QED
    BY <2>1, IdleSensible DEF CatalogsTypeOK, IndexTypes, index
<1>5. QED
  BY <1>2, <1>3, <1>4

(* Losing `alone` changes nothing else of a command. *)
LEMMA CalmedSame ==
  ASSUME NEW c \in Cmd, NEW d \in Calmed(c)
  PROVE  /\ d \in Cmd /\ d.pc = c.pc /\ d.only = c.only /\ d.todo = c.todo /\ d.cursor = c.cursor
         /\ d.pages = c.pages /\ d.found = c.found /\ d.seen = c.seen /\ d.merged = c.merged
         /\ d.records = c.records /\ d.steady = c.steady /\ d.ever = c.ever
         /\ d.alone => c.alone /\ d = c
         /\ Sensible(c) => Sensible(d)
<1>1. CASE d = c
  BY <1>1
<1>2. CASE d = [c EXCEPT !.alone = FALSE]
  <2>1. d \in Cmd
    BY <1>2 DEF Cmd
  <2>2. QED
    BY <1>2, <2>1 DEF Cmd, Sensible
<1>3. QED
  BY <1>1, <1>2 DEF Calmed

(* Every step of a command keeps the types. *)
LEMMA MoveTypes ==
  ASSUME CatalogsTypeOK, PlacesInv, NEW p \in Commands, Moves(p)
  PROVE  CatalogsTypeOK'
<1>1. Sensible(cmd'[p])
  BY StartTypes, FetchTypes, ReplaceTypes, InspectTypes, ObservingTypes, LoadCatalogTypes,
     LoadObservedTypes, IndexingTypes DEF Moves, Step
<1>2. CommandTypes'
  <2>1. \A q \in Commands : Sensible(cmd'[q])
    <3> SUFFICES ASSUME NEW q \in Commands, q # p PROVE Sensible(cmd'[q])
      BY <1>1
    <3>1. cmd'[q] \in Calmed(cmd[q]) /\ cmd[q] \in Cmd /\ Sensible(cmd[q])
      BY Frame DEF CatalogsTypeOK, CommandTypes
    <3>2. QED
      BY <3>1, CalmedSame
  <2>2. \A q \in Commands : cmd'[q] \in Cmd
    BY <2>1 DEF Sensible
  <2>3. cmd' = [q \in Commands |-> cmd'[q]]
    BY Frame DEF CatalogsTypeOK
  <2>4. QED
    BY <2>1, <2>2, <2>3 DEF CommandTypes
<1>3. WorldTypes'
  BY Frame DEF CatalogsTypeOK, WorldTypes
<1>4. FileTypes'
  <2>1. CASE ReplaceCatalog(p)
    <3>1. Head(cmd[p].todo) \in Catalogs /\ cmd[p].found \in Seq(Servers)
      BY <2>1 DEF CatalogsTypeOK, CommandTypes, Sensible, Cmd, ReplaceCatalog
    <3>2. QED
      BY <2>1, <3>1 DEF CatalogsTypeOK, FileTypes, ReplaceCatalog
  <2>2. CASE ReplaceObserved(p)
    <3>1. cmd[p].merged \subseteq Entry /\ IsFiniteSet(cmd[p].merged)
      BY DEF CatalogsTypeOK, CommandTypes, Sensible, Cmd
    <3>2. QED
      BY <2>2, <3>1 DEF CatalogsTypeOK, FileTypes, ReplaceObserved
  <2>3. CASE UNCHANGED files
    BY <2>3 DEF files, CatalogsTypeOK, FileTypes
  <2>4. QED
    BY <2>1, <2>2, <2>3 DEF Moves, Step, StartSync, StartInspect, StartRefresh, Start, FetchPage,
       Inspect, Merge, LoadCatalog, LoadObserved, Clear, Insert, Finish, Stop, files
<1>5. IndexTypes'
  <2>1. CASE Clear(p) \/ Insert(p) \/ Finish(p) \/ Stop(p)
    BY <2>1, IndexingTypes
  <2>2. CASE UNCHANGED index
    BY <2>2 DEF index, CatalogsTypeOK, IndexTypes
  <2>3. QED
    BY <2>1, <2>2 DEF Moves, Step, StartSync, StartInspect, StartRefresh, Start, FetchPage, Inspect,
       Merge, LoadCatalog, LoadObserved, ReplaceCatalog, ReplaceObserved, index
<1>6. QED
  BY <1>2, <1>3, <1>4, <1>5 DEF CatalogsTypeOK

-----------------------------------------------------------------------------
(* Steps of registries, servers and the clock. *)
Registry(src, s) == Publish(src, s) \/ Withdraw(src, s)

(* A publication is noted in the listings that run, and changes nothing    *)
(* else of them.                                                           *)
LEMMA CountedEver ==
  ASSUME NEW c \in Cmd, NEW S \in SUBSET Servers, NEW d, d = [c EXCEPT !.ever = S]
  PROVE  /\ d \in Cmd /\ d.pc = c.pc /\ d.only = c.only /\ d.todo = c.todo /\ d.cursor = c.cursor
         /\ d.pages = c.pages /\ d.found = c.found /\ d.seen = c.seen /\ d.merged = c.merged
         /\ d.records = c.records /\ d.alone = c.alone /\ d.steady = c.steady /\ d.ever = S
BY DEF Cmd

(* So is a withdrawal. *)
LEMMA CountedSteady ==
  ASSUME NEW c \in Cmd, NEW S \in SUBSET Servers, NEW d, d = [c EXCEPT !.steady = S]
  PROVE  /\ d \in Cmd /\ d.pc = c.pc /\ d.only = c.only /\ d.todo = c.todo /\ d.cursor = c.cursor
         /\ d.pages = c.pages /\ d.found = c.found /\ d.seen = c.seen /\ d.merged = c.merged
         /\ d.records = c.records /\ d.alone = c.alone /\ d.steady = S /\ d.ever = c.ever
BY DEF Cmd

(* What a change at a registry does to the commands. *)
LEMMA RegistryFrame ==
  ASSUME CatalogsTypeOK, NEW src \in Faithful, NEW s \in Servers, Registry(src, s)
  PROVE  /\ UNCHANGED <<offers, offered, now, file, observed, rows, expires, cleared, marred>>
         /\ changes' = changes + 1 /\ WorldTypes' /\ CommandTypes'
         /\ \A q \in Commands :
              /\ cmd'[q].pc = cmd[q].pc /\ cmd'[q].only = cmd[q].only /\ cmd'[q].todo = cmd[q].todo
              /\ cmd'[q].cursor = cmd[q].cursor /\ cmd'[q].pages = cmd[q].pages
              /\ cmd'[q].found = cmd[q].found /\ cmd'[q].seen = cmd[q].seen
              /\ cmd'[q].merged = cmd[q].merged /\ cmd'[q].records = cmd[q].records
              /\ cmd'[q].alone = cmd[q].alone
              /\ ~SyncsNow(cmd[q], src) => cmd'[q] = cmd[q]
         /\ \A q \in Commands : SyncsNow(cmd[q], src) =>
              IF Publish(src, s)
              THEN /\ cmd'[q].steady = cmd[q].steady
                   /\ cmd'[q].ever = cmd[q].ever \cup ({s} \cap Trusted(src))
              ELSE cmd'[q].steady = cmd[q].steady \ {s} /\ cmd'[q].ever = cmd[q].ever
<1>0. Faithful \subseteq Catalogs /\ Cardinality(Servers) \in Nat
  BY Constants
<1>1. UNCHANGED <<offers, offered, now, file, observed, rows, expires, cleared, marred>>
  BY DEF Registry, Publish, Withdraw, servers, files, index
<1>2. changes' = changes + 1 /\ place' \in [Catalogs -> [Servers -> Nat]]
  <2>1. changes' = changes + 1 /\ changes' \in Nat
    BY DEF Registry, Publish, Withdraw, CatalogsTypeOK, WorldTypes
  <2>2. \E n \in Nat : place' = [place EXCEPT ![src][s] = n]
    BY <1>0, <2>1 DEF Registry, Publish, Withdraw
  <2>3. QED
    BY <1>0, <2>1, <2>2 DEF CatalogsTypeOK, WorldTypes
<1>3. WorldTypes'
  BY <1>1, <1>2 DEF CatalogsTypeOK, WorldTypes
<1> DEFINE ever(q) == cmd[q].ever \cup ({s} \cap Trusted(src))
           steady(q) == cmd[q].steady \ {s}
<1>4. ASSUME NEW q \in Commands PROVE
        /\ cmd'[q] \in Cmd
        /\ cmd'[q].pc = cmd[q].pc /\ cmd'[q].only = cmd[q].only /\ cmd'[q].todo = cmd[q].todo
        /\ cmd'[q].cursor = cmd[q].cursor /\ cmd'[q].pages = cmd[q].pages
        /\ cmd'[q].found = cmd[q].found /\ cmd'[q].seen = cmd[q].seen
        /\ cmd'[q].merged = cmd[q].merged /\ cmd'[q].records = cmd[q].records
        /\ cmd'[q].alone = cmd[q].alone
        /\ ~SyncsNow(cmd[q], src) => cmd'[q] = cmd[q]
        /\ SyncsNow(cmd[q], src) =>
             IF Publish(src, s)
             THEN cmd'[q].steady = cmd[q].steady /\ cmd'[q].ever = ever(q)
             ELSE cmd'[q].steady = steady(q) /\ cmd'[q].ever = cmd[q].ever
  <2>0. cmd[q] \in Cmd /\ ever(q) \in SUBSET Servers /\ steady(q) \in SUBSET Servers
    BY <1>4 DEF CatalogsTypeOK, CommandTypes, Cmd, Trusted
  <2>1. CASE Publish(src, s)
    <3>1. cmd'[q] = IF SyncsNow(cmd[q], src) THEN [cmd[q] EXCEPT !.ever = ever(q)] ELSE cmd[q]
      BY <1>4, <2>1 DEF Publish
    <3> HIDE DEF ever, steady
    <3>2. CASE SyncsNow(cmd[q], src)
      BY <2>0, <2>1, <3>1, <3>2, CountedEver
    <3>3. CASE ~SyncsNow(cmd[q], src)
      BY <2>0, <3>1, <3>3
    <3>4. QED
      BY <3>2, <3>3
  <2>2. CASE ~Publish(src, s)
    <3>1. cmd'[q] = IF SyncsNow(cmd[q], src) THEN [cmd[q] EXCEPT !.steady = steady(q)] ELSE cmd[q]
      BY <1>4, <2>2 DEF Registry, Withdraw
    <3> HIDE DEF ever, steady
    <3>2. CASE SyncsNow(cmd[q], src)
      BY <2>0, <2>2, <3>1, <3>2, CountedSteady
    <3>3. CASE ~SyncsNow(cmd[q], src)
      BY <2>0, <3>1, <3>3
    <3>4. QED
      BY <3>2, <3>3
  <2>3. QED
    BY <2>1, <2>2
<1>5. CommandTypes'
  <2>1. cmd' = [q \in Commands |-> cmd'[q]]
    BY DEF Registry, Publish, Withdraw
  <2>2. \A q \in Commands : Sensible(cmd'[q])
    BY <1>4 DEF CatalogsTypeOK, CommandTypes, Sensible
  <2>3. QED
    BY <1>4, <2>1, <2>2 DEF CommandTypes
<1>6. QED
  <2> HIDE DEF ever, steady
  <2>1. QED
    BY <1>1, <1>2, <1>3, <1>4, <1>5 DEF ever, steady

(* A server is published behind all others and withdrawn to place 0. *)
LEMMA RegistryPlaces ==
  ASSUME CatalogsTypeOK, PlacesInv, NEW src \in Faithful, NEW s \in Servers, Registry(src, s)
  PROVE  /\ PlacesInv'
         /\ \A other \in Catalogs, t \in Servers :
              other # src \/ t # s => place'[other][t] = place[other][t]
         /\ IF Publish(src, s) THEN place'[src][s] > Cardinality(Servers) + changes
                               ELSE place'[src][s] = 0
<1>0. /\ Faithful \subseteq Catalogs /\ Cardinality(Servers) \in Nat /\ changes \in Nat
      /\ place \in [Catalogs -> [Servers -> Nat]] /\ changes' = changes + 1
  BY Constants, RegistryFrame DEF CatalogsTypeOK, WorldTypes
<1>1. \E n \in Nat : /\ place' = [place EXCEPT ![src][s] = n]
                     /\ n = IF Publish(src, s) THEN Cardinality(Servers) + changes + 1 ELSE 0
  <2>1. CASE Publish(src, s)
    <3>1. Cardinality(Servers) + changes' = Cardinality(Servers) + changes + 1
      BY <1>0
    <3>2. place' = [place EXCEPT ![src][s] = Cardinality(Servers) + changes']
      BY <2>1 DEF Publish
    <3>3. place' = [place EXCEPT ![src][s] = Cardinality(Servers) + changes + 1]
      BY <3>1, <3>2
    <3>4. Cardinality(Servers) + changes + 1 \in Nat
      BY <1>0
    <3>5. QED
      BY <2>1, <3>3, <3>4
  <2>2. CASE ~Publish(src, s)
    BY <2>2 DEF Registry, Withdraw
  <2>3. QED
    BY <2>1, <2>2
<1>2. PICK n \in Nat : /\ place' = [place EXCEPT ![src][s] = n]
                       /\ n = IF Publish(src, s) THEN Cardinality(Servers) + changes + 1 ELSE 0
  BY <1>1
<1>3. /\ place'[src][s] = n
      /\ \A other \in Catalogs, t \in Servers :
           other # src \/ t # s => place'[other][t] = place[other][t]
  BY <1>0, <1>2
<1>4. ASSUME NEW g \in Faithful PROVE
        /\ \A t \in Servers : place'[g][t] <= Cardinality(Servers) + changes'
        /\ \A t, u \in Servers : place'[g][t] = place'[g][u] /\ place'[g][t] > 0 => t = u
  <2>1. /\ \A t \in Servers : place[g][t] \in Nat /\ place[g][t] <= Cardinality(Servers) + changes
        /\ \A t, u \in Servers : place[g][t] = place[g][u] /\ place[g][t] > 0 => t = u
    BY <1>0, <1>4 DEF PlacesInv
  <2>2. n = 0 \/ n = Cardinality(Servers) + changes + 1
    BY <1>2
  <2>3. \A t \in Servers : place'[g][t] = IF g = src /\ t = s THEN n ELSE place[g][t]
    BY <1>0, <1>3
  <2>4. QED
    BY <1>0, <2>1, <2>2, <2>3
<1>5. \A t \in Inspected : offers'[t] \in offered'[t]
  BY RegistryFrame DEF PlacesInv
<1>6. QED
  BY <1>0, <1>2, <1>3, <1>4, <1>5 DEF PlacesInv

(* A server that offers other tools changes only what it offers, and has   *)
(* offered.                                                                *)
LEMMA ServerFrame ==
  ASSUME CatalogsTypeOK, PlacesInv, NEW s \in Inspected, ServerChanges(s)
  PROVE  /\ CatalogsTypeOK' /\ PlacesInv' /\ UNCHANGED <<place, now, files, index, cmd>> /\
            changes' = changes + 1
         /\ \A t \in Inspected : offered[t] \subseteq offered'[t]
<1>1. PICK ts \in Offers : offers' = [offers EXCEPT ![s] = ts]
  BY DEF ServerChanges
<1>2. /\ UNCHANGED <<place, now, file, observed, rows, expires, cleared, marred, cmd>>
      /\ changes \in Nat /\ changes' = changes + 1 /\ Cardinality(Servers) \in Nat
      /\ Faithful \subseteq Catalogs
  BY Constants DEF ServerChanges, files, index, CatalogsTypeOK, WorldTypes
<1>3. offers' \in [Inspected -> Offers] /\ offers'[s] = ts /\
      \A t \in Inspected \ {s} : offers'[t] = offers[t]
  BY <1>1 DEF CatalogsTypeOK, WorldTypes
<1>4. offered' = [offered EXCEPT ![s] = offered[s] \cup {ts}]
  BY <1>3 DEF ServerChanges
<1>5. /\ offered' \in [Inspected -> SUBSET Offers] /\
         \A t \in Inspected : offered[t] \subseteq offered'[t]
      /\ ts \in offered'[s]
  BY <1>4 DEF CatalogsTypeOK, WorldTypes
<1>6. CatalogsTypeOK'
  BY <1>2, <1>3, <1>5 DEF CatalogsTypeOK, WorldTypes, FileTypes, IndexTypes, CommandTypes
<1>7. \A t \in Inspected : offers'[t] \in offered'[t]
  BY <1>3, <1>5 DEF PlacesInv
<1>8. PlacesInv'
  <2>1. ASSUME NEW src \in Faithful, NEW t \in Servers
        PROVE  place'[src][t] <= Cardinality(Servers) + changes'
    <3>1. place[src][t] \in Nat /\ place[src][t] <= Cardinality(Servers) + changes
      BY <1>2, <2>1 DEF PlacesInv, CatalogsTypeOK, WorldTypes
    <3>2. QED
      BY <1>2, <3>1
  <2>2. QED
    BY <1>2, <1>7, <2>1 DEF PlacesInv
<1>9. QED
  BY <1>2, <1>5, <1>6, <1>8 DEF files, index

(* Time changes nothing but the time. *)
LEMMA TickFrame ==
  ASSUME CatalogsTypeOK, PlacesInv, Tick
  PROVE  /\ CatalogsTypeOK' /\ PlacesInv' /\ now' = now + 1
         /\ UNCHANGED <<registries, servers, files, index, cmd>>
BY DEF Tick, CatalogsTypeOK, WorldTypes, FileTypes, IndexTypes, CommandTypes, PlacesInv,
   registries, servers, files, index

(* Types and places are inductive together. *)
LEMMA TypesHold ==
  ASSUME CatalogsTypeOK, PlacesInv, [CatalogsNext]_catalogsVars
  PROVE  CatalogsTypeOK' /\ PlacesInv'
<1>1. ASSUME NEW p \in Commands, Moves(p) PROVE CatalogsTypeOK' /\ PlacesInv'
  BY <1>1, MoveTypes, Frame DEF CatalogsTypeOK, PlacesInv
<1>2. ASSUME NEW src \in Faithful, NEW s \in Servers, Registry(src, s)
      PROVE CatalogsTypeOK' /\ PlacesInv'
  BY <1>2, RegistryFrame, RegistryPlaces DEF CatalogsTypeOK, FileTypes, IndexTypes
<1>3. CASE UNCHANGED catalogsVars
  BY <1>3 DEF catalogsVars, registries, servers, files, index, CatalogsTypeOK, WorldTypes,
     FileTypes, IndexTypes, CommandTypes, PlacesInv
<1>4. QED
  BY <1>1, <1>2, <1>3, ServerFrame, TickFrame DEF CatalogsNext, Environment, Moves, Registry

(* Nothing runs, the files are those of earlier commands, the index is     *)
(* empty.                                                                  *)
LEMMA InitHolds == CatalogsInit => CatalogsInv
<1> SUFFICES ASSUME CatalogsInit PROVE CatalogsInv
  OBVIOUS
<1>0. \A p \in Commands : cmd[p] = Idle
  BY DEF CatalogsInit
<1>1. CatalogsTypeOK
  <2>1. WorldTypes
    <3>1. Published \in [Catalogs -> [Servers -> Nat]]
      BY Constants, CatalogsAssumption DEF CatalogsAssumption
    <3>2. QED
      BY <3>1 DEF CatalogsInit, WorldTypes
  <2>2. FileTypes /\ IndexTypes
    BY CatalogsAssumption DEF CatalogsInit, FileTypes, IndexTypes, CatalogsAssumption
  <2>3. CommandTypes
    BY IdleSensible DEF CatalogsInit, CommandTypes
  <2>4. QED
    BY <2>1, <2>2, <2>3 DEF CatalogsTypeOK
<1>2. PlacesInv
  <2>1. \A s \in Inspected : offers[s] \in offered[s]
    BY DEF CatalogsInit
  <2>2. ASSUME NEW src \in Faithful PROVE
          /\ \A s \in Servers : place[src][s] <= Cardinality(Servers) + changes
          /\ \A s, t \in Servers : place[src][s] = place[src][t] /\ place[src][s] > 0 => s = t
    <3>1. \A s \in Servers : Published[src][s] \in 0..Cardinality(Servers)
      BY <2>2, Constants, CatalogsAssumption DEF CatalogsAssumption
    <3>2. \A s \in Servers : place[src][s] <= Cardinality(Servers) + changes
      BY <3>1, Constants DEF CatalogsInit
    <3>3. QED
      BY <2>2, <3>2, CatalogsAssumption DEF CatalogsInit, CatalogsAssumption
  <2>3. QED
    BY <2>1, <2>2 DEF PlacesInv
<1>3. ListingInv /\ InspectionInv /\ LoadInv /\ AloneInv
  BY <1>0 DEF CatalogsInit, ListingInv, ListingOf, InspectionInv, InspectionOf, LoadInv, LoadOf,
     AloneInv, AloneOf, Idle
<1>4. StampInv
  BY DEF CatalogsInit, StampInv
<1>5. runs \in Nat
  BY DEF CatalogsInit
<1>6. QED
  BY <1>1, <1>2, <1>3, <1>4, <1>5 DEF CatalogsInv

-----------------------------------------------------------------------------
(* Listings. *)
LEMMA FetchForm ==
  ASSUME CatalogsTypeOK, PlacesInv, NEW p \in Commands, FetchPage(p)
  PROVE  \E page \in Answers(Head(cmd[p].todo), cmd[p].cursor) :
           /\ page \in Page /\ cmd[p].pc = "page" /\ Head(cmd[p].todo) \in Catalogs
           /\ \/ cmd'[p] = Idle
              \/ /\ cmd'[p].todo = cmd[p].todo /\ cmd'[p].records = cmd[p].records
                 /\ cmd'[p].found = cmd[p].found \o Taken(cmd[p], Head(cmd[p].todo), page)
                 /\ cmd'[p].steady = cmd[p].steady /\ cmd'[p].ever = cmd[p].ever
                 /\ cmd'[p].alone = cmd[p].alone
                 /\ \/ /\ Follows(cmd[p], page.next) /\ cmd'[p].pc = "page"
                       /\ cmd'[p].cursor = page.next /\ cmd'[p].pages = cmd[p].pages + 1
                    \/ /\ Completes(cmd[p], page.next) /\ cmd'[p].pc = "replace"
                       /\ cmd'[p].pages = cmd[p].pages
<1> DEFINE c == cmd[p]
           src == Head(c.todo)
<1>1. c \in Cmd /\ Sensible(c) /\ c.pc = "page" /\ src \in Catalogs /\ c.pages \in Nat /\
      c.cursor \in Nat
  BY DEF CatalogsTypeOK, CommandTypes, FetchPage, Sensible, Cmd
<1>2. PICK page \in Answers(src, c.cursor) :
        LET d == [c EXCEPT !.found = c.found \o Taken(c, src, page)] IN
        Become(p, CASE Follows(c, page.next) ->
                        [d EXCEPT !.cursor = page.next, !.asked = @ \cup {page.next},
                                  !.pages = IF @ < MaxPages THEN @ + 1 ELSE @]
                   [] Completes(c, page.next) -> [d EXCEPT !.pc = "replace"]
                   [] OTHER -> Idle)
  BY DEF FetchPage
<1> DEFINE f == c.found \o Taken(c, src, page)
           d == [c EXCEPT !.found = f]
           asked == d.asked \cup {page.next}
           pages == IF d.pages < MaxPages THEN d.pages + 1 ELSE d.pages
           d1 == [d EXCEPT !.cursor = page.next, !.asked = asked, !.pages = pages]
           d2 == [d EXCEPT !.pc = "replace"]
<1>3. page \in Page /\ f \in Seq(Servers)
  <2>1. page \in Page
    BY <1>1, AnswerTypes DEF CatalogsTypeOK
  <2>2. QED
    BY <1>1, <2>1, TakenFacts
<1>4. /\ d \in Cmd /\ d.pc = "page" /\ d.pages = c.pages /\ d.todo = c.todo /\ d.found = f
      /\ d.records = c.records /\ d.steady = c.steady /\ d.ever = c.ever /\ d.alone = c.alone
  <2> HIDE DEF c, f
  <2>1. QED
    BY <1>1, <1>3 DEF Cmd
<1>5. \/ Follows(c, page.next) /\ cmd'[p] = d1
      \/ Completes(c, page.next) /\ cmd'[p] = d2
      \/ cmd'[p] = Idle
  <2>1. \E x : /\ Become(p, x)
               /\ \/ Follows(c, page.next) /\ x = d1
                  \/ Completes(c, page.next) /\ x = d2
                  \/ x = Idle
    BY <1>2
  <2> HIDE DEF d1, d2, c
  <2>2. PICK x : /\ Become(p, x)
                 /\ \/ Follows(c, page.next) /\ x = d1
                    \/ Completes(c, page.next) /\ x = d2
                    \/ x = Idle
    BY <2>1
  <2>3. cmd'[p] = x
    BY <2>2 DEF Become, CatalogsTypeOK, CommandTypes
  <2>4. QED
    BY <2>2, <2>3
<1>6. ASSUME Follows(c, page.next) PROVE pages = c.pages + 1
  <2>1. c.pages + 1 < MaxPages /\ MaxPages \in Nat
    BY <1>6, Constants DEF Follows
  <2>2. c.pages \in Nat /\ d.pages = c.pages
    BY <1>1, <1>4
  <2> HIDE DEF d, c
  <2>3. QED
    BY <2>1, <2>2
<1>7. /\ d1.pc = "page" /\ d1.cursor = page.next /\ d1.pages = pages /\ d1.todo = d.todo /\
         d1.found = d.found
      /\ d1.records = d.records /\ d1.steady = d.steady /\ d1.ever = d.ever /\ d1.alone = d.alone
      /\ d2.pc = "replace" /\ d2.pages = d.pages /\ d2.todo = d.todo /\ d2.found = d.found
      /\ d2.records = d.records /\ d2.steady = d.steady /\ d2.ever = d.ever /\ d2.alone = d.alone
  <2> HIDE DEF d, asked, pages
  <2>1. QED
    BY <1>4 DEF Cmd
<1>8. QED
  <2> HIDE DEF d1, d2, d, pages
  <2>1. QED
    BY <1>1, <1>3, <1>4, <1>5, <1>6, <1>7

(* What a sync begins with. *)
LEMMA SyncingForm ==
  ASSUME NEW c \in Cmd, NEW todo
  PROVE  /\ Syncing(c, todo).pc = "page" /\ Syncing(c, todo).todo = todo
         /\ Syncing(c, todo).alone = c.alone
<1> DEFINE n == Now(Head(todo))
           d == [c EXCEPT !.pc = "page", !.todo = todo, !.cursor = 0, !.asked = {}, !.pages = 0,
                          !.found = <<>>, !.steady = n, !.ever = n]
<1>1. Syncing(c, todo) = d
  BY DEF Syncing
<1> HIDE DEF n
<1>2. d.pc = "page" /\ d.todo = todo /\ d.alone = c.alone
  BY DEF Cmd
<1>3. QED
  BY <1>1, <1>2

(* Where each step takes a command.                                        *)
LEMMA Places ==
  ASSUME CatalogsTypeOK, PlacesInv, NEW p \in Commands
  PROVE  /\ StartSync(p) => cmd'[p].pc = "page" /\ ~cmd'[p].alone
         /\ StartInspect(p) => cmd'[p].pc = "inspect" /\ ~cmd'[p].alone
         /\ StartRefresh(p) => cmd'[p].pc = "load"
         /\ FetchPage(p) => cmd'[p].pc \in {"idle", "page", "replace"}
         /\ ReplaceCatalog(p) => cmd'[p].pc \in {"page", "load"}
         /\ Inspect(p) => cmd'[p].pc \in {"inspect", "merge"} /\ cmd'[p].alone = cmd[p].alone
         /\ Merge(p) => /\ cmd'[p].pc = "store" /\ cmd'[p].merged = Merged(cmd[p])
                        /\ cmd'[p].alone = cmd[p].alone
         /\ ReplaceObserved(p) => cmd'[p].pc = "load"
         /\ LoadCatalog(p) => cmd'[p].pc \in {"idle", "load"}
         /\ LoadObserved(p) => cmd'[p].pc = "clear"
         /\ Clear(p) \/ Insert(p) => cmd'[p].pc = "insert"
         /\ Finish(p) \/ Stop(p) => cmd'[p].pc = "idle"
<1> DEFINE c == cmd[p]
<1>0. c \in Cmd
  BY DEF CatalogsTypeOK, CommandTypes
<1>1. Idle.pc = "idle" /\ ~Idle.alone /\ \A b : Loading(b).pc = "load"
  BY DEF Idle, Loading
<1>2. ASSUME StartSync(p) PROVE cmd'[p].pc = "page" /\ ~cmd'[p].alone
  <2>1. PICK only \in {None} \cup Catalogs :
          cmd'[p] = Syncing([Idle EXCEPT !.only = only], Selected(Sources, only))
    BY <1>2 DEF StartSync, Start
  <2> DEFINE e == [Idle EXCEPT !.only = only]
  <2>2. e \in Cmd /\ ~e.alone
    BY IdleSensible DEF Cmd, Names, Idle
  <2> HIDE DEF e
  <2>3. cmd'[p] = Syncing(e, Selected(Sources, only))
    BY <2>1 DEF e
  <2>4. QED
    BY <2>2, <2>3, SyncingForm
<1>3. ASSUME StartInspect(p) PROVE cmd'[p].pc = "inspect" /\ ~cmd'[p].alone
  BY <1>3 DEF StartInspect, Start, Idle
<1>4. ASSUME StartRefresh(p) PROVE cmd'[p].pc = "load"
  BY <1>1, <1>4 DEF StartRefresh, Start
<1>5. ASSUME FetchPage(p) PROVE cmd'[p].pc \in {"idle", "page", "replace"}
  BY <1>1, <1>5, FetchForm
<1>6. ASSUME ReplaceCatalog(p) PROVE cmd'[p].pc \in {"page", "load"}
  <2>1. cmd'[p] \in {Loading(Alone(p)), Syncing(c, Tail(c.todo))}
    BY <1>6 DEF ReplaceCatalog, Become, CatalogsTypeOK, CommandTypes
  <2>2. QED
    BY <1>0, <1>1, <2>1, SyncingForm
<1>7. ASSUME Inspect(p) PROVE cmd'[p].pc \in {"inspect", "merge"} /\ cmd'[p].alone = c.alone
  <2> DEFINE seen == c.seen \cup {<<Head(c.todo), t>> : t \in offers[Head(c.todo)]}
             todo == Tail(c.todo)
             pl == IF Len(c.todo) = 1 THEN "merge" ELSE "inspect"
  <2>1. cmd'[p] = [c EXCEPT !.seen = seen, !.todo = todo, !.pc = pl] /\ pl \in {"merge", "inspect"}
    BY <1>7 DEF Inspect, Become, CatalogsTypeOK, CommandTypes
  <2> HIDE DEF c, seen, todo, pl
  <2>2. cmd'[p].pc \in {"inspect", "merge"} /\ cmd'[p].alone = c.alone
    BY <1>0, <2>1 DEF Cmd
  <2>3. QED
    BY <2>2 DEF c
<1>8. ASSUME Merge(p)
      PROVE  cmd'[p].pc = "store" /\ cmd'[p].merged = Merged(c) /\ cmd'[p].alone = c.alone
  <2> DEFINE m == Merged(c)
  <2>1. cmd'[p] = [c EXCEPT !.pc = "store", !.merged = m, !.seen = {}]
    BY <1>8 DEF Merge, Become, CatalogsTypeOK, CommandTypes
  <2> HIDE DEF c, m
  <2>2. cmd'[p].pc = "store" /\ cmd'[p].merged = m /\ cmd'[p].alone = c.alone
    BY <1>0, <2>1 DEF Cmd
  <2>3. QED
    BY <2>2 DEF c, m
<1>9. ASSUME ReplaceObserved(p) PROVE cmd'[p].pc = "load"
  BY <1>1, <1>9 DEF ReplaceObserved, Become, CatalogsTypeOK, CommandTypes
<1>10. ASSUME LoadCatalog(p) PROVE cmd'[p].pc \in {"idle", "load"}
  <2> DEFINE records ==
                    c.records \o [i \in DOMAIN file[Head(c.todo)] |-> Listed(file[Head(c.todo)][i])]
             todo == Tail(c.todo)
  <2>1. c.pc = "load" /\ cmd'[p] \in {Idle, [c EXCEPT !.todo = todo, !.records = records]}
    BY <1>10 DEF LoadCatalog, Become, CatalogsTypeOK, CommandTypes
  <2> HIDE DEF c, todo, records
  <2>2. [c EXCEPT !.todo = todo, !.records = records].pc = c.pc
    BY <1>0 DEF Cmd
  <2>3. QED
    BY <1>1, <2>1, <2>2
<1>11. ASSUME LoadObserved(p) PROVE cmd'[p].pc = "clear"
  <2> DEFINE listed == c.records \o ObservedRecords
             all == listed \o Placeholders(listed)
  <2>1. cmd'[p] = [c EXCEPT !.pc = "clear", !.records = all]
    BY <1>11, LoadObservedTypes
  <2> HIDE DEF c, all
  <2>2. QED
    BY <1>0, <2>1 DEF Cmd
<1>12. ASSUME Clear(p) \/ Insert(p) PROVE cmd'[p].pc = "insert"
  <2>1. cmd'[p] \in {[c EXCEPT !.pc = "insert"], [c EXCEPT !.records = Tail(c.records)]}
        /\ (Insert(p) => c.pc = "insert" /\ cmd'[p] = [c EXCEPT !.records = Tail(c.records)])
        /\ (Clear(p) => cmd'[p] = [c EXCEPT !.pc = "insert"])
    BY <1>0, <1>12 DEF Clear, Insert, Become, CatalogsTypeOK, CommandTypes
  <2> HIDE DEF c
  <2>2. QED
    BY <1>0, <1>12, <2>1 DEF Cmd
<1>13. ASSUME Finish(p) \/ Stop(p) PROVE cmd'[p].pc = "idle"
  BY <1>1, <1>13 DEF Finish, Stop, Become, CatalogsTypeOK, CommandTypes
<1>14. QED
  BY <1>2, <1>3, <1>4, <1>5, <1>6, <1>7, <1>8, <1>9, <1>10, <1>11, <1>12, <1>13

(* A listing nobody touched is as good after a step as before. *)
LEMMA ListingStays ==
  ASSUME NEW p \in Commands, ListingOf(cmd'[p]), UNCHANGED place, changes \in Nat,
         changes' \in {changes, changes + 1}, Cardinality(Servers) \in Nat,
         cmd'[p].cursor \in Nat
  PROVE  ListingOf(cmd[p])'
BY DEF ListingOf, HasSoFar, Now, Trusted

(* A listing that begins has nothing and owes everything that is listed    *)
(* now.                                                                    *)
LEMMA SyncingListing ==
  ASSUME CatalogsTypeOK, NEW c \in Cmd, NEW todo \in Seq(Catalogs), todo # <<>>
  PROVE  ListingOf(Syncing(c, todo))
<1> DEFINE src == Head(todo)
           n == Now(src)
           d == Syncing(c, todo)
<1>1. /\ src \in Catalogs /\ changes \in Nat /\ Cardinality(Servers) \in Nat
      /\ \A s \in Servers : place[src][s] \in Nat
  BY Constants DEF CatalogsTypeOK, WorldTypes
<1>2. /\ d.pc = "page" /\ d.todo = todo /\ d.cursor = 0 /\ d.pages = 0 /\ d.found = <<>>
      /\ d.steady = n /\ d.ever = n
  <2> HIDE DEF n
  <2>1. QED
    BY DEF Syncing, n, Cmd
<1>3. IsInjective(<<>>) /\ ToSet(<<>>) = {}
  BY DEF IsInjective, ToSet
<1>4. \A s \in n : ~(place[src][s] <= 0)
  BY <1>1 DEF Now, Trusted
<1>5. HasSoFar(d, src)
  <2> HIDE DEF d, n
  <2>1. QED
    BY <1>1, <1>2, <1>3, <1>4 DEF HasSoFar, n
<1>6. QED
  <2> HIDE DEF d, n
  <2>1. IsInjective(d.found) /\ ToSet(d.found) \subseteq Trusted(Head(d.todo)) /\ d.pages < MaxPages
    BY <1>2, <1>3, Constants
  <2>2. Head(d.todo) = src
    BY <1>2
  <2> HIDE DEF src
  <2>3. ListingOf(d)
    BY <1>5, <2>1, <2>2 DEF ListingOf
  <2>4. QED
    BY <2>3 DEF d

(* A page adds what is listed between its cursor and the next one. *)
LEMMA FetchListing ==
  ASSUME CatalogsTypeOK, PlacesInv, ListingInv, NEW p \in Commands, FetchPage(p)
  PROVE  ListingOf(cmd'[p])
<1> DEFINE c == cmd[p]
           d == cmd'[p]
           src == Head(c.todo)
<1>1. PICK page \in Answers(src, c.cursor) :
        /\ page \in Page /\ c.pc = "page" /\ src \in Catalogs
        /\ \/ d = Idle
           \/ /\ d.todo = c.todo /\ d.found = c.found \o Taken(c, src, page)
              /\ d.steady = c.steady /\ d.ever = c.ever
              /\ \/ /\ Follows(c, page.next) /\ d.pc = "page"
                    /\ d.cursor = page.next /\ d.pages = c.pages + 1
                 \/ /\ Completes(c, page.next) /\ d.pc = "replace"
                    /\ d.pages = c.pages
  BY FetchForm
<1>2. CASE d = Idle
  BY <1>2 DEF ListingOf, Idle
<1>3. CASE d # Idle
  <2>1. /\ c \in Cmd /\ c.pages \in Nat /\ c.cursor \in Nat /\ ListingOf(c)
        /\ \A s \in Servers : place[src][s] \in Nat
    BY <1>1 DEF CatalogsTypeOK, WorldTypes, CommandTypes, Cmd, ListingInv
  <2>2. /\ ToSet(d.found) = ToSet(c.found) \cup ({page.server} \cap Trusted(src))
        /\ IsInjective(d.found) /\ ToSet(d.found) \subseteq Trusted(src)
    BY <1>1, <1>3, <2>1, TakenFacts DEF ListingOf
  <2>3. d.pages < MaxPages
    BY <1>1, <1>3, <2>1, Constants DEF ListingOf, Follows
  <2>4. ASSUME src \in Faithful PROVE HasSoFar(d, src)
    <3>1. /\ page.server # None => place[src][page.server] > c.cursor
          /\ page.next <= Cardinality(Servers) + changes
          /\ page.next # 0 => \A s \in Servers :
               place[src][s] > c.cursor /\ place[src][s] <= page.next => s = page.server
          /\ page.next = 0 => \A s \in Servers : place[src][s] > c.cursor => s = page.server
      <4>1. page = PageAfter(src, c.cursor)
        BY <2>4 DEF Answers
      <4> HIDE DEF c, src
      <4>2. QED
        BY <2>1, <2>4, <4>1, PageAfterFacts DEF CatalogsTypeOK
    <3>2. HasSoFar(c, src)
      BY <1>1, <2>1, <2>4 DEF ListingOf
    <3>3. {page.server} \cap Trusted(src) \subseteq Now(src)
      BY <2>1, <3>1, Constants DEF Now, Trusted
    <3>4. /\ ToSet(d.found) \subseteq d.ever /\ Now(src) \subseteq d.ever /\
             d.steady \subseteq Now(src)
      BY <1>1, <1>3, <2>2, <3>2, <3>3 DEF HasSoFar
    <3>5. \A s \in c.steady : s \in Trusted(src) /\ s \in Servers /\ place[src][s] > 0
      BY <3>2 DEF HasSoFar, Now, Trusted
    <3>6. ASSUME d.pc = "page" PROVE
            /\ d.cursor <= Cardinality(Servers) + changes
            /\ \A s \in d.steady : place[src][s] <= d.cursor => s \in ToSet(d.found)
      <4>1. d.cursor = page.next /\ page.next # 0 /\ d.steady = c.steady
        BY <1>1, <1>3, <3>6 DEF Follows
      <4>2. \A s \in c.steady : place[src][s] <= c.cursor => s \in ToSet(c.found)
        BY <1>1, <3>2 DEF HasSoFar
      <4> HIDE DEF d, c, src
      <4>3. QED
        BY <2>1, <2>2, <3>1, <3>5, <4>1, <4>2
    <3>7. ASSUME d.pc = "replace" PROVE d.steady \subseteq ToSet(d.found)
      <4>1. page.next = 0 /\ d.steady = c.steady
        BY <1>1, <1>3, <3>7 DEF Completes
      <4>2. \A s \in c.steady : place[src][s] <= c.cursor => s \in ToSet(c.found)
        BY <1>1, <3>2 DEF HasSoFar
      <4> HIDE DEF d, c, src
      <4>3. QED
        BY <2>1, <2>2, <3>1, <3>5, <4>1, <4>2
    <3>8. QED
      BY <3>4, <3>6, <3>7 DEF HasSoFar
  <2>5. QED
    BY <1>1, <1>3, <2>2, <2>3, <2>4 DEF ListingOf
<1>4. QED
  BY <1>2, <1>3

(* A publication goes behind every cursor, a withdrawal leaves no debt. *)
LEMMA RegistryListing ==
  ASSUME CatalogsTypeOK, PlacesInv, ListingInv, NEW src \in Faithful, NEW s \in Servers,
         Registry(src, s),
         NEW q \in Commands
  PROVE  ListingOf(cmd[q])'
<1> DEFINE c == cmd[q]
           d == cmd'[q]
           g == Head(c.todo)
<1>0. /\ c \in Cmd /\ Sensible(c) /\ c.cursor \in Nat /\ changes \in Nat /\
         Cardinality(Servers) \in Nat
      /\ changes' = changes + 1 /\ ListingOf(c) /\ Faithful \subseteq Catalogs
      /\ place \in [Catalogs -> [Servers -> Nat]]
  BY Constants, RegistryFrame DEF CatalogsTypeOK, WorldTypes, CommandTypes, Cmd, ListingInv
<1>1. /\ d.pc = c.pc /\ d.todo = c.todo /\ d.cursor = c.cursor /\ d.pages = c.pages /\
         d.found = c.found
      /\ ~SyncsNow(c, src) => d.steady = c.steady /\ d.ever = c.ever
      /\ SyncsNow(c, src) =>
           IF Publish(src, s)
           THEN d.steady = c.steady /\ d.ever = c.ever \cup ({s} \cap Trusted(src))
           ELSE d.steady = c.steady \ {s} /\ d.ever = c.ever
  BY RegistryFrame
<1>2. /\ \A other \in Catalogs, t \in Servers :
           other # src \/ t # s => place'[other][t] = place[other][t]
      /\ IF Publish(src, s) THEN place'[src][s] > Cardinality(Servers) + changes
                            ELSE place'[src][s] = 0
  BY RegistryPlaces
<1>3. CASE c.pc \notin {"page", "replace"}
  BY <1>1, <1>3 DEF ListingOf
<1>4. CASE c.pc \in {"page", "replace"}
  <2>0. g \in Catalogs
    BY <1>0, <1>4 DEF Sensible
  <2>1. /\ IsInjective(c.found) /\ ToSet(c.found) \subseteq Trusted(g) /\ c.pages < MaxPages
        /\ g \in Faithful => HasSoFar(c, g)
    BY <1>0, <1>4 DEF ListingOf
  <2> DEFINE Now1 == {t \in Trusted(g) : place'[g][t] > 0}
  <2>2. ASSUME g \in Faithful PROVE
          /\ ToSet(d.found) \subseteq d.ever /\ Now1 \subseteq d.ever /\ d.steady \subseteq Now1
          /\ d.pc = "page" => /\ d.cursor <= Cardinality(Servers) + changes'
                              /\ \A t \in d.steady : place'[g][t] <= d.cursor => t \in ToSet(d.found)
          /\ d.pc = "replace" => d.steady \subseteq ToSet(d.found)
    <3>1. /\ ToSet(c.found) \subseteq c.ever /\ Now(g) \subseteq c.ever /\ c.steady \subseteq Now(g)
          /\ c.pc = "page" => /\ c.cursor <= Cardinality(Servers) + changes
                              /\ \A t \in c.steady : place[g][t] <= c.cursor => t \in ToSet(c.found)
          /\ c.pc = "replace" => c.steady \subseteq ToSet(c.found)
      BY <2>1, <2>2 DEF HasSoFar
    <3>2. /\ Trusted(g) \subseteq Servers /\ \A t \in Servers : place[g][t] \in Nat
          /\ Now(g) = {t \in Trusted(g) : place[g][t] > 0}
      BY <1>0, <2>0 DEF Trusted, Now
    <3>3. CASE g # src
      <4>1. \A t \in Servers : place'[g][t] = place[g][t]
        BY <1>2, <2>0, <3>3
      <4>2. d.steady = c.steady /\ d.ever = c.ever
        BY <1>1, <3>3 DEF SyncsNow
      <4>3. Now1 = Now(g)
        BY <3>2, <4>1
      <4>4. /\ ToSet(d.found) \subseteq d.ever /\ Now1 \subseteq d.ever /\ d.steady \subseteq Now1
        BY <1>1, <3>1, <4>2, <4>3
      <4>5. \A t \in d.steady : place'[g][t] <= d.cursor => place[g][t] <= c.cursor
        BY <1>1, <3>1, <3>2, <4>1, <4>2
      <4> HIDE DEF d, c, Now1, g
      <4>6. d.pc = "page" => /\ d.cursor <= Cardinality(Servers) + changes'
                             /\ \A t \in d.steady : place'[g][t] <= d.cursor => t \in ToSet(d.found)
        BY <1>0, <1>1, <3>1, <4>2, <4>5
      <4>7. d.pc = "replace" => d.steady \subseteq ToSet(d.found)
        BY <1>1, <3>1, <4>2
      <4>8. QED
        BY <4>4, <4>6, <4>7
    <3>4. CASE g = src
      <4>0. SyncsNow(c, src)
        BY <1>4, <3>4 DEF SyncsNow
      <4>1. CASE Publish(src, s)
        <5>1. /\ d.steady = c.steady /\ d.ever = c.ever \cup ({s} \cap Trusted(g))
              /\ place'[g][s] > Cardinality(Servers) + changes
              /\ \A t \in Servers : t # s => place'[g][t] = place[g][t]
          BY <1>1, <1>2, <2>0, <3>4, <4>0, <4>1
        <5>2. place'[g][s] \in Nat
          BY <2>0, RegistryFrame DEF WorldTypes
        <5>3. Now1 \subseteq Now(g) \cup ({s} \cap Trusted(g)) /\ Now(g) \subseteq Now1
          <6>1. place'[g][s] > 0
            BY <1>0, <5>1, <5>2
          <6>2. QED
            BY <3>2, <5>1, <6>1
        <5>4. /\ ToSet(d.found) \subseteq d.ever /\ Now1 \subseteq d.ever /\ d.steady \subseteq Now1
          BY <1>1, <3>1, <5>1, <5>3
        <5>5. ASSUME c.pc = "page" PROVE
                \A t \in c.steady : place'[g][t] <= c.cursor => place[g][t] <= c.cursor
          <6>1. \A t \in c.steady : t \in Servers
            BY <3>1, <3>2
          <6>2. ~(place'[g][s] <= c.cursor)
            BY <1>0, <3>1, <5>1, <5>2, <5>5
          <6>3. QED
            BY <5>1, <6>1, <6>2
        <5> HIDE DEF d, c, Now1, g
        <5>6. d.pc = "page" => /\ d.cursor <= Cardinality(Servers) + changes'
                               /\ \A t \in d.steady : place'[g][t] <= d.cursor => t \in ToSet(d.found)
          BY <1>0, <1>1, <3>1, <5>1, <5>5
        <5>7. d.pc = "replace" => d.steady \subseteq ToSet(d.found)
          BY <1>1, <3>1, <5>1
        <5>8. QED
          BY <5>4, <5>6, <5>7
      <4>2. CASE ~Publish(src, s)
        <5>1. /\ d.steady = c.steady \ {s} /\ d.ever = c.ever /\ place'[g][s] = 0
              /\ \A t \in Servers : t # s => place'[g][t] = place[g][t]
          BY <1>1, <1>2, <2>0, <3>4, <4>0, <4>2
        <5>3. Now1 = Now(g) \ {s}
          BY <3>2, <5>1
        <5>4. /\ ToSet(d.found) \subseteq d.ever /\ Now1 \subseteq d.ever /\ d.steady \subseteq Now1
          BY <1>1, <3>1, <5>1, <5>3
        <5>5. \A t \in d.steady : place'[g][t] = place[g][t]
          BY <3>1, <3>2, <5>1
        <5> HIDE DEF d, c, Now1, g
        <5>6. d.pc = "page" => /\ d.cursor <= Cardinality(Servers) + changes'
                               /\ \A t \in d.steady : place'[g][t] <= d.cursor => t \in ToSet(d.found)
          BY <1>0, <1>1, <3>1, <5>1, <5>5
        <5>7. d.pc = "replace" => d.steady \subseteq ToSet(d.found)
          BY <1>1, <3>1, <5>1
        <5>8. QED
          BY <5>4, <5>6, <5>7
      <4>3. QED
        BY <4>1, <4>2
    <3>5. QED
      BY <3>3, <3>4
  <2>3. ToSet(d.found) \subseteq Trusted(g) /\ IsInjective(d.found) /\ d.pages < MaxPages /\
        Head(d.todo) = g
    BY <1>1, <2>1
  <2>4. PICK x : x = g
    OBVIOUS
  <2>5. ASSUME x \in Faithful PROVE HasSoFar(cmd[q], x)'
    <3>1. Now(x)' = Now1
      BY <2>4 DEF Now, Trusted
    <3>2. QED
      BY <2>2, <2>4, <2>5, <3>1 DEF HasSoFar
  <2>6. Head(d.todo) = x /\ ToSet(d.found) \subseteq Trusted(x)
    BY <2>3, <2>4
  <2>7. Trusted(x)' = Trusted(x)
    BY DEF Trusted
  <2>8. QED
    BY <2>3, <2>5, <2>6, <2>7 DEF ListingOf
<1>5. QED
  BY <1>3, <1>4

(* Steps of commands keep every listing. *)
LEMMA MoveListing ==
  ASSUME CatalogsTypeOK, PlacesInv, ListingInv, NEW p \in Commands, Moves(p), NEW q \in Commands
  PROVE  ListingOf(cmd[q])'
<1>0. /\ UNCHANGED <<place, changes>> /\ changes \in Nat /\ Cardinality(Servers) \in Nat
      /\ ListingOf(cmd[q]) /\ cmd[q] \in Cmd /\ cmd'[q] \in Cmd /\ cmd'[q].cursor \in Nat
  <2>1. cmd'[q] \in Cmd
    BY TypesHold, MoveTypes DEF CatalogsTypeOK, CommandTypes
  <2>2. QED
    BY <2>1, Frame, Constants DEF CatalogsTypeOK, WorldTypes, CommandTypes, ListingInv, Cmd
<1>1. SUFFICES ListingOf(cmd'[q])
  BY <1>0, ListingStays
<1>2. CASE q # p
  <2>1. cmd'[q] \in Calmed(cmd[q])
    BY <1>2, Frame DEF CatalogsTypeOK
  <2> DEFINE d == cmd'[q]
  <2> HIDE DEF d
  <2>2. d \in Calmed(cmd[q])
    BY <2>1 DEF d
  <2>3. ListingOf(d)
    BY <1>0, <2>2, CalmedSame DEF ListingOf, HasSoFar
  <2>4. QED
    BY <2>3 DEF d
<1>3. CASE q = p
  <2>0. \A c : c.pc \notin {"page", "replace"} => ListingOf(c)
    BY DEF ListingOf
  <2>1. CASE StartSync(p)
    <3>1. PICK only \in {None} \cup Catalogs :
            Sources # <<>> /\ Start(p, Syncing([Idle EXCEPT !.only = only], Selected(Sources, only)))
      BY <2>1 DEF StartSync
    <3>2. cmd'[p] = Syncing([Idle EXCEPT !.only = only], Selected(Sources, only))
      BY <3>1 DEF Start
    <3>3. Selected(Sources, only) \in Seq(Catalogs) /\ Selected(Sources, only) # <<>>
      BY <3>1, Constants, SelectedSeq
    <3>4. [Idle EXCEPT !.only = only] \in Cmd
      BY IdleSensible DEF Cmd, Names
    <3>5. QED
      BY <1>3, <3>2, <3>3, <3>4, SyncingListing
  <2>2. CASE FetchPage(p)
    BY <1>3, <2>2, FetchListing
  <2>3. CASE ReplaceCatalog(p)
    <3>1. cmd'[p] = IF Tail(cmd[p].todo) = <<>> THEN Loading(Alone(p))
                    ELSE Syncing(cmd[p], Tail(cmd[p].todo))
      BY <2>3 DEF ReplaceCatalog, Become, CatalogsTypeOK, CommandTypes
    <3>2. cmd[p] \in Cmd /\ Tail(cmd[p].todo) \in Seq(Catalogs)
      BY <2>3 DEF CatalogsTypeOK, CommandTypes, Sensible, ReplaceCatalog
    <3>3. Loading(Alone(p)).pc = "load"
      BY DEF Loading, Idle
    <3>4. QED
      BY <1>3, <2>0, <3>1, <3>2, <3>3, SyncingListing
  <2>4. CASE ~(StartSync(p) \/ FetchPage(p) \/ ReplaceCatalog(p))
    <3>1. cmd'[p].pc \notin {"page", "replace"}
      BY <2>4, Places DEF Moves, Step
    <3>2. QED
      BY <1>3, <2>0, <3>1
  <2>5. QED
    BY <2>1, <2>2, <2>3, <2>4
<1>4. QED
  BY <1>2, <1>3

(* Every step keeps every listing. *)
LEMMA ListingHolds ==
  ASSUME CatalogsTypeOK, PlacesInv, ListingInv, [CatalogsNext]_catalogsVars
  PROVE  ListingInv'
<1> SUFFICES ASSUME NEW q \in Commands PROVE ListingOf(cmd[q])'
  BY DEF ListingInv
<1>1. ASSUME UNCHANGED <<place, cmd>>, changes' \in {changes, changes + 1} PROVE ListingOf(cmd[q])'
  <2>1. changes \in Nat /\ Cardinality(Servers) \in Nat /\ ListingOf(cmd'[q]) /\
        cmd'[q].cursor \in Nat
    BY <1>1, Constants DEF CatalogsTypeOK, WorldTypes, CommandTypes, Cmd, ListingInv
  <2>2. QED
    BY <1>1, <2>1, ListingStays
<1>2. ASSUME NEW s \in Inspected, ServerChanges(s) PROVE ListingOf(cmd[q])'
  BY <1>1, <1>2, ServerFrame
<1>3. CASE Tick \/ UNCHANGED catalogsVars
  BY <1>1, <1>3 DEF Tick, catalogsVars, registries
<1>4. QED
  BY <1>2, <1>3, MoveListing, RegistryListing DEF CatalogsNext, Environment, Moves, Registry

-----------------------------------------------------------------------------
(* Inspections. *)
LEMMA MergedSnapshot ==
  ASSUME CatalogsTypeOK, InspectionInv, NEW p \in Commands, cmd[p].pc = "merge"
  PROVE  Snapshot(Merged(cmd[p]))
<1> DEFINE c == cmd[p]
           E(k) == [server |-> k[1], tool |-> k[2], expires |-> now + TTL, taken |-> now]
           new == {E(k) : k \in c.seen}
           kept == Kept(c)
           added == {e \in new : \A k \in Kept(c) : Key(k) # Key(e)}
           ToolsOf(X, s) == {e.tool : e \in {o \in X : o.server = s}}
<1>1. /\ c.seen \subseteq Inspected \X Tools
      /\ \A s \in Inspected : Whole({t \in Tools : <<s, t>> \in c.seen}, s)
      /\ c.only # None => \A k \in c.seen : k[1] = c.only
      /\ observed # None => Snapshot(observed)
  BY DEF CatalogsTypeOK, CommandTypes, Cmd, InspectionInv, InspectionOf
<1>2. /\ c.only = None => kept = {}
      /\ c.only # None => \A k \in kept : k.server # c.only
      /\ kept # {} => observed # None /\ kept = {e \in observed : e.server # c.only}
  BY DEF Kept
<1>3. \A e \in new : e.expires = e.taken + TTL /\ e.taken = now /\ <<e.server, e.tool>> \in c.seen
                     /\ (c.only # None => e.server = c.only)
  BY <1>1
<1>4. \A e \in new, k \in kept : e.server # k.server
  <2> HIDE DEF new, kept, c
  <2>1. QED
    BY <1>2, <1>3
<1>5. Merged(c) = kept \cup new
  <2>1. added = new
    BY <1>4 DEF Key
  <2>2. Merged(c) = kept \cup added
    BY DEF Merged
  <2>3. QED
    BY <2>1, <2>2
<1>6. \A e \in kept : e.expires = e.taken + TTL
  BY <1>1, <1>2 DEF Snapshot
<1>7. \A e, f \in kept : e.server = f.server => e.taken = f.taken
  BY <1>1, <1>2 DEF Snapshot
<1>8. ASSUME NEW s \in Inspected PROVE Whole(ToolsOf(kept \cup new, s), s)
  <2>1. ToolsOf(new, s) = {t \in Tools : <<s, t>> \in c.seen}
    <3>1. \A t : t \in ToolsOf(new, s) <=> \E k \in c.seen : k[1] = s /\ k[2] = t
      <4>1. \A k : E(k).server = k[1] /\ E(k).tool = k[2]
        OBVIOUS
      <4> HIDE DEF E, c
      <4>2. QED
        BY <4>1
    <3>2. \A k \in c.seen : k = <<k[1], k[2]>> /\ k[2] \in Tools
      <4>1. \A k \in Inspected \X Tools : k = <<k[1], k[2]>> /\ k[2] \in Tools
        OBVIOUS
      <4> HIDE DEF c
      <4>2. QED
        BY <1>1, <4>1
    <3> HIDE DEF new, c
    <3>3. QED
      BY <3>1, <3>2
  <2>2. CASE \E e \in kept : e.server = s
    <3>1. ToolsOf(kept \cup new, s) = ToolsOf(kept, s)
      BY <1>4, <2>2
    <3>2. ToolsOf(kept, s) = ToolsOf(observed, s) /\ observed # None
      BY <1>2, <2>2
    <3>3. QED
      BY <1>1, <1>8, <3>1, <3>2 DEF Snapshot
  <2>3. CASE ~\E e \in kept : e.server = s
    <3>1. ToolsOf(kept \cup new, s) = ToolsOf(new, s)
      BY <2>3
    <3>2. QED
      BY <1>1, <1>8, <2>1, <3>1
  <2>4. QED
    BY <2>2, <2>3
<1>9. \A e, f \in kept \cup new : e.server = f.server => e.taken = f.taken
  <2> HIDE DEF kept, new
  <2>1. QED
    BY <1>3, <1>4, <1>7
<1>10. \A e \in kept \cup new : e.expires = e.taken + TTL
  BY <1>3, <1>6
<1>11. QED
  <2> HIDE DEF kept, new
  <2>1. QED
    BY <1>5, <1>8, <1>9, <1>10 DEF Snapshot

(* An answer is what the server offers at that moment, all of it. *)
LEMMA InspectKeeps ==
  ASSUME CatalogsTypeOK, PlacesInv, InspectionInv, NEW p \in Commands, Inspect(p)
  PROVE  InspectionOf(cmd'[p])
<1> DEFINE c == cmd[p]
           d == cmd'[p]
           s == Head(c.todo)
           new == {<<s, t>> : t \in offers[s]}
           Seen(x) == {t \in Tools : <<x, t>> \in c.seen}
<1>1. /\ c \in Cmd /\ c.todo \in Seq(Inspected) /\ c.todo # <<>> /\ IsInjective(c.todo) /\
         s \in Inspected
      /\ c.pc = "inspect" /\ c.seen \subseteq Inspected \X Tools
  BY DEF CatalogsTypeOK, CommandTypes, Inspect, Sensible, Cmd
<1>2. offers[s] \subseteq Tools /\ offers[s] \in offered[s]
  BY <1>1, CatalogsAssumption DEF CatalogsTypeOK, WorldTypes, CatalogsAssumption, PlacesInv
<1>3. s \in ToSet(c.todo) /\ ToSet(Tail(c.todo)) = ToSet(c.todo) \ {s}
  BY <1>1, TailFacts
<1>4. d = [c EXCEPT !.seen = c.seen \cup new, !.todo = Tail(c.todo),
                    !.pc = IF Len(c.todo) = 1 THEN "merge" ELSE "inspect"]
  BY DEF Inspect, Become, CatalogsTypeOK, CommandTypes
<1>5. /\ d.seen = c.seen \cup new /\ d.todo = Tail(c.todo) /\ d.only = c.only /\
         d.pc \in {"merge", "inspect"}
  <2> DEFINE seen == c.seen \cup new
             todo == Tail(c.todo)
             pl == IF Len(c.todo) = 1 THEN "merge" ELSE "inspect"
  <2>0. pl \in {"merge", "inspect"} /\ d = [c EXCEPT !.seen = seen, !.todo = todo, !.pc = pl]
    BY <1>4
  <2> HIDE DEF c, new, seen, todo, pl
  <2>1. d.seen = seen /\ d.todo = todo /\ d.only = c.only /\ d.pc \in {"merge", "inspect"}
    BY <1>1, <2>0 DEF Cmd
  <2>2. QED
    BY <2>1 DEF seen, todo
<1>6. /\ \A x \in Inspected : Whole(Seen(x), x)
      /\ c.only # None => \A k \in c.seen : k[1] = c.only
      /\ \A k \in c.seen : k[1] \notin ToSet(c.todo)
      /\ c.only # None => ToSet(c.todo) \subseteq {c.only}
  BY <1>1 DEF InspectionInv, InspectionOf
<1>7. ASSUME NEW x \in Inspected PROVE Whole({t \in Tools : <<x, t>> \in c.seen \cup new}, x)
  <2>1. CASE x = s
    <3>1. \A t : <<s, t>> \notin c.seen
      <4>1. \A k \in c.seen : k[1] # s
        BY <1>3, <1>6
      <4>2. QED
        BY <4>1
    <3>2. {t \in Tools : <<s, t>> \in c.seen \cup new} = offers[s]
      BY <1>2, <3>1
    <3>3. QED
      BY <1>2, <2>1, <3>2 DEF Whole
  <2>2. CASE x # s
    <3>1. {t \in Tools : <<x, t>> \in c.seen \cup new} = Seen(x)
      BY <2>2
    <3>2. QED
      BY <1>6, <1>7, <3>1
  <2>3. QED
    BY <2>1, <2>2
<1>8. \A k \in c.seen \cup new : k[1] \notin ToSet(Tail(c.todo)) /\ (c.only # None => k[1] = c.only)
  BY <1>3, <1>6
<1>9. c.only # None => ToSet(Tail(c.todo)) \subseteq {c.only}
  BY <1>3, <1>6
<1>10. QED
  <2> DEFINE seen == c.seen \cup new
  <2>0. /\ \A x \in Inspected : Whole({t \in Tools : <<x, t>> \in seen}, x)
        /\ \A k \in seen : k[1] \notin ToSet(Tail(c.todo)) /\ (c.only # None => k[1] = c.only)
        /\ d.seen = seen
    BY <1>5, <1>7, <1>8
  <2> HIDE DEF c, d, seen
  <2>1. InspectionOf(d)
    BY <1>5, <1>9, <2>0 DEF InspectionOf
  <2>2. QED
    BY <2>1 DEF d

(* What was once offered stays so. *)
LEMMA InspectionStays ==
  ASSUME NEW c, InspectionOf(c), \A s \in Inspected : offered[s] \subseteq offered'[s]
  PROVE  InspectionOf(c)'
<1>1. \A ts, s : s \in Inspected /\ Whole(ts, s) => Whole(ts, s)'
  BY DEF Whole
<1>2. QED
  BY <1>1 DEF InspectionOf, Snapshot

(* Steps of commands keep every inspection. *)
LEMMA MoveInspection ==
  ASSUME CatalogsTypeOK, PlacesInv, InspectionInv, NEW p \in Commands, Moves(p), NEW q \in Commands
  PROVE  InspectionOf(cmd'[q])
<1>0. InspectionOf(cmd[q]) /\ cmd[q] \in Cmd
  BY DEF CatalogsTypeOK, CommandTypes, InspectionInv
<1>1. CASE q # p
  <2> DEFINE d == cmd'[q]
  <2>1. d \in Calmed(cmd[q])
    BY <1>1, Frame DEF CatalogsTypeOK
  <2> HIDE DEF d
  <2>2. InspectionOf(d)
    BY <1>0, <2>1, CalmedSame DEF InspectionOf
  <2>3. QED
    BY <2>2 DEF d
<1>2. CASE q = p
  <2>0. \A c : c.pc \notin {"inspect", "merge", "store"} => InspectionOf(c)
    BY DEF InspectionOf
  <2>1. CASE StartInspect(p)
    <3>1. PICK only \in {None} \cup Inspected : /\ Bound # <<>>
            /\ Start(p, [Idle EXCEPT !.pc = "inspect", !.only = only, !.todo = Selected(Bound, only)])
      BY <2>1 DEF StartInspect
    <3>2. only # None => ToSet(Selected(Bound, only)) \subseteq {only}
      BY <3>1, Constants, SelectedSeq
    <3>3. cmd'[p] = [Idle EXCEPT !.pc = "inspect", !.only = only, !.todo = Selected(Bound, only)]
      BY <3>1 DEF Start
    <3>4. /\ cmd'[p].pc = "inspect" /\ cmd'[p].only = only /\ cmd'[p].todo = Selected(Bound, only)
          /\ cmd'[p].seen = {}
      BY <3>3 DEF Idle
    <3>5. \A s \in Inspected : {t \in Tools : <<s, t>> \in {}} = {}
      OBVIOUS
    <3>6. QED
      BY <1>2, <3>2, <3>4, <3>5 DEF InspectionOf, Whole
  <2>2. CASE Inspect(p)
    BY <1>2, <2>2, InspectKeeps
  <2>3. CASE Merge(p)
    <3>1. cmd[p].pc = "merge"
      BY <2>3 DEF Merge
    <3>2. cmd'[p].pc = "store" /\ cmd'[p].merged = Merged(cmd[p])
      BY <2>3, Places
    <3>3. Snapshot(Merged(cmd[p]))
      BY <3>1, MergedSnapshot
    <3>4. QED
      BY <1>2, <3>2, <3>3 DEF InspectionOf
  <2>4. CASE ~(StartInspect(p) \/ Inspect(p) \/ Merge(p))
    <3>1. cmd'[p].pc \notin {"inspect", "merge", "store"}
      BY <2>4, Places DEF Moves, Step
    <3>2. QED
      BY <1>2, <2>0, <3>1
  <2>5. QED
    BY <2>1, <2>2, <2>3, <2>4
<1>3. QED
  BY <1>1, <1>2

(* Every step keeps every inspection and the file. *)
LEMMA InspectionHolds ==
  ASSUME CatalogsTypeOK, PlacesInv, InspectionInv, [CatalogsNext]_catalogsVars
  PROVE  InspectionInv'
<1>1. ASSUME UNCHANGED <<observed, cmd>>, \A s \in Inspected : offered[s] \subseteq offered'[s]
      PROVE  InspectionInv'
  <2>1. \A p \in Commands : InspectionOf(cmd[p])'
    BY <1>1, InspectionStays DEF InspectionInv
  <2>2. observed # None => Snapshot(observed)'
    BY <1>1 DEF InspectionInv, Snapshot, Whole
  <2>3. QED
    BY <1>1, <2>1, <2>2 DEF InspectionInv
<1>2. ASSUME NEW p \in Commands, Moves(p) PROVE InspectionInv'
  <2>1. UNCHANGED offered
    BY <1>2, Frame DEF CatalogsTypeOK
  <2>2. \A q \in Commands : InspectionOf(cmd[q])'
    BY <1>2, <2>1, MoveInspection DEF InspectionOf, Snapshot, Whole
  <2>3. observed' # None => Snapshot(observed)'
    <3>1. CASE ReplaceObserved(p)
      <4>1. observed' = cmd[p].merged /\ Snapshot(cmd[p].merged)
        BY <3>1 DEF ReplaceObserved, InspectionInv, InspectionOf
      <4>2. QED
        BY <2>1, <4>1 DEF Snapshot, Whole
    <3>2. CASE UNCHANGED observed
      BY <2>1, <3>2 DEF InspectionInv, Snapshot, Whole
    <3>3. QED
      BY <1>2, <3>1, <3>2 DEF Moves, Step, StartSync, StartInspect, StartRefresh, Start,
         FetchPage, Inspect, ReplaceCatalog, Merge, LoadCatalog, LoadObserved, Clear, Insert,
         Finish, Stop, files
  <2>4. QED
    BY <2>2, <2>3 DEF InspectionInv
<1>3. ASSUME NEW src \in Faithful, NEW s \in Servers, Registry(src, s) PROVE InspectionInv'
  <2>1. UNCHANGED <<observed, offered>>
    BY <1>3, RegistryFrame
  <2>2. \A q \in Commands : /\ cmd'[q].pc = cmd[q].pc /\ cmd'[q].only = cmd[q].only /\
                               cmd'[q].todo = cmd[q].todo
                            /\ cmd'[q].seen = cmd[q].seen /\ cmd'[q].merged = cmd[q].merged
    BY <1>3, RegistryFrame
  <2>3. ASSUME NEW q \in Commands PROVE InspectionOf(cmd[q])'
    <3> DEFINE d == cmd'[q]
    <3>1. InspectionOf(cmd[q])
      BY DEF InspectionInv
    <3>2. /\ d.pc = cmd[q].pc /\ d.only = cmd[q].only /\ d.todo = cmd[q].todo
          /\ d.seen = cmd[q].seen /\ d.merged = cmd[q].merged
      BY <2>2
    <3> HIDE DEF d
    <3>3. InspectionOf(d)
      BY <3>1, <3>2 DEF InspectionOf
    <3>4. InspectionOf(cmd'[q])
      BY <3>3 DEF d
    <3>5. QED
      BY <2>1, <3>4 DEF InspectionOf, Snapshot, Whole
  <2>4. QED
    BY <2>1, <2>3 DEF InspectionInv, Snapshot, Whole
<1>4. ASSUME NEW s \in Inspected, ServerChanges(s) PROVE InspectionInv'
  BY <1>1, <1>4, ServerFrame DEF files
<1>5. CASE Tick \/ UNCHANGED catalogsVars
  BY <1>1, <1>5 DEF Tick, catalogsVars, servers, files
<1>6. QED
  BY <1>2, <1>3, <1>4, <1>5 DEF CatalogsNext, Environment, Moves, Registry

-----------------------------------------------------------------------------
(* Refreshes. *)
LEMMA ConcatIndex ==
  ASSUME NEW S, NEW f \in Seq(S), NEW g \in Seq(S), NEW i \in DOMAIN (f \o g)
  PROVE  /\ i \in Nat /\ Len(f) \in Nat
         /\ \/ i <= Len(f) /\ i \in DOMAIN f /\ (f \o g)[i] = f[i]
            \/ i > Len(f) /\ (f \o g)[i] \in ToSet(g)
<1>1. /\ f \o g \in Seq(S) /\ Len(f) \in Nat /\ Len(g) \in Nat /\ Len(f \o g) = Len(f) + Len(g)
      /\ \A j \in 1..Len(f) + Len(g) : (f \o g)[j] = IF j <= Len(f) THEN f[j] ELSE g[j - Len(f)]
  BY ConcatProperties, LenProperties
<1>2. DOMAIN f = 1..Len(f) /\ DOMAIN g = 1..Len(g) /\ DOMAIN (f \o g) = 1..Len(f) + Len(g)
  BY <1>1
<1>3. i \in 1..Len(f) + Len(g)
  BY <1>2
<1>4. CASE i <= Len(f)
  BY <1>1, <1>2, <1>3, <1>4
<1>5. CASE ~(i <= Len(f))
  <2>1. i - Len(f) \in DOMAIN g /\ (f \o g)[i] = g[i - Len(f)]
    BY <1>1, <1>2, <1>3, <1>5
  <2>2. QED
    BY <1>1, <1>3, <1>5, <2>1 DEF ToSet
<1>6. QED
  BY <1>4, <1>5

(* A sequence is its head and its tail. *)
LEMMA ConsFacts ==
  ASSUME NEW S, NEW f \in Seq(S), f # <<>>
  PROVE  /\ Tail(f) \in Seq(S) /\ Head(f) \in S /\ ToSet(f) = {Head(f)} \cup ToSet(Tail(f))
         /\ 1 \in DOMAIN f /\ f[1] = Head(f)
         /\ \A i \in DOMAIN Tail(f) : i \in Nat /\ i + 1 > 1 /\ i + 1 \in DOMAIN f /\
                                      Tail(f)[i] = f[i + 1]
<1>1. /\ Len(f) \in Nat \ {0} /\ DOMAIN f = 1..Len(f) /\ Tail(f) \in Seq(S) /\ Head(f) = f[1]
      /\ Len(Tail(f)) = Len(f) - 1 /\ DOMAIN Tail(f) = 1..Len(f) - 1
      /\ \A i \in 1..Len(f) - 1 : Tail(f)[i] = f[i + 1]
  OBVIOUS
<1>2. ToSet(f) \subseteq {Head(f)} \cup ToSet(Tail(f))
  <2> SUFFICES ASSUME NEW i \in 1..Len(f), i # 1 PROVE f[i] \in ToSet(Tail(f))
    BY <1>1 DEF ToSet
  <2>1. i - 1 \in 1..Len(f) - 1 /\ Tail(f)[i - 1] = f[i]
    BY <1>1
  <2>2. QED
    BY <1>1, <2>1 DEF ToSet
<1>3. {Head(f)} \cup ToSet(Tail(f)) \subseteq ToSet(f)
  BY <1>1 DEF ToSet
<1>4. QED
  BY <1>1, <1>2, <1>3

(* What a refresh writes is: the catalogs', then what was observed, then   *)
(* what is suggested besides.                                              *)
LEMMA LoadedStamped ==
  ASSUME CatalogsTypeOK, InspectionInv, LoadInv, NEW p \in Commands, LoadObserved(p)
  PROVE  Stamped(cmd'[p].records)
<1> DEFINE f == cmd[p].records
           o == ObservedRecords
           listed == f \o o
           w == Placeholders(listed)
           all == listed \o w
<1>1. /\ f \in Seq(Record) /\ o \in Seq(Record) /\ \A i \in DOMAIN f : f[i].taken = None
  BY ObservedSeq DEF CatalogsTypeOK, CommandTypes, Cmd, LoadInv, LoadOf, LoadObserved
<1>2. /\ \A e \in ToSet(o) : e.expires = e.taken + TTL
      /\ \A e, g \in ToSet(o) : e.server = g.server => e.taken = g.taken
  BY ObservedSeq DEF InspectionInv, Snapshot
<1>3. listed \in Seq(Record) /\ ToSet(listed) = ToSet(f) \cup ToSet(o)
  BY <1>1, ConcatSet
<1>4. w \in Seq(Record) /\ \A r \in ToSet(w) : r.taken = None /\ ~Unsuggested(r.server)
  <2>1. w \in Seq(Record) /\ \A r \in ToSet(w) : r.taken = None /\ Key(r) \in Suggested
    <3> HIDE DEF listed
    <3>1. QED
      BY <1>3, PlaceholdersSeq
  <2>2. \A r : Key(r) \in Suggested => ~Unsuggested(r.server)
    BY DEF Key, Unsuggested
  <2> HIDE DEF w
  <2>3. QED
    BY <2>1, <2>2
<1>5. \A i \in DOMAIN all :
        /\ i \in Nat /\ Len(f) \in Nat
        /\ \/ i <= Len(f) /\ all[i].taken = None
           \/ i > Len(f) /\ all[i] \in ToSet(o)
           \/ i > Len(f) /\ all[i].taken = None /\ ~Unsuggested(all[i].server)
  <2> SUFFICES ASSUME NEW i \in DOMAIN all
               PROVE  /\ i \in Nat /\ Len(f) \in Nat
                      /\ \/ i <= Len(f) /\ all[i].taken = None
                         \/ i > Len(f) /\ all[i] \in ToSet(o)
                         \/ i > Len(f) /\ all[i].taken = None /\ ~Unsuggested(all[i].server)
    OBVIOUS
  <2>1. /\ i \in Nat /\ Len(listed) \in Nat
        /\ \/ i <= Len(listed) /\ i \in DOMAIN listed /\ all[i] = listed[i]
           \/ i > Len(listed) /\ all[i] \in ToSet(w)
    <3> HIDE DEF listed, w
    <3>1. QED
      BY <1>3, <1>4, ConcatIndex
  <2>2. Len(f) \in Nat /\ Len(o) \in Nat /\ Len(listed) = Len(f) + Len(o)
    BY <1>1, LenProperties, ConcatProperties
  <2>3. CASE i \in DOMAIN listed /\ all[i] = listed[i]
    <3>1. \/ i <= Len(f) /\ i \in DOMAIN f /\ listed[i] = f[i]
          \/ i > Len(f) /\ listed[i] \in ToSet(o)
      BY <1>1, <2>3, ConcatIndex
    <3> HIDE DEF listed, w, f, o, all
    <3>2. QED
      BY <1>1, <2>1, <2>2, <2>3, <3>1
  <2>4. CASE i > Len(listed) /\ all[i] \in ToSet(w)
    <3> HIDE DEF listed, w, f, o, all
    <3>1. QED
      BY <1>4, <2>1, <2>2, <2>4
  <2>5. QED
    BY <2>1, <2>3, <2>4
<1>6. cmd'[p].records = all
  <2> DEFINE c == cmd[p]
  <2>1. c \in Cmd /\ cmd'[p] = [c EXCEPT !.pc = "clear", !.records = all]
    BY LoadObservedTypes DEF CatalogsTypeOK, CommandTypes
  <2> HIDE DEF all, c
  <2>2. QED
    BY <2>1 DEF Cmd
<1> HIDE DEF all, o, f
<1>7. \A i \in DOMAIN all : all[i].taken # None => all[i].expires = all[i].taken + TTL
  BY <1>2, <1>5
<1>8. \A i, j \in DOMAIN all :
        i < j /\ all[i].server = all[j].server /\ Unsuggested(all[i].server)
        /\ all[i].taken # None => all[j].taken = all[i].taken
  BY <1>2, <1>5
<1>9. QED
  BY <1>6, <1>7, <1>8 DEF Stamped

(* What is left to insert is as good as the whole. *)
LEMMA TailStamped ==
  ASSUME NEW f \in Seq(Record), f # <<>>, Stamped(f)
  PROVE  Stamped(Tail(f))
<1>1. \A i \in DOMAIN Tail(f) : i \in Nat /\ i + 1 > 1 /\ i + 1 \in DOMAIN f /\ Tail(f)[i] = f[i + 1]
  BY ConsFacts
<1>2. \A i, j \in DOMAIN Tail(f) : i < j => i + 1 < j + 1
  BY <1>1
<1>3. QED
  BY <1>1, <1>2 DEF Stamped

(* Steps of commands keep what every refresh loaded. *)
LEMMA MoveLoad ==
  ASSUME CatalogsTypeOK, PlacesInv, InspectionInv, LoadInv, NEW p \in Commands, Moves(p),
         NEW q \in Commands
  PROVE  LoadOf(cmd'[q])
<1>0. LoadOf(cmd[q]) /\ cmd[q] \in Cmd
  BY DEF CatalogsTypeOK, CommandTypes, LoadInv
<1>1. CASE q # p
  <2> DEFINE d == cmd'[q]
  <2>1. d \in Calmed(cmd[q])
    BY <1>1, Frame DEF CatalogsTypeOK
  <2> HIDE DEF d
  <2>2. LoadOf(d)
    BY <1>0, <2>1, CalmedSame DEF LoadOf
  <2>3. QED
    BY <2>2 DEF d
<1>2. CASE q = p
  <2>0. /\ \A c : c.pc \notin {"load", "clear", "insert"} => LoadOf(c)
        /\ \A b : LoadOf(Loading(b))
    BY DEF LoadOf, Loading, Idle
  <2>1. CASE StartSync(p) \/ StartInspect(p) \/ FetchPage(p) \/ Inspect(p) \/ Merge(p) \/
             Finish(p) \/ Stop(p)
    <3>1. cmd'[p].pc \notin {"load", "clear", "insert"}
      BY <2>1, Places
    <3>2. QED
      BY <1>2, <2>0, <3>1
  <2>2. CASE StartRefresh(p) \/ ReplaceObserved(p)
    <3>1. cmd'[p] = Loading(Alone(p))
      BY <2>2 DEF StartRefresh, Start, ReplaceObserved, Become, CatalogsTypeOK, CommandTypes
    <3>2. QED
      BY <1>2, <2>0, <3>1
  <2>3. CASE ReplaceCatalog(p)
    <3>1. cmd'[p] \in {Loading(Alone(p)), Syncing(cmd[p], Tail(cmd[p].todo))}
      BY <2>3 DEF ReplaceCatalog, Become, CatalogsTypeOK, CommandTypes
    <3>2. Syncing(cmd[p], Tail(cmd[p].todo)).pc = "page"
      BY <1>0, <1>2, SyncingForm
    <3>3. QED
      BY <1>2, <2>0, <3>1, <3>2
  <2>4. CASE LoadCatalog(p)
    <3> DEFINE c == cmd[p]
               src == Head(c.todo)
               new == [i \in DOMAIN file[src] |-> Listed(file[src][i])]
               records == c.records \o new
               todo == Tail(c.todo)
    <3>1. /\ c \in Cmd /\ c.pc = "load" /\ c.records \in Seq(Record) /\ src \in Catalogs
      BY <2>4 DEF CatalogsTypeOK, CommandTypes, LoadCatalog, Sensible, Cmd
    <3>2. cmd'[p] = IF ~Loadable(src) THEN Idle ELSE [c EXCEPT !.todo = todo, !.records = records]
      BY <2>4 DEF LoadCatalog, Become, CatalogsTypeOK, CommandTypes
    <3>3. CASE Loadable(src)
      <4>1. file[src] \in Seq(Servers)
        BY <3>1, <3>3 DEF Loadable, CatalogsTypeOK, FileTypes
      <4>2. new \in Seq(Record) /\ ToSet(new) = {Listed(s) : s \in ToSet(file[src])}
        BY <4>1, ListedSeq
      <4>3. \A r \in ToSet(new) : r.taken = None
        BY <4>2 DEF Listed
      <4>4. \A i \in DOMAIN c.records : c.records[i].taken = None
        BY <1>0, <1>2, <3>1 DEF LoadOf
      <4>5. \A i \in DOMAIN records : records[i].taken = None
        <5> HIDE DEF new
        <5>1. QED
          BY <3>1, <4>2, <4>3, <4>4, ConcatIndex
      <4>6. cmd'[p].records = records /\ cmd'[p].pc = "load"
        <5> HIDE DEF c, records, todo
        <5>1. QED
          BY <3>1, <3>2, <3>3 DEF Cmd
      <4> HIDE DEF records
      <4>7. QED
        BY <1>2, <4>5, <4>6 DEF LoadOf
    <3>4. CASE ~Loadable(src)
      BY <1>2, <2>0, <3>2, <3>4 DEF Idle
    <3>5. QED
      BY <3>3, <3>4
  <2>5. CASE LoadObserved(p)
    <3>1. Stamped(cmd'[p].records)
      BY <2>5, LoadedStamped
    <3>2. cmd'[p].pc = "clear"
      BY <2>5, Places
    <3>3. QED
      BY <1>2, <3>1, <3>2 DEF LoadOf
  <2>6. CASE Clear(p)
    <3>1. cmd[p].pc = "clear" /\ cmd'[p] = [cmd[p] EXCEPT !.pc = "insert"]
      BY <2>6 DEF Clear, Become, CatalogsTypeOK, CommandTypes
    <3>2. cmd'[p].pc = "insert" /\ cmd'[p].records = cmd[p].records
      BY <1>0, <1>2, <3>1 DEF Cmd
    <3>3. QED
      BY <1>0, <1>2, <3>1, <3>2 DEF LoadOf
  <2>7. CASE Insert(p)
    <3>1. /\ cmd[p].pc = "insert" /\ cmd[p].records # <<>> /\ cmd[p].records \in Seq(Record)
          /\ cmd'[p] = [cmd[p] EXCEPT !.records = Tail(@)]
      BY <2>7 DEF Insert, Become, CatalogsTypeOK, CommandTypes, Cmd
    <3>2. cmd'[p].pc = "insert" /\ cmd'[p].records = Tail(cmd[p].records)
      BY <1>0, <1>2, <3>1 DEF Cmd
    <3>3. QED
      BY <1>0, <1>2, <3>1, <3>2, TailStamped DEF LoadOf
  <2>8. QED
    BY <2>1, <2>2, <2>3, <2>4, <2>5, <2>6, <2>7 DEF Moves, Step
<1>3. QED
  BY <1>1, <1>2

(* Every step keeps what every refresh loaded. *)
LEMMA LoadHolds ==
  ASSUME CatalogsTypeOK, PlacesInv, InspectionInv, LoadInv, [CatalogsNext]_catalogsVars
  PROVE  LoadInv'
<1> SUFFICES ASSUME NEW q \in Commands PROVE LoadOf(cmd[q])'
  BY DEF LoadInv
<1>1. CASE UNCHANGED cmd
  BY <1>1 DEF LoadInv, LoadOf, Stamped, Unsuggested
<1>2. ASSUME NEW p \in Commands, Moves(p) PROVE LoadOf(cmd[q])'
  BY <1>2, MoveLoad DEF LoadOf, Stamped, Unsuggested
<1>3. ASSUME NEW src \in Faithful, NEW s \in Servers, Registry(src, s) PROVE LoadOf(cmd[q])'
  <2>1. cmd'[q].pc = cmd[q].pc /\ cmd'[q].records = cmd[q].records
    BY <1>3, RegistryFrame
  <2>2. QED
    BY <2>1 DEF LoadInv, LoadOf, Stamped, Unsuggested
<1>4. QED
  BY <1>1, <1>2, <1>3, ServerFrame DEF CatalogsNext, Environment, Moves, Registry, Tick, catalogsVars

-----------------------------------------------------------------------------
(* The index. *)
(* Nobody but its own clearing takes a command to the insertions.          *)
LEMMA InsertingSame ==
  ASSUME CatalogsTypeOK, PlacesInv, NEW p \in Commands, Moves(p), ~Clear(p), ~Insert(p),
         NEW q \in Commands, cmd'[q].pc = "insert"
  PROVE  cmd[q].pc = "insert" /\ cmd'[q].records = cmd[q].records
<1>0. cmd[q] \in Cmd
  BY DEF CatalogsTypeOK, CommandTypes
<1>1. CASE q # p
  <2>1. cmd'[q] \in Calmed(cmd[q])
    BY <1>1, Frame DEF CatalogsTypeOK
  <2> DEFINE d == cmd'[q]
  <2> HIDE DEF d
  <2>2. d \in Calmed(cmd[q])
    BY <2>1 DEF d
  <2>3. d.pc = cmd[q].pc /\ d.records = cmd[q].records
    BY <1>0, <2>2, CalmedSame
  <2>4. QED
    BY <2>3 DEF d
<1>2. CASE q = p
  BY <1>2, Places DEF Moves, Step
<1>3. QED
  BY <1>1, <1>2

(* An insertion writes the row of the server's view: every row of the      *)
(* server has its stamp.                                                   *)
LEMMA InsertStamps ==
  ASSUME CatalogsTypeOK, PlacesInv, LoadInv, StampInv, NEW p \in Commands, Insert(p)
  PROVE  StampInv'
<1> DEFINE c == cmd[p]
           h == Head(c.records)
           new == [server |-> h.server, tool |-> h.tool, taken |-> h.taken]
<1>1. /\ c \in Cmd /\ c.pc = "insert" /\ c.records \in Seq(Record) /\ c.records # <<>> /\
         Stamped(c.records)
      /\ cleared' = cleared
  BY DEF CatalogsTypeOK, CommandTypes, Cmd, Insert, LoadInv, LoadOf
<1>2. cmd'[p].pc = "insert" /\ cmd'[p].records = Tail(c.records)
  BY DEF Insert, Become, CatalogsTypeOK, CommandTypes, Cmd
<1>3. /\ h \in Record /\ 1 \in DOMAIN c.records /\ c.records[1] = h
      /\ \A i \in DOMAIN Tail(c.records) :
           i \in Nat /\ i + 1 > 1 /\ i + 1 \in DOMAIN c.records /\
           Tail(c.records)[i] = c.records[i + 1]
  BY <1>1, ConsFacts
<1> SUFFICES ASSUME ~marred', NEW r \in rows', r.taken # None, Unsuggested(r.server)
             PROVE  expires'[r.server] = r.taken + TTL /\ StillToCome(r)'
  BY DEF StampInv, Unsuggested
<1>4. /\ ~marred /\ cleared = p
      /\ rows' = {o \in rows : Key(o) # Key(h)} \cup {new} /\
         expires' = [expires EXCEPT ![h.server] = h.expires]
  BY <1>1 DEF Insert, InsertCapability, CatalogsTypeOK, IndexTypes
<1>5. SUFFICES /\ expires'[r.server] = r.taken + TTL
               /\ \A i \in DOMAIN Tail(c.records) :
                    Tail(c.records)[i].server = r.server => Tail(c.records)[i].taken = r.taken
  BY <1>1, <1>2, <1>4 DEF StillToCome
<1>6. expires \in [Servers -> Nat \cup {None}] /\ h.server \in Servers
  BY <1>3 DEF CatalogsTypeOK, IndexTypes, Record
<1>7. CASE r = new
  <2>1. r.server = h.server /\ r.taken = h.taken
    BY <1>7
  <2>2. expires'[r.server] = h.expires /\ h.expires = h.taken + TTL
    BY <1>1, <1>3, <1>4, <1>6, <2>1 DEF Stamped
  <2>3. \A i \in DOMAIN c.records : i > 1 /\ c.records[i].server = h.server =>
                                    c.records[i].taken = h.taken
    <3> HIDE DEF c, h
    <3>1. QED
      BY <1>1, <1>3, <2>1 DEF Stamped
  <2> HIDE DEF c, h
  <2>4. QED
    BY <1>3, <2>1, <2>2, <2>3
<1>8. CASE r # new
  <2>1. r \in rows /\ expires[r.server] = r.taken + TTL /\ StillToCome(r)
    BY <1>4, <1>8 DEF StampInv
  <2>2. \A i \in DOMAIN c.records : c.records[i].server = r.server => c.records[i].taken = r.taken
    BY <1>1, <1>4, <2>1 DEF StillToCome
  <2>3. expires'[r.server] = r.taken + TTL
    <3>1. CASE r.server = h.server
      <4>1. h.taken = r.taken /\ h.expires = h.taken + TTL
        BY <1>1, <1>3, <2>2, <3>1 DEF Stamped
      <4>2. QED
        BY <1>4, <1>6, <3>1, <4>1
    <3>2. CASE r.server # h.server
      <4>1. expires'[r.server] = expires[r.server]
        <5>1. r.server \in Servers
          BY <2>1 DEF CatalogsTypeOK, IndexTypes, Row
        <5>2. QED
          BY <1>4, <1>6, <3>2, <5>1
      <4>2. QED
        BY <2>1, <4>1
    <3>3. QED
      BY <3>1, <3>2
  <2> HIDE DEF c, h, new
  <2>4. QED
    BY <1>3, <2>2, <2>3
<1>9. QED
  BY <1>7, <1>8

(* Every step keeps the stamps of the index. *)
LEMMA StampHolds ==
  ASSUME CatalogsTypeOK, PlacesInv, LoadInv, StampInv, [CatalogsNext]_catalogsVars
  PROVE  StampInv'
<1>1. ASSUME UNCHANGED <<rows, expires, cleared, marred>>,
             \A q \in Commands : cmd'[q].pc = "insert" =>
               cmd[q].pc = "insert" /\ cmd'[q].records = cmd[q].records
      PROVE  StampInv'
  BY <1>1 DEF StampInv, StillToCome, Unsuggested
<1>2. ASSUME NEW p \in Commands, Moves(p) PROVE StampInv'
  <2>1. CASE Clear(p)
    BY <2>1 DEF Clear, StampInv
  <2>2. CASE Insert(p)
    BY <2>2, InsertStamps
  <2>3. CASE ~Clear(p) /\ ~Insert(p)
    <3>1. UNCHANGED <<rows, expires, cleared, marred>>
      BY <1>2, <2>3 DEF Moves, Step, StartSync, StartInspect, StartRefresh, Start, FetchPage, Inspect,
         ReplaceCatalog, ReplaceObserved, Merge, LoadCatalog, LoadObserved, Finish, Stop, index
    <3>2. QED
      BY <1>1, <1>2, <2>3, <3>1, InsertingSame
  <2>4. QED
    BY <2>1, <2>2, <2>3
<1>3. ASSUME NEW src \in Faithful, NEW s \in Servers, Registry(src, s) PROVE StampInv'
  <2>1. UNCHANGED <<rows, expires, cleared, marred>>
    BY <1>3, RegistryFrame
  <2>2. \A q \in Commands : cmd'[q].pc = cmd[q].pc /\ cmd'[q].records = cmd[q].records
    BY <1>3, RegistryFrame
  <2>3. QED
    BY <1>1, <2>1, <2>2
<1>4. ASSUME UNCHANGED <<rows, expires, cleared, marred, cmd>> PROVE StampInv'
  BY <1>1, <1>4
<1>5. ASSUME NEW s \in Inspected, ServerChanges(s) PROVE StampInv'
  BY <1>4, <1>5, ServerFrame DEF index
<1>6. CASE Tick \/ UNCHANGED catalogsVars
  BY <1>4, <1>6 DEF Tick, catalogsVars, index
<1>7. QED
  BY <1>2, <1>3, <1>5, <1>6 DEF CatalogsNext, Environment, Moves, Registry

(* The keys of two sets. *)
LEMMA KeysOfUnion ==
  ASSUME NEW A, NEW B
  PROVE  KeysOf(A \cup B) = KeysOf(A) \cup KeysOf(B)
BY DEF KeysOf

(* A catalog's records are its file's. *)
LEMMA LoadCatalogAlone ==
  ASSUME CatalogsTypeOK, AloneInv, NEW p \in Commands, LoadCatalog(p), cmd'[p].alone
  PROVE  /\ cmd[p].alone /\ cmd'[p].pc = "load"
         /\ KeysOf(ToSet(cmd'[p].records)) = ListedIn(Catalogs \ ToSet(cmd'[p].todo))
<1> DEFINE c == cmd[p]
           src == Head(c.todo)
           new == [i \in DOMAIN file[src] |-> Listed(file[src][i])]
           records == c.records \o new
           todo == Tail(c.todo)
<1>1. /\ c \in Cmd /\ c.pc = "load" /\ c.records \in Seq(Record) /\ src \in Catalogs
      /\ c.todo \in Seq(Catalogs) /\ c.todo # <<>> /\ IsInjective(c.todo)
  BY DEF CatalogsTypeOK, CommandTypes, LoadCatalog, Sensible, Cmd
<1>2. cmd'[p] = IF ~Loadable(src) THEN Idle ELSE [c EXCEPT !.todo = todo, !.records = records]
  BY DEF LoadCatalog, Become, CatalogsTypeOK, CommandTypes
<1>3. Loadable(src) /\ cmd'[p] = [c EXCEPT !.todo = todo, !.records = records]
  BY <1>2 DEF Idle
<1>4. cmd'[p].pc = "load" /\ cmd'[p].todo = todo /\ cmd'[p].records = records /\ c.alone
  <2> HIDE DEF c, todo, records
  <2>1. cmd'[p].pc = "load" /\ cmd'[p].todo = todo /\ cmd'[p].records = records /\
        cmd'[p].alone = c.alone
    BY <1>1, <1>3 DEF Cmd
  <2>2. QED
    BY <2>1
<1>5. KeysOf(ToSet(c.records)) = ListedIn(Catalogs \ ToSet(c.todo))
  BY <1>1, <1>4 DEF AloneInv, AloneOf
<1>6. new \in Seq(Record) /\ ToSet(new) = {Listed(s) : s \in ToSet(file[src])}
  <2>1. file[src] \in Seq(Servers)
    BY <1>1, <1>3 DEF Loadable, CatalogsTypeOK, FileTypes
  <2>2. QED
    BY <2>1, ListedSeq
<1>7. KeysOf(ToSet(new)) = ToSet(file[src]) \X {Discover}
  <2>1. \A s : Key(Listed(s)) = <<s, Discover>>
    BY DEF Key, Listed
  <2> HIDE DEF new, c, src
  <2>2. KeysOf(ToSet(new)) = {Key(Listed(s)) : s \in ToSet(file[src])}
    BY <1>6 DEF KeysOf
  <2>3. QED
    BY <2>1, <2>2
<1>8. ToSet(records) = ToSet(c.records) \cup ToSet(new)
  <2> HIDE DEF new, c
  <2>1. QED
    BY <1>1, <1>6, ConcatSet
<1>9. Catalogs \ ToSet(todo) = (Catalogs \ ToSet(c.todo)) \cup {src}
  BY <1>1, TailFacts
<1>10. ListedIn((Catalogs \ ToSet(c.todo)) \cup {src}) =
         ListedIn(Catalogs \ ToSet(c.todo)) \cup (ToSet(file[src]) \X {Discover})
  BY DEF ListedIn
<1>11. KeysOf(ToSet(records)) = ListedIn(Catalogs \ ToSet(todo))
  <2> HIDE DEF c, src, new, records, todo
  <2>1. KeysOf(ToSet(records)) = KeysOf(ToSet(c.records)) \cup KeysOf(ToSet(new))
    BY <1>8, KeysOfUnion
  <2>2. ListedIn(Catalogs \ ToSet(todo)) = ListedIn((Catalogs \ ToSet(c.todo)) \cup {src})
    BY <1>9
  <2>3. QED
    BY <1>5, <1>7, <1>10, <2>1, <2>2
<1>12. QED
  BY <1>4, <1>11

(* The last to be loaded completes what is known. *)
LEMMA LoadObservedAlone ==
  ASSUME CatalogsTypeOK, AloneInv, NEW p \in Commands, LoadObserved(p), cmd'[p].alone
  PROVE  cmd[p].alone /\ cmd'[p].pc = "clear" /\ KeysOf(ToSet(cmd'[p].records)) = Known
<1> DEFINE c == cmd[p]
           o == ObservedRecords
           listed == c.records \o o
           w == Placeholders(listed)
           all == listed \o w
<1>1. /\ c \in Cmd /\ c.pc = "load" /\ c.todo = <<>> /\ c.records \in Seq(Record) /\ o \in Seq(Record)
  BY ObservedSeq DEF CatalogsTypeOK, CommandTypes, Cmd, LoadObserved
<1>2. cmd'[p].records = all /\ cmd'[p].pc = "clear" /\ c.alone
  <2>1. c \in Cmd /\ cmd'[p] = [c EXCEPT !.pc = "clear", !.records = all]
    BY LoadObservedTypes DEF CatalogsTypeOK, CommandTypes
  <2> HIDE DEF all, c
  <2>2. cmd'[p].records = all /\ cmd'[p].pc = "clear" /\ cmd'[p].alone = c.alone
    BY <2>1 DEF Cmd
  <2>3. QED
    BY <2>2
<1>3. KeysOf(ToSet(c.records)) = ListedIn(Catalogs)
  <2>1. KeysOf(ToSet(c.records)) = ListedIn(Catalogs \ ToSet(<<>>))
    BY <1>1, <1>2 DEF AloneInv, AloneOf
  <2>2. Catalogs \ ToSet(<<>>) = Catalogs
    BY DEF ToSet
  <2>3. QED
    BY <2>1, <2>2
<1>4. listed \in Seq(Record) /\ ToSet(listed) = ToSet(c.records) \cup ToSet(o)
  BY <1>1, ConcatSet
<1>5. w \in Seq(Record) /\ KeysOf(ToSet(w)) = Suggested \ KeysOf(ToSet(listed))
  <2> HIDE DEF listed
  <2>1. QED
    BY <1>4, PlaceholdersSeq
<1>6. ToSet(all) = ToSet(listed) \cup ToSet(w)
  <2> HIDE DEF listed, w
  <2>1. QED
    BY <1>4, <1>5, ConcatSet
<1>7. KeysOf(ToSet(o)) = IF observed = None THEN {} ELSE KeysOf(observed)
  BY ObservedSeq DEF KeysOf
<1>8. KeysOf(ToSet(all)) = KeysOf(ToSet(listed)) \cup Suggested
  <2> HIDE DEF listed, w, all
  <2>1. QED
    BY <1>5, <1>6, KeysOfUnion
<1>9. KeysOf(ToSet(listed)) = ListedIn(Catalogs) \cup KeysOf(ToSet(o))
  <2> HIDE DEF listed, c, o
  <2>1. QED
    BY <1>3, <1>4, KeysOfUnion
<1>10. QED
  <2> HIDE DEF all, listed, o
  <2>1. QED
    BY <1>2, <1>7, <1>8, <1>9 DEF Known

(* An insertion moves a key from what is to come to the index. *)
LEMMA InsertAlone ==
  ASSUME CatalogsTypeOK, AloneInv, NEW p \in Commands, Insert(p), cmd'[p].alone, ~marred'
  PROVE  /\ cmd[p].alone /\ ~marred
         /\ KeysOf(rows') \cup KeysOf(ToSet(cmd'[p].records)) = Known
<1> DEFINE c == cmd[p]
           h == Head(c.records)
           new == [server |-> h.server, tool |-> h.tool, taken |-> h.taken]
<1>1. c \in Cmd /\ c.pc = "insert" /\ c.records \in Seq(Record) /\ c.records # <<>>
  BY DEF CatalogsTypeOK, CommandTypes, Cmd, Insert
<1>2. cmd'[p].records = Tail(c.records) /\ c.alone
  BY DEF Insert, Become, CatalogsTypeOK, CommandTypes, Cmd
<1>3. ~marred /\ rows' = {r \in rows : Key(r) # Key(h)} \cup {new}
  BY DEF Insert, InsertCapability, CatalogsTypeOK, IndexTypes
<1>4. KeysOf(rows) \cup KeysOf(ToSet(c.records)) = Known
  BY <1>1, <1>2, <1>3 DEF AloneInv, AloneOf
<1>5. KeysOf(ToSet(c.records)) = {Key(h)} \cup KeysOf(ToSet(Tail(c.records)))
  <2>1. ToSet(c.records) = {h} \cup ToSet(Tail(c.records))
    BY <1>1, ConsFacts
  <2>2. KeysOf({h}) = {Key(h)}
    BY DEF KeysOf
  <2> HIDE DEF c, h
  <2>3. QED
    BY <2>1, <2>2, KeysOfUnion
<1>6. KeysOf(rows') = KeysOf(rows) \cup {Key(h)}
  <2>1. Key(new) = Key(h)
    BY DEF Key
  <2> HIDE DEF new, h
  <2>2. QED
    BY <1>3, <2>1 DEF KeysOf
<1>7. KeysOf(rows') \cup KeysOf(ToSet(Tail(c.records))) = Known
  <2> HIDE DEF c, h
  <2>1. QED
    BY <1>4, <1>5, <1>6
<1>8. QED
  BY <1>2, <1>3, <1>7

(* A refresh that begins owes everything. *)
LEMMA LoadingAlone ==
  ASSUME CatalogsTypeOK, NEW p \in Commands, cmd'[p] = Loading(Alone(p)),
         \A q \in Commands \ {p} : cmd'[q].pc = cmd[q].pc
  PROVE  AloneOf(p)'
<1>1. /\ cmd'[p].pc = "load" /\ cmd'[p].todo = Sources /\ cmd'[p].records = <<>> /\
         cmd'[p].alone = Alone(p)
  BY DEF Loading, Idle
<1>2. ToSet(<<>>) = {} /\ KeysOf({}) = {}
  BY DEF ToSet, KeysOf
<1>3. ToSet(Sources) = Catalogs
  BY DEF ToSet, Catalogs
<1>4. (ListedIn({}))' = {}
  BY DEF ListedIn
<1>5. Catalogs \ ToSet(Sources) = {}
  BY <1>3
<1>6. /\ KeysOf(ToSet(cmd'[p].records)) = {}
      /\ (ListedIn(Catalogs \ ToSet(cmd[p].todo)))' = {}
  <2>1. Catalogs \ ToSet(cmd'[p].todo) = {}
    BY <1>1, <1>5
  <2>2. QED
    BY <1>1, <1>2, <2>1 DEF ListedIn
<1>7. Alone(p) => Alone(p)'
  BY DEF Alone
<1>8. QED
  <2>1. KeysOf(ToSet(cmd[p].records))' = {}
    BY <1>6 DEF KeysOf, Key
  <2>2. QED
    BY <1>1, <1>6, <1>7, <2>1 DEF AloneOf

(* A command that begins ends the solitude of the others. *)
LEMMA StartAlone ==
  ASSUME CatalogsTypeOK, PlacesInv, NEW p \in Commands,
         StartSync(p) \/ StartInspect(p) \/ StartRefresh(p)
  PROVE  AloneInv'
<1>1. PICK c : Start(p, c) /\ (c = Loading(Alone(p)) \/ ~c.alone)
  <2>1. PICK c : Start(p, c) /\ (StartRefresh(p) => c = Loading(Alone(p)))
    BY DEF StartSync, StartInspect, StartRefresh, Start
  <2>2. QED
    BY <2>1, Places DEF Start
<1>2. /\ cmd'[p] = c
      /\ \A q \in Commands \ {p} : cmd'[q].pc = cmd[q].pc /\ ~cmd'[q].alone
  <2>1. \A q \in Commands \ {p} : cmd'[q] = [cmd[q] EXCEPT !.alone = FALSE] /\ cmd[q] \in Cmd
    BY <1>1 DEF Start, CatalogsTypeOK, CommandTypes
  <2>2. \A d \in Cmd : [d EXCEPT !.alone = FALSE].pc = d.pc /\ ~[d EXCEPT !.alone = FALSE].alone
    BY DEF Cmd
  <2>3. QED
    BY <1>1, <2>1, <2>2 DEF Start
<1>3. \A q \in Commands \ {p} : AloneOf(q)'
  BY <1>2 DEF AloneOf
<1>4. AloneOf(p)'
  <2>1. CASE c = Loading(Alone(p))
    BY <1>2, <2>1, LoadingAlone
  <2>2. CASE ~c.alone
    BY <1>2, <2>2 DEF AloneOf
  <2>3. QED
    BY <1>1, <2>1, <2>2
<1>5. QED
  BY <1>3, <1>4 DEF AloneInv

(* A step of another command is not taken while one is alone. *)
LEMMA StepAlone ==
  ASSUME CatalogsTypeOK, PlacesInv, AloneInv, NEW p \in Commands, Step(p) \/ Stop(p)
  PROVE  AloneInv'
<1> DEFINE c == cmd[p]
<1>0. c \in Cmd /\ c.pc # "idle" /\ c.alone \in BOOLEAN
  BY DEF CatalogsTypeOK, CommandTypes, Cmd, Step, Stop, FetchPage, ReplaceCatalog, Inspect, Merge,
     ReplaceObserved, LoadCatalog, LoadObserved, Clear, Insert, Finish
<1>1. \A q \in Commands \ {p} : cmd'[q] = cmd[q]
  <2>1. \E d : Become(p, d)
    BY DEF Step, Stop, FetchPage, ReplaceCatalog, Inspect, Merge, ReplaceObserved, LoadCatalog,
       LoadObserved, Clear, Insert, Finish
  <2>2. QED
    BY <2>1 DEF Become, CatalogsTypeOK, CommandTypes
<1>2. \A q \in Commands \ {p} : ~cmd[q].alone
  BY <1>0 DEF AloneInv, AloneOf, Alone
<1>3. \A q \in Commands \ {p} : AloneOf(q)'
  BY <1>1, <1>2 DEF AloneOf
<1>4. Alone(p) => Alone(p)'
  BY <1>1 DEF Alone
<1>5. c.alone => Alone(p) /\ c.pc \in {"load", "clear", "insert"}
  BY DEF AloneInv, AloneOf
<1>6. AloneOf(p)'
  <2>1. ASSUME ~cmd'[p].alone PROVE AloneOf(p)'
    BY <2>1 DEF AloneOf
  <2>2. ASSUME cmd'[p] = Loading(Alone(p)) PROVE AloneOf(p)'
    BY <1>1, <2>2, LoadingAlone
  <2>3. ~Idle.alone
    BY DEF Idle
  <2>4. CASE FetchPage(p)
    <3>1. c.pc = "page" /\ (cmd'[p] = Idle \/ cmd'[p].alone = c.alone)
      BY <2>4, FetchForm
    <3>2. QED
      BY <1>5, <2>1, <2>3, <3>1
  <2>5. CASE ReplaceCatalog(p)
    <3>1. /\ c.pc = "replace"
          /\ cmd'[p] \in {Loading(Alone(p)), Syncing(c, Tail(c.todo))}
      BY <2>5 DEF ReplaceCatalog, Become, CatalogsTypeOK, CommandTypes
    <3>2. Syncing(c, Tail(c.todo)).alone = c.alone
      BY <1>0, SyncingForm
    <3>3. QED
      BY <1>5, <2>1, <2>2, <3>1, <3>2
  <2>6. CASE Inspect(p) \/ Merge(p)
    <3>1. c.pc \in {"inspect", "merge"} /\ cmd'[p].alone = c.alone
      BY <2>6, Places DEF Inspect, Merge
    <3>2. QED
      BY <1>5, <2>1, <3>1
  <2>7. CASE ReplaceObserved(p)
    BY <2>2, <2>7 DEF ReplaceObserved, Become, CatalogsTypeOK, CommandTypes
  <2>8. CASE LoadCatalog(p)
    <3> SUFFICES ASSUME cmd'[p].alone PROVE AloneOf(p)'
      BY <2>1
    <3>1. /\ c.alone /\ cmd'[p].pc = "load"
          /\ KeysOf(ToSet(cmd'[p].records)) = ListedIn(Catalogs \ ToSet(cmd'[p].todo))
      BY <2>8, LoadCatalogAlone
    <3>2. UNCHANGED file
      BY <2>8 DEF LoadCatalog, files
    <3>3. QED
      BY <1>4, <1>5, <3>1, <3>2 DEF AloneOf, ListedIn, KeysOf, Key
  <2>9. CASE LoadObserved(p)
    <3> SUFFICES ASSUME cmd'[p].alone PROVE AloneOf(p)'
      BY <2>1
    <3>1. c.alone /\ cmd'[p].pc = "clear" /\ KeysOf(ToSet(cmd'[p].records)) = Known
      BY <2>9, LoadObservedAlone
    <3>2. UNCHANGED <<file, observed>>
      BY <2>9 DEF LoadObserved, files
    <3>3. QED
      BY <1>4, <1>5, <3>1, <3>2 DEF AloneOf, ListedIn, KeysOf, Key, Known
  <2>10. CASE Clear(p)
    <3> SUFFICES ASSUME cmd'[p].alone PROVE AloneOf(p)'
      BY <2>1
    <3>1. c.pc = "clear" /\ cmd'[p] = [c EXCEPT !.pc = "insert"] /\ rows' = {} /\
          UNCHANGED <<file, observed>>
      BY <2>10 DEF Clear, Become, CatalogsTypeOK, CommandTypes, files
    <3>2. cmd'[p].pc = "insert" /\ cmd'[p].records = c.records /\ c.alone
      BY <1>0, <3>1 DEF Cmd
    <3>3. KeysOf(ToSet(c.records)) = Known
      BY <3>1, <3>2 DEF AloneInv, AloneOf
    <3>4. KeysOf(rows') = {}
      BY <3>1 DEF KeysOf
    <3>5. KeysOf(rows') \cup KeysOf(ToSet(cmd'[p].records)) = Known
      BY <3>2, <3>3, <3>4
    <3>6. QED
      BY <1>4, <1>5, <3>1, <3>2, <3>5 DEF AloneOf, ListedIn, KeysOf, Key, Known
  <2>11. CASE Insert(p)
    <3> SUFFICES ASSUME cmd'[p].alone PROVE AloneOf(p)'
      BY <2>1
    <3>1. /\ cmd'[p].pc = "insert" /\ cmd'[p].alone = c.alone /\ UNCHANGED <<file, observed>>
      BY <1>0, <2>11 DEF Insert, Become, CatalogsTypeOK, CommandTypes, Cmd, files
    <3>2. ~marred' => KeysOf(rows') \cup KeysOf(ToSet(cmd'[p].records)) = Known
      BY <2>11, InsertAlone
    <3>3. QED
      BY <1>4, <1>5, <3>1, <3>2 DEF AloneOf, ListedIn, KeysOf, Key, Known
  <2>12. CASE Finish(p) \/ Stop(p)
    BY <2>1, <2>3, <2>12 DEF Finish, Stop, Become, CatalogsTypeOK, CommandTypes
  <2>13. QED
    BY <2>4, <2>5, <2>6, <2>7, <2>8, <2>9, <2>10, <2>11, <2>12 DEF Step
<1>7. QED
  BY <1>3, <1>6 DEF AloneInv

(* Every step keeps what is said of a refresh that is alone. *)
LEMMA AloneHolds ==
  ASSUME CatalogsTypeOK, PlacesInv, AloneInv, [CatalogsNext]_catalogsVars
  PROVE  AloneInv'
<1>1. ASSUME UNCHANGED <<file, observed, rows, marred>>,
             \A q \in Commands : /\ cmd'[q].pc = cmd[q].pc /\ cmd'[q].todo = cmd[q].todo
                                 /\ cmd'[q].records = cmd[q].records /\ cmd'[q].alone = cmd[q].alone
      PROVE  AloneInv'
  BY <1>1 DEF AloneInv, AloneOf, Alone, ListedIn, KeysOf, Key, Known
<1>2. ASSUME NEW p \in Commands, Moves(p) PROVE AloneInv'
  BY <1>2, StartAlone, StepAlone DEF Moves
<1>3. ASSUME NEW src \in Faithful, NEW s \in Servers, Registry(src, s) PROVE AloneInv'
  BY <1>1, <1>3, RegistryFrame
<1>4. ASSUME UNCHANGED <<file, observed, rows, marred, cmd>> PROVE AloneInv'
  BY <1>1, <1>4
<1>5. ASSUME NEW s \in Inspected, ServerChanges(s) PROVE AloneInv'
  BY <1>4, <1>5, ServerFrame DEF index, files
<1>6. CASE Tick \/ UNCHANGED catalogsVars
  BY <1>4, <1>6 DEF Tick, catalogsVars, index, files
<1>7. QED
  BY <1>2, <1>3, <1>5, <1>6 DEF CatalogsNext, Environment, Moves, Registry

-----------------------------------------------------------------------------
(* What it says. *)
LEMMA RunsHold ==
  ASSUME runs \in Nat, [CatalogsNext]_catalogsVars
  PROVE  runs' \in Nat
<1>1. ASSUME NEW p \in Commands, StartSync(p) \/ StartInspect(p) \/ StartRefresh(p)
      PROVE runs' = runs + 1
  BY <1>1 DEF StartSync, StartInspect, StartRefresh, Start
<1>2. ASSUME NEW p \in Commands, Step(p) \/ Stop(p) PROVE runs' = runs
  BY <1>2 DEF Step, Stop, FetchPage, ReplaceCatalog, Inspect, Merge, ReplaceObserved, LoadCatalog,
     LoadObserved, Clear, Insert, Finish
<1>3. ASSUME Environment \/ UNCHANGED catalogsVars PROVE runs' = runs
  BY <1>3 DEF Environment, Tick, Publish, Withdraw, ServerChanges, catalogsVars
<1>4. QED
  BY <1>1, <1>2, <1>3 DEF CatalogsNext

(* The whole of it, for any number of commands, catalogs and servers: the  *)
(* types of files, index and commands (internal/catalogs), and what each   *)
(* phase of sync, inspect and refresh may rely on.                         *)
THEOREM CatalogsInvariantHolds == CatalogsSpec => []CatalogsInv
<1>1. CatalogsInit => CatalogsInv
  BY InitHolds
<1>2. CatalogsInv /\ [CatalogsNext]_catalogsVars => CatalogsInv'
  <2> SUFFICES ASSUME CatalogsInv, [CatalogsNext]_catalogsVars PROVE CatalogsInv'
    OBVIOUS
  <2>1. CatalogsTypeOK /\ PlacesInv /\ ListingInv /\ InspectionInv /\ LoadInv /\ StampInv /\
        AloneInv /\ runs \in Nat
    BY DEF CatalogsInv
  <2>2. CatalogsTypeOK' /\ PlacesInv' /\ ListingInv' /\ InspectionInv'
    BY <2>1, TypesHold, ListingHolds, InspectionHolds
  <2>3. LoadInv' /\ StampInv' /\ AloneInv' /\ runs' \in Nat
    BY <2>1, LoadHolds, StampHolds, AloneHolds, RunsHold
  <2>4. QED
    BY <2>2, <2>3 DEF CatalogsInv
<1>3. QED
  BY <1>1, <1>2, PTL DEF CatalogsSpec

(* Inspect and MergeEntries: however inspections overlap, observed.json    *)
(* has of each server what it offered at one moment, or nothing.           *)
THEOREM ObservedIsWhole == CatalogsSpec => []ObservedWhole
<1>1. CatalogsInv => ObservedWhole
  BY DEF CatalogsInv, InspectionInv, Snapshot, Whole, ObservedWhole
<1>2. QED
  BY <1>1, CatalogsInvariantHolds, PTL

(* Refresh: whatever inspection, sync or insertion came since, a row whose *)
(* inspection is older than its TTL belongs to a view that has expired.    *)
THEOREM ExpiredStaysStale == CatalogsSpec => []ExpiredIsStale
<1>1. CatalogsInv => ExpiredIsStale
  <2> SUFFICES ASSUME CatalogsInv, ~marred, NEW r \in rows, r.taken # None, now > r.taken + TTL,
                      Unsuggested(r.server)
               PROVE  Stale(r.server)
    BY DEF ExpiredIsStale, Unsuggested
  <2>1. expires[r.server] = r.taken + TTL
    BY DEF CatalogsInv, StampInv
  <2>2. r.taken \in Nat /\ TTL \in Nat
    BY Constants DEF CatalogsInv, CatalogsTypeOK, IndexTypes, Row
  <2>3. QED
    BY <2>1, <2>2 DEF Stale
<1>2. QED
  BY <1>1, CatalogsInvariantHolds, PTL

(* Client.Sync replaces a catalog file only by a listing that has every    *)
(* trusted server that was listed all the while, none twice and none that  *)
(* never was.                                                              *)
THEOREM SnapshotsAreWhole == CatalogsSpec => SnapshotWhole
<1>1. CatalogsInv /\ [CatalogsNext]_catalogsVars =>
        [\A src \in Catalogs : file'[src] # file[src] =>
          /\ IsInjective(file'[src]) /\ ToSet(file'[src]) \subseteq Trusted(src)
          /\ src \in Faithful => \E p \in Commands :
               /\ SyncsNow(cmd[p], src)
               /\ cmd[p].steady \subseteq ToSet(file'[src]) /\
                  ToSet(file'[src]) \subseteq cmd[p].ever]_catalogsVars
  <2> SUFFICES ASSUME CatalogsInv, CatalogsNext, NEW src \in Catalogs, file'[src] # file[src]
               PROVE  /\ IsInjective(file'[src]) /\ ToSet(file'[src]) \subseteq Trusted(src)
                      /\ src \in Faithful => \E p \in Commands :
                           /\ SyncsNow(cmd[p], src)
                           /\ cmd[p].steady \subseteq ToSet(file'[src])
                           /\ ToSet(file'[src]) \subseteq cmd[p].ever
    OBVIOUS
  <2>1. PICK p \in Commands : ReplaceCatalog(p)
    BY DEF CatalogsNext, StartSync, StartInspect, StartRefresh, Start, Step, FetchPage, Inspect,
       Merge, ReplaceObserved, LoadCatalog, LoadObserved, Clear, Insert, Finish, Stop,
       Environment, Tick, Publish, Withdraw, ServerChanges, files
  <2>2. cmd[p].pc = "replace" /\ file' = [file EXCEPT ![Head(cmd[p].todo)] = cmd[p].found]
    BY <2>1 DEF ReplaceCatalog
  <2>3. src = Head(cmd[p].todo) /\ file'[src] = cmd[p].found
    BY <2>2 DEF CatalogsInv, CatalogsTypeOK, FileTypes
  <2>4. ListingOf(cmd[p])
    BY DEF CatalogsInv, ListingInv
  <2>5. QED
    BY <2>2, <2>3, <2>4 DEF ListingOf, HasSoFar, SyncsNow
<1>2. QED
  BY <1>1, CatalogsInvariantHolds, PTL DEF CatalogsSpec, SnapshotWhole

(* Refresh: one that ran alone leaves in the index exactly the keys of the *)
(* catalog files, of observed.json and of the suggestions.                 *)
THEOREM IndexIsOfFiles == CatalogsSpec => IndexOfFiles
<1>1. CatalogsInv /\ [CatalogsNext]_catalogsVars =>
        [\A p \in Commands : Finish(p) /\ cmd[p].alone /\ ~marred => KeysOf(rows) = Known]_catalogsVars
  <2> SUFFICES ASSUME CatalogsInv, NEW p \in Commands, Finish(p), cmd[p].alone, ~marred
               PROVE  KeysOf(rows) = Known
    OBVIOUS
  <2>1. cmd[p].pc = "insert" /\ cmd[p].records = <<>>
    BY DEF Finish
  <2>2. KeysOf(rows) \cup KeysOf(ToSet(<<>>)) = Known
    BY <2>1 DEF CatalogsInv, AloneInv, AloneOf
  <2>3. KeysOf(ToSet(<<>>)) = {}
    BY DEF KeysOf, ToSet
  <2>4. QED
    BY <2>2, <2>3
<1>2. QED
  BY <1>1, CatalogsInvariantHolds, PTL DEF CatalogsSpec, IndexOfFiles

(* There is less to do without the first. *)
LEMMA ShorterTail ==
  ASSUME NEW S, NEW f \in Seq(S), f # <<>>
  PROVE  Len(Tail(f)) < Len(f) /\ Len(Tail(f)) \in Nat
OBVIOUS

(* Every step takes a command to a later phase, or leaves less to do in    *)
(* the one it is in.                                                       *)
LEMMA StepNearer ==
  ASSUME CatalogsInv, NEW p \in Commands, Step(p) \/ Stop(p)
  PROVE  Nearer(cmd'[p], cmd[p])
<1> DEFINE c == cmd[p]
           d == cmd'[p]
<1>0. CatalogsTypeOK /\ PlacesInv /\ ListingOf(c) /\ c \in Cmd /\ Sensible(c) /\
      c.records \in Seq(Record)
  BY DEF CatalogsInv, ListingInv, CatalogsTypeOK, CommandTypes, Cmd
<1>1. Phase(Idle) = 0 /\ Phase(Loading(Alone(p))) = 3
  BY DEF Phase, Idle, Loading
<1>2. CASE FetchPage(p)
  <2>1. /\ c.pc = "page"
        /\ \/ d = Idle
           \/ /\ d.todo = c.todo
              /\ \/ d.pc = "page" /\ d.pages = c.pages + 1 /\ c.pages + 1 < MaxPages
                 \/ d.pc = "replace" /\ d.pages = c.pages
    BY <1>0, <1>2, FetchForm DEF Follows
  <2>2. c.pages < MaxPages /\ c.pages \in Nat /\ MaxPages \in Nat
    BY <1>0, <2>1, Constants DEF ListingOf, Cmd
  <2>3. Phase(c) = 6 /\ Left(c) = MaxPages - c.pages
    BY <2>1 DEF Phase, Left
  <2>4. CASE d = Idle
    BY <1>1, <2>3, <2>4 DEF Nearer
  <2>5. CASE d # Idle
    <3>1. Phase(d) = 6 /\ Left(d) = (IF d.pc = "page" THEN MaxPages - (c.pages + 1) ELSE 0)
      BY <2>1, <2>5 DEF Phase, Left
    <3>2. Len(d.todo) = Len(c.todo)
      BY <2>1, <2>5
    <3>3. Left(d) < Left(c) /\ Left(d) \in Nat
      BY <2>1, <2>2, <2>3, <2>5, <3>1
    <3>4. QED
      BY <2>3, <3>1, <3>2, <3>3 DEF Nearer
  <2>6. QED
    BY <2>4, <2>5
<1>3. CASE ReplaceCatalog(p)
  <2> DEFINE todo == Tail(c.todo)
  <2>1. c.pc = "replace" /\ d \in {Loading(Alone(p)), Syncing(c, todo)}
    BY <1>3 DEF ReplaceCatalog, Become, CatalogsTypeOK, CommandTypes, CatalogsInv
  <2>2. Len(todo) < Len(c.todo) /\ Phase(c) = 6
    BY <1>0, <2>1, ShorterTail DEF Sensible, Phase
  <2>3. Syncing(c, todo).pc = "page" /\ Syncing(c, todo).todo = todo
    BY <1>0, SyncingForm
  <2>4. Phase(Syncing(c, todo)) = 6
    BY <2>3 DEF Phase
  <2> HIDE DEF c, d, todo
  <2>5. Nearer(d, c)
    BY <1>1, <2>1, <2>2, <2>3, <2>4 DEF Nearer
  <2>6. QED
    BY <2>5 DEF c, d
<1>4. CASE Inspect(p)
  <2> DEFINE seen == c.seen \cup {<<Head(c.todo), t>> : t \in offers[Head(c.todo)]}
             todo == Tail(c.todo)
             pl == IF Len(c.todo) = 1 THEN "merge" ELSE "inspect"
  <2>1. /\ c.pc = "inspect" /\ d = [c EXCEPT !.seen = seen, !.todo = todo, !.pc = pl]
        /\ pl \in {"merge", "inspect"}
    BY <1>4 DEF Inspect, Become, CatalogsTypeOK, CommandTypes, CatalogsInv
  <2>2. Len(todo) < Len(c.todo) /\ Phase(c) = 6
    BY <1>0, <2>1, ShorterTail DEF Sensible, Phase
  <2> HIDE DEF c, d, seen, todo, pl
  <2>3. d.pc = pl /\ d.todo = todo
    BY <1>0, <2>1 DEF Cmd
  <2>4. Phase(d) \in {5, 6}
    BY <2>1, <2>3 DEF Phase
  <2>5. Nearer(d, c)
    BY <2>2, <2>3, <2>4 DEF Nearer
  <2>6. QED
    BY <2>5 DEF c, d
<1>5. CASE Merge(p)
  <2>1. c.pc = "merge" /\ d.pc = "store"
    BY <1>0, <1>5, Places DEF Merge
  <2>2. Phase(c) = 5 /\ Phase(d) = 4
    BY <2>1 DEF Phase
  <2>3. QED
    BY <2>2 DEF Nearer
<1>6. CASE ReplaceObserved(p)
  <2>1. c.pc = "store" /\ d = Loading(Alone(p))
    BY <1>6 DEF ReplaceObserved, Become, CatalogsTypeOK, CommandTypes, CatalogsInv
  <2>2. Phase(c) = 4
    BY <2>1 DEF Phase
  <2>3. QED
    BY <1>1, <2>1, <2>2 DEF Nearer
<1>7. CASE LoadCatalog(p)
  <2> DEFINE records ==
                    c.records \o [i \in DOMAIN file[Head(c.todo)] |-> Listed(file[Head(c.todo)][i])]
             todo == Tail(c.todo)
  <2>1. /\ c.pc = "load" /\ c.todo # <<>>
        /\ d \in {Idle, [c EXCEPT !.todo = todo, !.records = records]}
    BY <1>7 DEF LoadCatalog, Become, CatalogsTypeOK, CommandTypes, CatalogsInv
  <2>2. Len(todo) < Len(c.todo) /\ Phase(c) = 3
    BY <1>0, <2>1, ShorterTail DEF Sensible, Phase
  <2> HIDE DEF c, d, records, todo
  <2>3. ASSUME d = Idle PROVE Nearer(d, c)
    BY <1>1, <2>2, <2>3 DEF Nearer
  <2>4. ASSUME d = [c EXCEPT !.todo = todo, !.records = records] PROVE Nearer(d, c)
    <3>1. d.pc = "load" /\ d.todo = todo
      BY <1>0, <2>1, <2>4 DEF Cmd
    <3>2. Phase(d) = 3
      BY <3>1 DEF Phase
    <3>3. QED
      BY <2>2, <3>1, <3>2 DEF Nearer
  <2>5. QED
    BY <2>1, <2>3, <2>4 DEF c, d
<1>8. CASE LoadObserved(p)
  <2>1. c.pc = "load" /\ d.pc = "clear"
    BY <1>0, <1>8, Places DEF LoadObserved
  <2>2. Phase(c) = 3 /\ Phase(d) = 2
    BY <2>1 DEF Phase
  <2>3. QED
    BY <2>2 DEF Nearer
<1>9. CASE Clear(p)
  <2>1. c.pc = "clear" /\ d.pc = "insert"
    BY <1>0, <1>9, Places DEF Clear
  <2>2. Phase(c) = 2 /\ Phase(d) = 1
    BY <2>1 DEF Phase
  <2>3. QED
    BY <2>2 DEF Nearer
<1>10. CASE Insert(p)
  <2>1. c.pc = "insert" /\ c.records # <<>> /\ d = [c EXCEPT !.records = Tail(@)]
    BY <1>10 DEF Insert, Become, CatalogsTypeOK, CommandTypes, CatalogsInv
  <2>2. d.pc = "insert" /\ d.todo = c.todo /\ d.records = Tail(c.records)
    BY <1>0, <2>1 DEF Cmd
  <2>3. Len(Tail(c.records)) < Len(c.records) /\ Len(Tail(c.records)) \in Nat
    BY <1>0, <2>1, ShorterTail
  <2>4. Phase(c) = 1 /\ Phase(d) = 1
    BY <2>1, <2>2 DEF Phase
  <2>5. Left(c) = Len(c.records) /\ Left(d) = Len(Tail(c.records))
    BY <2>1, <2>2 DEF Left
  <2> HIDE DEF c, d
  <2>6. Nearer(d, c)
    BY <2>2, <2>3, <2>4, <2>5 DEF Nearer
  <2>7. QED
    BY <2>6 DEF c, d
<1>11. CASE Finish(p) \/ Stop(p)
  <2>1. c.pc # "idle" /\ d = Idle
    BY <1>11 DEF Finish, Stop, Become, CatalogsTypeOK, CommandTypes, CatalogsInv
  <2>2. c.pc \in {"page", "replace", "inspect", "merge", "store", "load", "clear", "insert"}
    BY <1>0, <2>1 DEF Cmd
  <2>3. Phase(c) > 0
    BY <2>2 DEF Phase
  <2>4. QED
    BY <1>1, <2>1, <2>3 DEF Nearer
<1>12. QED
  BY <1>2, <1>3, <1>4, <1>5, <1>6, <1>7, <1>8, <1>9, <1>10, <1>11 DEF Step

(* Client.Sync's page limit, and the loops of Inspect and Refresh: every   *)
(* step of a command, whatever a registry answers, brings it nearer to its *)
(* end.                                                                    *)
THEOREM CommandsComeToAnEnd == CatalogsSpec => CommandsEnd
<1>1. CatalogsInv /\ [CatalogsNext]_catalogsVars =>
        [\A p \in Commands :
           cmd'[p] # cmd[p] /\ runs' = runs /\ changes' = changes =>
           Nearer(cmd'[p], cmd[p])]_catalogsVars
  <2> SUFFICES ASSUME CatalogsInv, CatalogsNext, NEW q \in Commands, cmd'[q] # cmd[q],
      runs' = runs, changes' = changes
               PROVE  Nearer(cmd'[q], cmd[q])
    OBVIOUS
  <2>1. CatalogsTypeOK /\ PlacesInv /\ runs \in Nat /\ changes \in Nat
    BY DEF CatalogsInv, CatalogsTypeOK, WorldTypes
  <2>2. \A p \in Commands : \A c : ~Start(p, c)
    BY <2>1 DEF Start
  <2>3. \A src \in Faithful, s \in Servers : ~Registry(src, s)
    BY <2>1 DEF Registry, Publish, Withdraw
  <2>4. \A s \in Inspected : ~ServerChanges(s)
    BY <2>1 DEF ServerChanges
  <2>5. ~Tick
    BY DEF Tick
  <2>6. PICK p \in Commands : Step(p) \/ Stop(p)
    BY <2>2, <2>3, <2>4, <2>5 DEF CatalogsNext, Environment, Registry, StartSync, StartInspect,
       StartRefresh
  <2>7. \E d : Become(p, d)
    BY <2>6 DEF Step, Stop, FetchPage, ReplaceCatalog, Inspect, Merge, ReplaceObserved, LoadCatalog,
       LoadObserved, Clear, Insert, Finish
  <2>8. q = p
    BY <2>1, <2>7 DEF Become, CatalogsTypeOK, CommandTypes
  <2>9. QED
    BY <2>6, <2>8, StepNearer
<1>2. QED
  BY <1>1, CatalogsInvariantHolds, PTL DEF CatalogsSpec, CommandsEnd
=============================================================================
