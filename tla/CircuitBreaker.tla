--------------------------- MODULE CircuitBreaker ---------------------------
(***************************************************************************)
(* runtime/circuitbreaker.go: the built-in in-memory circuit breaker and   *)
(* the goroutines that call Execute on it.  allow and record each run      *)
(* under b.mu and are one step; the guarded function runs between them     *)
(* without the lock, so calls admitted in one state of the breaker may be  *)
(* recorded in another ("stragglers").  A panic of the function unwinds    *)
(* Execute before record: nothing is deferred.                             *)
(***************************************************************************)
EXTENDS Integers, FiniteSets

CONSTANTS
  Callers,               \* goroutines that call Execute
  SpecFailureThreshold,  \* CircuitBreakerSpec, as given: zero or less
  SpecResetTimeout,      \*   selects the default
  SpecHalfOpenMax

ASSUME CallersAssumption == IsFiniteSet(Callers)
ASSUME SpecAssumption ==
  /\ SpecFailureThreshold \in Int
  /\ SpecResetTimeout \in Int
  /\ SpecHalfOpenMax \in Int

\* newCircuitBreaker's defaults; a tick of the clock is a second.
FailureThreshold == IF SpecFailureThreshold <= 0 THEN 5 ELSE SpecFailureThreshold
ResetTimeout == IF SpecResetTimeout <= 0 THEN 30 ELSE SpecResetTimeout
HalfOpenMax == IF SpecHalfOpenMax <= 0 THEN 1 ELSE SpecHalfOpenMax

VARIABLES
  state,         \* "closed", "open" or "halfOpen"
  failures,
  age,           \* now() - openedAt, saturating at ResetTimeout
  halfOpenReqs,
  call           \* call[c]: "idle", "fn" (inside the guarded function), or
                 \*   "ErrCircuitOpen" (the last Execute was rejected)

\* History, read by the properties only.
VARIABLES
  streak,        \* outcomes recorded since the last success, all failures
                 \*   (saturating at FailureThreshold)
  tripAge,       \* time since the breaker last left another state for "open"
                 \*   (saturating at ResetTimeout)
  probes,        \* callers admitted in this half-open episode, still in fn
  lost           \* admitted in this half-open episode, ended by a panic

breaker == <<state, failures, age, halfOpenReqs>>
history == <<streak, tripAge, probes, lost>>
vars == <<breaker, call, history>>

MinOf(a, b) == IF a < b THEN a ELSE b

\* The struct newCircuitBreaker returns; openedAt is the zero time, long ago.
Init ==
  /\ state = "closed"
  /\ failures = 0
  /\ age = ResetTimeout
  /\ halfOpenReqs = 0
  /\ call = [c \in Callers |-> "idle"]
  /\ streak = 0
  /\ tripAge = ResetTimeout
  /\ probes = {}
  /\ lost = 0

-----------------------------------------------------------------------------
(* Plausible bugs, one per property (the manifest's mutants).              *)

TripKeepsOpenedAt ==
  /\ state' = "open"
  /\ age' = age
  /\ failures' = 0
  /\ halfOpenReqs' = 0

ProbeSlotOffByOne == halfOpenReqs <= HalfOpenMax

HalfOpenFailureCounts ==
  /\ failures' = failures + 1
  /\ UNCHANGED <<state, age, halfOpenReqs>>

SuccessKeepsFailures(c) ==
  /\ state' = IF state = "halfOpen" THEN "closed" ELSE state
  /\ halfOpenReqs' = IF state = "halfOpen" THEN 0 ELSE halfOpenReqs
  /\ failures' = IF state = "halfOpen" THEN 0 ELSE failures
  /\ UNCHANGED age

RejectRestartsWindow(c) ==
  /\ state = "open" /\ age < ResetTimeout
  /\ call' = [call EXCEPT ![c] = "ErrCircuitOpen"]
  /\ age' = 0
  /\ UNCHANGED <<state, failures, halfOpenReqs, probes>>
-----------------------------------------------------------------------------
(* allow                                                                   *)

WindowElapsed == age >= ResetTimeout

ProbeSlotFree == halfOpenReqs < HalfOpenMax

\* Closed: every call goes through.
AllowClosed(c) ==
  /\ state = "closed"
  /\ call' = [call EXCEPT ![c] = "fn"]
  /\ UNCHANGED <<breaker, probes>>

\* The reset window has elapsed: the breaker turns half-open for this probe.
AllowFirstProbe(c) ==
  /\ state = "open"
  /\ WindowElapsed
  /\ state' = "halfOpen"
  /\ halfOpenReqs' = 1
  /\ call' = [call EXCEPT ![c] = "fn"]
  /\ probes' = {c}
  /\ UNCHANGED <<failures, age>>

AllowProbe(c) ==
  /\ state = "halfOpen"
  /\ ProbeSlotFree
  /\ halfOpenReqs' = halfOpenReqs + 1
  /\ call' = [call EXCEPT ![c] = "fn"]
  /\ probes' = probes \cup {c}
  /\ UNCHANGED <<state, failures, age>>

Reject(c) ==
  /\ \/ state = "open" /\ ~WindowElapsed
     \/ state = "halfOpen" /\ ~ProbeSlotFree
  /\ call' = [call EXCEPT ![c] = "ErrCircuitOpen"]
  /\ UNCHANGED <<breaker, probes>>

Allow(c) ==
  /\ call[c] # "fn"
  /\ AllowClosed(c) \/ AllowFirstProbe(c) \/ AllowProbe(c) \/ Reject(c)
  /\ UNCHANGED <<streak, tripAge, lost>>

-----------------------------------------------------------------------------
(* record                                                                  *)

Trip ==
  /\ state' = "open"
  /\ age' = 0
  /\ failures' = 0
  /\ halfOpenReqs' = 0

ThresholdReached == failures + 1 >= FailureThreshold

HalfOpenFailure == Trip

\* Also taken while open, by a call admitted before the breaker tripped.
CountFailure ==
  IF ThresholdReached
  THEN Trip
  ELSE failures' = failures + 1 /\ UNCHANGED <<state, age, halfOpenReqs>>

RecordFailure(c) ==
  IF state = "halfOpen" THEN HalfOpenFailure ELSE CountFailure

RecordSuccess(c) ==
  /\ state' = IF state = "halfOpen" THEN "closed" ELSE state
  /\ halfOpenReqs' = IF state = "halfOpen" THEN 0 ELSE halfOpenReqs
  /\ failures' = 0
  /\ UNCHANGED age

\* A half-open episode and its probes end with the state.
EndEpisode(c) ==
  IF state' = "halfOpen"
  THEN probes' = probes \ {c} /\ lost' = lost
  ELSE probes' = {} /\ lost' = 0

\* fn returned an error (failed) or nil, and Execute records it.
Record(c, failed) ==
  /\ call[c] = "fn"
  /\ IF failed THEN RecordFailure(c) ELSE RecordSuccess(c)
  /\ call' = [call EXCEPT ![c] = "idle"]
  /\ streak' = IF failed THEN MinOf(streak + 1, FailureThreshold) ELSE 0
  /\ tripAge' = IF state # "open" /\ state' = "open" THEN 0 ELSE tripAge
  /\ EndEpisode(c)

\* fn panicked: Execute unwinds past record.
Panic(c) ==
  /\ call[c] = "fn"
  /\ call' = [call EXCEPT ![c] = "idle"]
  /\ probes' = probes \ {c}
  /\ lost' = IF c \in probes THEN lost + 1 ELSE lost
  /\ UNCHANGED <<breaker, streak, tripAge>>

Finish(c) == Record(c, TRUE) \/ Record(c, FALSE) \/ Panic(c)

\* The clock, of which only the part up to ResetTimeout matters.
Tick ==
  /\ age' = MinOf(age + 1, ResetTimeout)
  /\ tripAge' = MinOf(tripAge + 1, ResetTimeout)
  /\ UNCHANGED <<state, failures, halfOpenReqs, call, streak, probes, lost>>

Next ==
  \/ \E c \in Callers : Allow(c) \/ Finish(c)
  \/ Tick

Spec == Init /\ [][Next]_vars

\* Clients keep calling, the guarded function ends, and time passes.
Fairness ==
  /\ \A c \in Callers : WF_vars(Allow(c)) /\ WF_vars(Finish(c))
  /\ WF_vars(Tick)

FairSpec == Spec /\ Fairness

-----------------------------------------------------------------------------
(* Properties                                                              *)

\* The breaker's fields and the callers keep their types; the counters stay
\* below the thresholds that reset them.
TypeOK ==
  /\ state \in {"closed", "open", "halfOpen"}
  /\ failures \in 0..(FailureThreshold - 1)
  /\ age \in 0..ResetTimeout
  /\ halfOpenReqs \in 0..HalfOpenMax
  /\ call \in [Callers -> {"idle", "fn", "ErrCircuitOpen"}]
  /\ streak \in 0..FailureThreshold
  /\ tripAge \in 0..ResetTimeout
  /\ probes \in SUBSET Callers
  /\ lost \in Nat

\* While half-open, the slots handed out (halfOpenReqs) are exactly the probes
\* still in the guarded function and the ones a panic lost, never more than
\* HalfOpenMax: no sequence of trips, stragglers and new episodes lets more
\* probes in, and only a panic can leak a slot.
ProbeAccounting ==
  state = "halfOpen" =>
    /\ Cardinality(probes) + lost = halfOpenReqs
    /\ halfOpenReqs \in 1..HalfOpenMax

\* FailureThreshold is "the number of consecutive failures that trips the
\* breaker": a closed breaker has seen fewer than that many failures since the
\* last recorded success, however the calls interleave.
ClosedBelowThreshold ==
  state = "closed" => failures = streak /\ streak < FailureThreshold

\* ... and it leaves closed only when that many have been recorded in a row.
TripsOnStreak ==
  [][state = "closed" /\ state' # "closed" =>
       state' = "open" /\ streak' = FailureThreshold]_vars

\* No call reaches the guarded function less than ResetTimeout after the
\* breaker opened, unless it has closed again in between.
WindowRespected ==
  [][\A c \in Callers :
       call[c] # "fn" /\ call'[c] = "fn" =>
         state = "closed" \/ tripAge = ResetTimeout]_vars

\* Why the three above hold: the strengthening that is inductive.  A probe is
\* still running; outside half-open there is no episode to account for; and the
\* breaker's own clock never runs ahead of the time since it opened.
EpisodeInv ==
  /\ \A c \in probes : call[c] = "fn"
  /\ state # "halfOpen" => probes = {} /\ lost = 0
  /\ state = "open" => age <= tripAge
  /\ state = "halfOpen" => tripAge = ResetTimeout

\* If clients keep calling and calls end, a half-open breaker opens or closes
\* again, unless panics have taken every probe slot (circuitbreaker.go:82-89).
HalfOpenResolvesUnlessLost ==
  state = "halfOpen" ~> (state # "halfOpen" \/ lost = HalfOpenMax)

\* Stragglers can postpone probing by re-tripping an open breaker, not for ever.
OpenIsProbed == state = "open" ~> state = "halfOpen"

\* What the comment on HalfOpenMax promises of probes (a success closes the
\* breaker, a failure re-opens it): a half-open episode always ends.
HalfOpenResolves == state = "halfOpen" ~> state # "halfOpen"

=============================================================================
