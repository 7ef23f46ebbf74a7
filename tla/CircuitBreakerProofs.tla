------------------------ MODULE CircuitBreakerProofs ------------------------
(***************************************************************************)
(* The circuit breaker's safety for every set of callers and every spec.   *)
(* The inductive invariant is the conjunction of the type invariant, the   *)
(* two safety invariants and EpisodeInv.                                   *)
(***************************************************************************)
EXTENDS CircuitBreaker, FiniteSetTheorems, TLAPS

IInv == TypeOK /\ ProbeAccounting /\ ClosedBelowThreshold /\ EpisodeInv

\* newCircuitBreaker leaves every limit positive, whatever the spec says.
LEMMA DefaultsPositive ==
  /\ FailureThreshold \in Nat \ {0}
  /\ ResetTimeout \in Nat \ {0}
  /\ HalfOpenMax \in Nat \ {0}
BY SpecAssumption DEF FailureThreshold, ResetTimeout, HalfOpenMax

\* A new breaker is closed, with nothing counted and nobody inside.
LEMMA InitIInv == Init => IInv
BY DefaultsPositive, FS_EmptySet
   DEF Init, IInv, TypeOK, ProbeAccounting, ClosedBelowThreshold, EpisodeInv

\* A set of callers is finite, and one more caller makes it one larger.
LEMMA ProbeCount ==
  ASSUME NEW S \in SUBSET Callers, NEW c \in Callers
  PROVE  /\ Cardinality(S) \in Nat
         /\ c \notin S => Cardinality(S \cup {c}) = Cardinality(S) + 1
         /\ c \in S => Cardinality(S \ {c}) = Cardinality(S) - 1
         /\ Cardinality({c}) = 1
         /\ Cardinality(S \ {c}) \in Nat
<1>1. IsFiniteSet(S)
  BY CallersAssumption, FS_Subset
<1>2. QED
  BY <1>1, FS_AddElement, FS_RemoveElement, FS_Singleton, FS_CardinalityType

\* allow: each way in, and the rejection.
LEMMA AllowIInv ==
  ASSUME IInv, NEW c \in Callers, Allow(c)
  PROVE  IInv'
<1> USE DefaultsPositive
<1>0. TypeOK /\ ProbeAccounting /\ ClosedBelowThreshold /\ EpisodeInv
  BY DEF IInv
<1>1. CASE AllowClosed(c)
  BY <1>0, <1>1 DEF Allow, AllowClosed, IInv, TypeOK, ProbeAccounting,
     ClosedBelowThreshold, EpisodeInv, breaker
<1>2. CASE AllowFirstProbe(c)
  BY <1>0, <1>2, ProbeCount DEF Allow, AllowFirstProbe, WindowElapsed, IInv, TypeOK,
     ProbeAccounting, ClosedBelowThreshold, EpisodeInv
<1>3. CASE AllowProbe(c)
  <2>1. c \notin probes
    BY <1>0 DEF Allow, EpisodeInv
  <2>2. Cardinality(probes') = Cardinality(probes) + 1
    BY <1>0, <1>3, <2>1, ProbeCount DEF AllowProbe, TypeOK
  <2>3. TypeOK'
    BY <1>0, <1>3 DEF Allow, AllowProbe, ProbeSlotFree, TypeOK
  <2>4. ProbeAccounting'
    <3>1. Cardinality(probes) \in Nat
      BY <1>0, ProbeCount DEF TypeOK
    <3>2. QED
      BY <1>0, <1>3, <2>2, <3>1 DEF Allow, AllowProbe, ProbeSlotFree, TypeOK, ProbeAccounting
  <2>5. ClosedBelowThreshold' /\ EpisodeInv'
    BY <1>0, <1>3 DEF Allow, AllowProbe, TypeOK, ClosedBelowThreshold, EpisodeInv
  <2>6. QED
    BY <2>3, <2>4, <2>5 DEF IInv
<1>4. CASE Reject(c)
  BY <1>0, <1>4 DEF Allow, Reject, IInv, TypeOK, ProbeAccounting,
     ClosedBelowThreshold, EpisodeInv, breaker
<1>5. QED
  BY <1>1, <1>2, <1>3, <1>4 DEF Allow

\* record: an outcome arrives in whatever state the breaker is in by then.
LEMMA RecordIInv ==
  ASSUME IInv, NEW c \in Callers, NEW failed \in BOOLEAN, Record(c, failed)
  PROVE  IInv'
<1> USE DefaultsPositive
<1>0. TypeOK /\ ProbeAccounting /\ ClosedBelowThreshold /\ EpisodeInv
  BY DEF IInv
<1>1. state' # "halfOpen"
  BY <1>0 DEF Record, RecordFailure, RecordSuccess, HalfOpenFailure, CountFailure, Trip, TypeOK
<1>2. probes' = {} /\ lost' = 0
  BY <1>1 DEF Record, EndEpisode
<1>3. TypeOK'
  BY <1>0, <1>2 DEF Record, RecordFailure, RecordSuccess, HalfOpenFailure, CountFailure,
     ThresholdReached, Trip, TypeOK, MinOf
<1>4. ProbeAccounting'
  BY <1>1 DEF ProbeAccounting
<1>5. ClosedBelowThreshold'
  BY <1>0 DEF Record, RecordFailure, RecordSuccess, HalfOpenFailure, CountFailure,
     ThresholdReached, Trip, TypeOK, MinOf, ClosedBelowThreshold
<1>6. EpisodeInv'
  BY <1>0, <1>1, <1>2 DEF Record, RecordFailure, RecordSuccess, HalfOpenFailure, CountFailure,
     ThresholdReached, Trip, TypeOK, EpisodeInv
<1>7. QED
  BY <1>3, <1>4, <1>5, <1>6 DEF IInv

\* A panic skips record: a running probe becomes a lost one.
LEMMA PanicIInv ==
  ASSUME IInv, NEW c \in Callers, Panic(c)
  PROVE  IInv'
<1>0. TypeOK /\ ProbeAccounting /\ ClosedBelowThreshold /\ EpisodeInv
  BY DEF IInv
<1>1. TypeOK'
  BY <1>0 DEF Panic, TypeOK, breaker
<1>2. ProbeAccounting'
  <2>1. CASE c \in probes
    <3>1. Cardinality(probes) \in Nat /\ Cardinality(probes') = Cardinality(probes) - 1
      BY <1>0, <2>1, ProbeCount DEF Panic, TypeOK
    <3>2. QED
      BY <1>0, <2>1, <3>1 DEF Panic, TypeOK, ProbeAccounting, breaker
  <2>2. CASE c \notin probes
    <3>1. probes' = probes /\ lost' = lost
      BY <2>2 DEF Panic
    <3>2. QED
      BY <1>0, <3>1 DEF Panic, ProbeAccounting, breaker
  <2>3. QED
    BY <2>1, <2>2
<1>3. ClosedBelowThreshold' /\ EpisodeInv'
  BY <1>0 DEF Panic, TypeOK, ClosedBelowThreshold, EpisodeInv, breaker
<1>4. QED
  BY <1>1, <1>2, <1>3 DEF IInv

\* Time passes.
LEMMA TickIInv ==
  ASSUME IInv, Tick
  PROVE  IInv'
BY DefaultsPositive DEF Tick, IInv, TypeOK, ProbeAccounting, ClosedBelowThreshold,
   EpisodeInv, MinOf

\* The inductive invariant holds in every state the breaker can reach.
THEOREM Invariance == Spec => []IInv
<1>1. IInv /\ [Next]_vars => IInv'
  <2> SUFFICES ASSUME IInv, [Next]_vars PROVE IInv'
    OBVIOUS
  <2>1. CASE Next
    BY <2>1, AllowIInv, RecordIInv, PanicIInv, TickIInv DEF Next, Finish
  <2>2. CASE UNCHANGED vars
    BY <2>2 DEF vars, breaker, history, IInv, TypeOK, ProbeAccounting,
       ClosedBelowThreshold, EpisodeInv
  <2>3. QED
    BY <2>1, <2>2
<1>2. QED
  BY InitIInv, <1>1, PTL DEF Spec

\* The breaker's fields keep their types, and failures stays below the
\* threshold at which record trips.
THEOREM TypeCorrect == Spec => []TypeOK
BY Invariance, PTL DEF IInv

\* Half-open slots are exactly the running probes and the panicked ones, and at
\* most HalfOpenMax are ever handed out in an episode.
THEOREM ProbesAccountedFor == Spec => []ProbeAccounting
BY Invariance, PTL DEF IInv

\* A closed breaker has recorded fewer than FailureThreshold failures in a row.
THEOREM ClosedIsBelowThreshold == Spec => []ClosedBelowThreshold
BY Invariance, PTL DEF IInv

\* A breaker leaves closed only for open, on FailureThreshold failures in a row.
THEOREM OnlyAStreakTrips == Spec => TripsOnStreak
<1>1. IInv /\ [Next]_vars =>
        [state = "closed" /\ state' # "closed" =>
           state' = "open" /\ streak' = FailureThreshold]_vars
  <2> SUFFICES ASSUME IInv, Next, state = "closed", state' # "closed"
               PROVE  state' = "open" /\ streak' = FailureThreshold
    OBVIOUS
  <2>1. PICK c \in Callers, failed \in BOOLEAN : Record(c, failed)
    BY DEF Next, Finish, Allow, AllowClosed, AllowFirstProbe, AllowProbe, Reject, Panic,
       Tick, breaker
  <2>2. QED
    BY <2>1, DefaultsPositive DEF Record, RecordFailure, RecordSuccess, CountFailure,
       ThresholdReached, Trip, IInv, TypeOK, ClosedBelowThreshold, MinOf
<1>2. QED
  BY Invariance, <1>1, PTL DEF Spec, TripsOnStreak

\* No call is admitted within ResetTimeout of the breaker opening.
THEOREM WindowIsRespected == Spec => WindowRespected
<1> DEFINE A == \A c \in Callers : call[c] # "fn" /\ call'[c] = "fn" =>
                  state = "closed" \/ tripAge = ResetTimeout
<1>1. IInv /\ [Next]_vars => [A]_vars
  <2> SUFFICES ASSUME IInv, Next, NEW c \in Callers, call[c] # "fn", call'[c] = "fn"
               PROVE  state = "closed" \/ tripAge = ResetTimeout
    OBVIOUS
  <2>1. PICK d \in Callers : Allow(d)
    BY DEF Next, Finish, Record, Panic, Tick, IInv, TypeOK
  <2>2. QED
    BY <2>1, DefaultsPositive DEF Allow, AllowClosed, AllowFirstProbe, AllowProbe, Reject,
       WindowElapsed, IInv, TypeOK, EpisodeInv
<1>2. QED
  BY Invariance, <1>1, PTL DEF Spec, WindowRespected

=============================================================================
