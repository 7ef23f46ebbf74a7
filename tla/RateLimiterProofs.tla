-------------------------- MODULE RateLimiterProofs -------------------------
(***************************************************************************)
(* For every Limit, Period and Burst the lazily refilled token bucket      *)
(* implements the leaky bucket that drains at every tick.                  *)
(***************************************************************************)
EXTENDS RateLimiter, TLAPS

\* newTokenBucket leaves every field positive, whatever the spec says.
LEMMA DefaultsPositive ==
  Limit \in Nat \ {0} /\ Period \in Nat \ {0} /\ Burst \in Nat \ {0}
BY RateLimiterAssumption DEF Limit, Period, Burst

\* A full bucket is a natural number of token fractions.
LEMMA FullNat == Full \in Nat
BY DefaultsPositive DEF Full

\* The refill, as far as the steps of the bucket need it.
LEMMA RefilledFacts ==
  ASSUME TypeOK
  PROVE  /\ elapsed * Limit \in Nat
         /\ Refilled \in 0..Full
         /\ Refilled = IF tokens + elapsed * Limit > Full
                       THEN Full ELSE tokens + elapsed * Limit
<1>1. elapsed \in Nat /\ tokens \in Nat /\ tokens <= Full
  BY FullNat, RateLimiterAssumption DEF TypeOK
<1>2. elapsed * Limit \in Nat
  BY <1>1, DefaultsPositive
<1>3. QED
  BY <1>1, <1>2, FullNat DEF Refilled

\* A call leaves what it computed, and no time has passed since.
LEMMA TakeRefilled ==
  ASSUME TypeOK, Take
  PROVE  /\ tokens' \in 0..Full
         /\ Refilled' = tokens'
<1> USE FullNat, DefaultsPositive
<1>1. tokens' \in 0..Full
  <2>1. CASE Grant
    BY <2>1, RefilledFacts DEF Grant, TokenLeft
  <2>2. CASE Refuse
    BY <2>2, RefilledFacts DEF Refuse
  <2>3. QED
    BY <2>1, <2>2 DEF Take
<1>2. elapsed' * Limit = 0
  BY DEF Take
<1>3. Refilled' = IF tokens' + elapsed' * Limit > Full
                  THEN Full ELSE tokens' + elapsed' * Limit
  BY DEF Refilled, Full, Limit, Period, Burst
<1>4. tokens' \in Int /\ ~(tokens' > Full)
  BY <1>1
<1>5. tokens' + elapsed' * Limit = tokens'
  BY <1>4, <1>2
<1>6. QED
  BY <1>1, <1>3, <1>4, <1>5

\* A tick adds one refill, up to the burst.
LEMMA TickRefilled ==
  ASSUME TypeOK, Tick
  PROVE  Refilled' = IF Refilled + Limit > Full THEN Full ELSE Refilled + Limit
<1> USE FullNat, DefaultsPositive
<1>1. elapsed \in Nat /\ tokens \in Nat
  BY RateLimiterAssumption DEF TypeOK
<1>2. elapsed' * Limit = elapsed * Limit + Limit
  BY <1>1 DEF Tick
<1>3. Refilled' = IF tokens + elapsed' * Limit > Full
                  THEN Full ELSE tokens + elapsed' * Limit
  BY DEF Refilled, Tick, Full, Limit, Period, Burst
<1>4. QED
  BY <1>1, <1>2, <1>3, RefilledFacts

\* The bucket never holds more than the burst, and never a debt.
THEOREM TypeCorrect == Spec => []TypeOK
<1>1. Init => TypeOK
  BY FullNat, RateLimiterAssumption DEF Init, TypeOK
<1>2. TypeOK /\ [Next]_vars => TypeOK'
  <2> SUFFICES ASSUME TypeOK, [Next]_vars
               PROVE  TypeOK'
    OBVIOUS
  <2>1. CASE Take
    <3>1. tokens' \in 0..Full
      BY <2>1, TakeRefilled
    <3>2. elapsed' \in 0..MaxIdle /\ outcome' \in {"none", "granted", "rejected"}
      BY <2>1, RateLimiterAssumption DEF Take, Grant, Refuse
    <3>3. QED
      BY <3>1, <3>2 DEF TypeOK, Full, Burst, Limit, Period
  <2>2. CASE Tick
    BY <2>2, FullNat, RateLimiterAssumption DEF TypeOK, Tick, Full, Burst, Limit, Period
  <2>3. CASE UNCHANGED vars
    BY <2>3 DEF TypeOK, vars, Full, Burst, Limit, Period
  <2>4. QED
    BY <2>1, <2>2, <2>3 DEF Next
<1>3. QED
  BY <1>1, <1>2, PTL DEF Spec

\* A fresh bucket is a leaky bucket with nothing in it.
LEMMA InitIdeal == Init => Ideal!Init
<1> SUFFICES ASSUME Init
             PROVE  Ideal!Init
  OBVIOUS
<1>1. tokens = Full /\ elapsed * Limit = 0
  BY DefaultsPositive DEF Init
<1>2. Refilled = Full
  BY <1>1, FullNat DEF Refilled
<1>3. QED
  BY <1>2, FullNat DEF Init, Ideal!Init

\* Every step of the token bucket is the same step of the leaky one.
LEMMA NextIdeal ==
  ASSUME TypeOK, [Next]_vars
  PROVE  [Ideal!Next]_<<Full - Refilled, outcome>>
<1> USE FullNat, DefaultsPositive, RefilledFacts
<1>0. Full' = Full /\ Period' = Period /\ Limit' = Limit
  BY DEF Full, Burst, Period, Limit
<1>1. CASE Take /\ Grant
  <2>1. Refilled' = Refilled - Period /\ Refilled >= Period
    BY <1>1, TakeRefilled DEF Grant, TokenLeft
  <2>2. Ideal!Grant
    BY <1>0, <1>1, <2>1 DEF Grant, Ideal!Grant
  <2>3. QED
    BY <2>2 DEF Ideal!Next
<1>2. CASE Take /\ Refuse
  <2>1. Refilled' = Refilled /\ ~(Refilled >= Period)
    BY <1>2, TakeRefilled DEF Refuse, TokenLeft
  <2>2. Ideal!Refuse
    BY <1>0, <1>2, <2>1 DEF Refuse, Ideal!Refuse
  <2>3. QED
    BY <2>2 DEF Ideal!Next
<1>3. CASE Tick
  <2>1. Refilled' = IF Refilled + Limit > Full THEN Full ELSE Refilled + Limit
    BY <1>3, TickRefilled
  <2>2. Ideal!Tick
    BY <1>0, <1>3, <2>1 DEF Tick, Ideal!Tick
  <2>3. QED
    BY <2>2 DEF Ideal!Next
<1>4. CASE UNCHANGED vars
  BY <1>0, <1>4 DEF vars, Refilled
<1>5. QED
  BY <1>1, <1>2, <1>3, <1>4 DEF Next, Take

\* The lazy token bucket grants and refuses exactly what the leaky bucket does:
\* never more than Burst permits plus the refill of any window, and never less.
THEOREM LazyRefillIsExact == Spec => ImplementsLeakyBucket
<1>1. TypeOK /\ [Next]_vars => [Ideal!Next]_<<Full - Refilled, outcome>>
  BY NextIdeal
<1>2. QED
  BY <1>1, InitIdeal, TypeCorrect, PTL DEF Spec, ImplementsLeakyBucket, Ideal!Spec

=============================================================================
