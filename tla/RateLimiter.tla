----------------------------- MODULE RateLimiter ----------------------------
(***************************************************************************)
(* runtime/ratelimit.go: the lazily refilled token bucket.  take runs      *)
(* under t.mu and is one step; it reads the clock, so the bucket changes   *)
(* only when it is called.  Tokens are counted in units of 1/Period token, *)
(* which makes the refill elapsed * limit / period exact; the code's       *)
(* float64 arithmetic rounds it, and the rounding is not modelled.         *)
(***************************************************************************)
EXTENDS Integers

CONSTANTS
  SpecLimit, SpecPeriod, SpecBurst,  \* RateLimitSpec, as given (Period in ticks)
  SecondInTicks,                     \* the default Period
  MaxIdle                            \* bound: ticks between two calls

ASSUME RateLimiterAssumption ==
  /\ SpecLimit \in Int /\ SpecPeriod \in Int /\ SpecBurst \in Int
  /\ SecondInTicks \in Nat \ {0}
  /\ MaxIdle \in Nat

\* newTokenBucket's defaults.
Limit == IF SpecLimit <= 0 THEN 100 ELSE SpecLimit
Period == IF SpecPeriod <= 0 THEN SecondInTicks ELSE SpecPeriod
Burst == IF SpecBurst <= 0 THEN Limit ELSE SpecBurst

Full == Burst * Period

VARIABLES
  tokens,    \* t.tokens, times Period
  elapsed,   \* now() - t.lastFill
  outcome    \* what the last Execute did: "none", "granted", "rejected"

vars == <<tokens, elapsed, outcome>>

Init ==
  /\ tokens = Full
  /\ elapsed = 0
  /\ outcome = "none"

-----------------------------------------------------------------------------
(* Plausible bugs (the manifest's mutants).                                *)

\* Integer arithmetic: only whole tokens are refilled, the rest is lost.
RefillTruncated ==
  IF tokens + Period * ((elapsed * Limit) \div Period) > Full
  THEN Full
  ELSE tokens + Period * ((elapsed * Limit) \div Period)

\* A permit is given for a fraction of a token.
AnyTokenLeft == tokens + elapsed * Limit > 0

-----------------------------------------------------------------------------

\* The bucket after the refill for the elapsed time, capped at the burst.
Refilled ==
  IF tokens + elapsed * Limit > Full THEN Full ELSE tokens + elapsed * Limit

TokenLeft == Refilled >= Period

Grant ==
  /\ TokenLeft
  /\ tokens' = Refilled - Period
  /\ outcome' = "granted"

Refuse ==
  /\ ~TokenLeft
  /\ tokens' = Refilled
  /\ outcome' = "rejected"

\* Execute: what the guarded function does after a grant is not its concern.
Take ==
  /\ Grant \/ Refuse
  /\ elapsed' = 0

Tick ==
  /\ elapsed < MaxIdle
  /\ elapsed' = elapsed + 1
  /\ UNCHANGED <<tokens, outcome>>

Next == Take \/ Tick

Spec == Init /\ [][Next]_vars

\* A client keeps calling, and time passes.
FairSpec == Spec /\ WF_vars(Take) /\ WF_vars(Tick)

-----------------------------------------------------------------------------
(* Properties                                                              *)

\* The bucket never holds fewer than zero or more than Burst tokens.
TypeOK ==
  /\ tokens \in 0..Full
  /\ elapsed \in 0..MaxIdle
  /\ outcome \in {"none", "granted", "rejected"}

\* The lazy refill implements the bucket that drains by itself: it grants and
\* refuses exactly the same calls, however they are spread over time.
Ideal == INSTANCE LeakyBucket WITH
  Drain <- Limit, Cost <- Period, Capacity <- Full,
  level <- Full - Refilled, granted <- outcome

ImplementsLeakyBucket == Ideal!Spec

\* A client that polls, even at every tick, is not starved: a refused call does
\* not lose the fraction of a token that had accumulated.
EventuallyGranted == []<>(outcome = "granted")

=============================================================================
