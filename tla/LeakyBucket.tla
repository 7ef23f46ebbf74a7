----------------------------- MODULE LeakyBucket ----------------------------
(***************************************************************************)
(* What @RateLimit promises (runtime/ratelimit.go: "Limit is the number of *)
(* permits refilled every Period", "Burst is the maximum number of permits *)
(* that can accumulate"), as a leaky bucket that drains on its own at      *)
(* every tick of the clock.  Over any stretch of time the permits granted  *)
(* are at most Burst + Limit * ticks / Period, and none is refused that    *)
(* this bound would allow.                                                 *)
(***************************************************************************)
EXTENDS Integers

CONSTANTS
  Drain,     \* what a tick drains
  Cost,      \* what a permit adds
  Capacity

VARIABLES
  level,     \* how much of the capacity recent permits occupy
  granted    \* the last call's outcome: "none", "granted" or "rejected"

Init == level = 0 /\ granted = "none"

Tick ==
  /\ level' = IF level > Drain THEN level - Drain ELSE 0
  /\ UNCHANGED granted

Grant ==
  /\ level + Cost <= Capacity
  /\ level' = level + Cost
  /\ granted' = "granted"

Refuse ==
  /\ level + Cost > Capacity
  /\ granted' = "rejected"
  /\ UNCHANGED level

Next == Tick \/ Grant \/ Refuse

Spec == Init /\ [][Next]_<<level, granted>>

=============================================================================
