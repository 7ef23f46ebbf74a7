--------------------------- MODULE ComponentLife ----------------------------
(***************************************************************************)
(* What an application promises its components (runtime/lifecycle.go:      *)
(* "startup in construction order, shutdown in reverse"; application.go:   *)
(* "stop scheduled tasks before tearing down the server and components"),  *)
(* as a component sees it: it starts on everything constructed before it,  *)
(* work begins when all have started, and when the work is over each is    *)
(* stopped, once, before those it was built on.  A second goroutine that   *)
(* calls Shutdown voids the order, but not that a component is started     *)
(* once, at most, and stopped only after that.                             *)
(***************************************************************************)
EXTENDS Integers

CONSTANTS
  N,        \* components, in construction order
  HasStop   \* those that have to be stopped

VARIABLES
  life,     \* life[c]: "new", "up" or "stopped"
  working,  \* what runs on the components: "tasks", "requests" or both
  excused,  \* the server failed or its drain gave up: requests may be left over
  calm,     \* nobody else has called Shutdown
  returned  \* the application is over

vars == <<life, working, excused, calm, returned>>

Component == 1..N
Work == {"tasks", "requests"}

Init ==
  /\ life = [c \in Component |-> "new"]
  /\ working = {}
  /\ excused = FALSE
  /\ calm = TRUE
  /\ returned = FALSE

AtRest == working \subseteq IF excused THEN {"requests"} ELSE {}

Start(c) ==
  /\ ~returned
  /\ life[c] = "new"
  /\ \A d \in 1..(c - 1) : life[d] # "new" /\ (calm => life[d] = "up")
  /\ life' = [life EXCEPT ![c] = "up"]
  /\ UNCHANGED <<working, excused, calm, returned>>

BeginWork(k) ==
  /\ \A c \in Component : life[c] # "new" /\ (calm => life[c] = "up")
  /\ calm => ~returned
  /\ working' = working \cup {k}
  /\ UNCHANGED <<life, excused, calm, returned>>

EndWork(k) ==
  /\ working' = working \ {k}
  /\ UNCHANGED <<life, excused, calm, returned>>

Excuse ==
  /\ excused' = TRUE
  /\ UNCHANGED <<life, working, calm, returned>>

Stop(c) ==
  /\ c \in HasStop
  /\ life[c] # "new"
  /\ calm =>
       /\ ~returned /\ AtRest
       /\ life[c] = "up"
       /\ \A d \in HasStop : d > c => life[d] # "up"
  /\ life' = [life EXCEPT ![c] = "stopped"]
  /\ UNCHANGED <<working, excused, calm, returned>>

Interfere ==
  /\ calm' = FALSE
  /\ UNCHANGED <<life, working, excused, returned>>

Return ==
  /\ calm => AtRest /\ \A c \in HasStop : life[c] # "up"
  /\ returned' = TRUE
  /\ UNCHANGED <<life, working, excused, calm>>

Next ==
  \/ \E c \in Component : Start(c) \/ Stop(c)
  \/ \E k \in Work : BeginWork(k) \/ EndWork(k)
  \/ Excuse \/ Interfere \/ Return

Spec == Init /\ [][Next]_vars

=============================================================================
