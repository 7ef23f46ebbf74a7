----------------------------- MODULE Lifecycle ------------------------------
(***************************************************************************)
(* runtime/lifecycle.go: start hooks in construction order, rollback on a  *)
(* failed start, stop hooks in reverse.  The struct has no lock, so the    *)
(* loops are one step per iteration and per hook call, and each goroutine  *)
(* that runs stopStarted has its own loop index.                           *)
(***************************************************************************)
EXTENDS Integers, Sequences

CONSTANTS
  N,         \* registered components; a component is its construction index
  HasStart,  \* those with a start hook (@PostConstruct)
  HasStop,   \* those with a stop hook (@PreDestroy)
  Procs      \* goroutines that call into the lifecycle

ASSUME LifecycleAssumption ==
  /\ N \in Nat
  /\ HasStart \subseteq 1..N
  /\ HasStop \subseteq 1..N

Component == 1..N

VARIABLES
  pc,        \* pc[p]: where goroutine p is
  started,   \* l.started
  pos,       \* pos[p]: the loop variable of Start or stopStarted in p
  cur,       \* cur[p]: the component whose stop hook p is running
  crashed    \* a goroutine panicked and took the process down

\* History, read by the properties only.
VARIABLES
  up,        \* components whose start succeeded (or that have no start hook)
  stops      \* stops[c]: how often c's stop hook was called

lcVars == <<started, pos, cur, crashed, up, stops>>

LifecycleInit ==
  /\ started = <<>>
  /\ pos = [p \in Procs |-> 1]
  /\ cur = [p \in Procs |-> 0]
  /\ crashed = FALSE
  /\ up = {}
  /\ stops = [c \in Component |-> 0]

Goto(p, l) == pc' = [pc EXCEPT ![p] = l]

-----------------------------------------------------------------------------
(* Plausible bugs (the manifest's mutants).                                *)

\* A failed component is appended before its error is looked at.
StartFailsAppended(p) ==
  /\ started' = Append(started, pos[p])
  /\ pos' = [pos EXCEPT ![p] = Len(started) + 1]
  /\ Goto(p, "stop")
  /\ UNCHANGED <<cur, crashed, up, stops>>

\* stopStarted walks the slice forwards.
StopHookForwards(p) ==
  LET c == started[Len(started) + 1 - pos[p]] IN
    /\ c \in HasStop
    /\ cur' = [cur EXCEPT ![p] = c]
    /\ stops' = [stops EXCEPT ![c] = @ + 1]
    /\ Goto(p, "stopHook")
    /\ UNCHANGED <<started, pos, crashed, up>>

-----------------------------------------------------------------------------
(* Start                                                                   *)

\* stopStarted's loop header reads len(l.started) once.
EnterStop(p) ==
  /\ Goto(p, "stop")
  /\ pos' = [pos EXCEPT ![p] = Len(started)]

\* The hook succeeds, or there is none: the component counts as initialised.
StartComponent(p) ==
  /\ pc[p] = "start" /\ pos[p] \in Component
  /\ started' = Append(started, pos[p])
  /\ up' = up \cup {pos[p]}
  /\ pos' = [pos EXCEPT ![p] = @ + 1]
  /\ UNCHANGED <<pc, cur, crashed, stops>>

\* The hook fails: roll back what has started, and return the error.
RollBack(p) ==
  /\ EnterStop(p)
  /\ UNCHANGED <<started, cur, crashed, up, stops>>

StartFails(p) ==
  /\ pc[p] = "start" /\ pos[p] \in HasStart
  /\ RollBack(p)

-----------------------------------------------------------------------------
(* stopStarted                                                             *)

InLoop(p) == pc[p] = "stop" /\ pos[p] > 0

\* The slice was cleared by another goroutine: index out of range.
StopIndexPanics(p) ==
  /\ InLoop(p) /\ pos[p] > Len(started)
  /\ crashed' = TRUE
  /\ UNCHANGED <<pc, started, pos, cur, up, stops>>

StopSkipped(p) ==
  /\ InLoop(p) /\ pos[p] <= Len(started)
  /\ started[pos[p]] \notin HasStop
  /\ pos' = [pos EXCEPT ![p] = @ - 1]
  /\ UNCHANGED <<pc, started, cur, crashed, up, stops>>

CallStopHook(p) ==
  LET c == started[pos[p]] IN
    /\ c \in HasStop
    /\ cur' = [cur EXCEPT ![p] = c]
    /\ stops' = [stops EXCEPT ![c] = @ + 1]
    /\ Goto(p, "stopHook")
    /\ UNCHANGED <<started, pos, crashed, up>>

StopHookBegins(p) ==
  /\ InLoop(p) /\ pos[p] <= Len(started)
  /\ CallStopHook(p)

\* With or without an error, the loop goes on: every hook is attempted.
StopHookReturns(p) ==
  /\ pc[p] = "stopHook"
  /\ Goto(p, "stop")
  /\ pos' = [pos EXCEPT ![p] = @ - 1]
  /\ UNCHANGED <<started, cur, crashed, up, stops>>

\* l.started = nil; in every caller stopStarted is the last thing done.
StopStartedReturns(p) ==
  /\ pc[p] = "stop" /\ pos[p] <= 0
  /\ started' = <<>>
  /\ Goto(p, "done")
  /\ UNCHANGED <<pos, cur, crashed, up, stops>>

StopStarted(p) ==
  \/ StopIndexPanics(p)
  \/ StopSkipped(p)
  \/ StopHookBegins(p)
  \/ StopHookReturns(p)
  \/ StopStartedReturns(p)

-----------------------------------------------------------------------------

LifecycleTypeOK ==
  /\ started \in Seq(Component)
  /\ pos \in [Procs -> 0..(N + 1)]
  /\ cur \in [Procs -> 0..N]
  /\ crashed \in BOOLEAN
  /\ up \subseteq Component
  /\ stops \in [Component -> Nat]

=============================================================================
