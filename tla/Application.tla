---------------------------- MODULE Application -----------------------------
(***************************************************************************)
(* runtime/application.go: Run and Shutdown, over the lifecycle, the       *)
(* scheduler and an http.Server.  Run is one goroutine ("run"); any other  *)
(* goroutine may call the exported Shutdown ("ext").  An application       *)
(* without a lifecycle or scheduler is one with N = 0 or Tasks = {}.       *)
(***************************************************************************)
EXTENDS Lifecycle, Scheduler

CONSTANTS
  HasServer,  \* a.Server # nil
  Requests    \* requests that clients may send while the server listens

ASSUME ApplicationAssumption == HasServer \in BOOLEAN /\ Procs = {"run", "ext"}

VARIABLES
  ctxDone,    \* the context given to Run is cancelled
  path,       \* path[p]: how p came to stop: Shutdown, or Run's serverErr case
  serve,      \* the ListenAndServe goroutine: "off", "launched", "serving", "returned"
  inShutdown, \* http.Server: Shutdown has been called
  serverErr,  \* the channel: "empty", "nil" or "error"
  req         \* req[r]: "none", "inflight" or "done"

\* History, read by the properties only.
VARIABLE
  drainTimedOut \* a Server.Shutdown gave up with requests in flight

srvVars == <<serve, inShutdown, req, drainTimedOut>>
vars == <<pc, lcVars, schedVars, ctxDone, path, serverErr, srvVars>>

Init ==
  /\ pc = [p \in Procs |-> IF p = "run" THEN "start" ELSE "idle"]
  /\ LifecycleInit
  /\ SchedulerInit
  /\ ctxDone = FALSE
  /\ path = [p \in Procs |-> "none"]
  /\ serve = "off"
  /\ inShutdown = FALSE
  /\ serverErr = "empty"
  /\ req = [r \in Requests |-> "none"]
  /\ drainTimedOut = FALSE

InFlight == {r \in Requests : req[r] = "inflight"}

-----------------------------------------------------------------------------
(* Plausible bugs (the manifest's mutants).                                *)

\* The server is launched before the lifecycle has started everything.
StartReturnsEarly(p) == pc[p] = "start" /\ pos[p] >= N

-----------------------------------------------------------------------------
(* Run                                                                     *)

StartReturns(p) == pc[p] = "start" /\ pos[p] > N

RunSchedulerStart ==
  /\ StartReturns("run")
  /\ SchedulerStart
  /\ Goto("run", "spawn")
  /\ UNCHANGED <<lcVars, ctxDone, path, serverErr, srvVars>>

RunSpawn(t) ==
  /\ pc["run"] = "spawn"
  /\ SpawnTask(t)
  /\ UNCHANGED <<pc, lcVars, ctxDone, path, serverErr, srvVars>>

RunLaunch ==
  /\ pc["run"] = "spawn" /\ Unspawned = {}
  /\ serve' = IF HasServer THEN "launched" ELSE "off"
  /\ Goto("run", "select")
  /\ UNCHANGED <<lcVars, schedVars, ctxDone, path, serverErr, inShutdown, req,
                 drainTimedOut>>

\* select: a ready case is taken, either of them when both are.
SelectCtxDone ==
  /\ pc["run"] = "select" /\ ctxDone
  /\ Goto("run", "schedStop")
  /\ path' = [path EXCEPT !["run"] = "shutdown"]
  /\ UNCHANGED <<lcVars, schedVars, ctxDone, serverErr, srvVars>>

SelectServerErr ==
  /\ pc["run"] = "select" /\ serverErr # "empty"
  /\ Goto("run", "schedStop")
  /\ path' = [path EXCEPT !["run"] = "serverErr"]
  /\ UNCHANGED <<lcVars, schedVars, ctxDone, serverErr, srvVars>>

-----------------------------------------------------------------------------
(* Shutdown                                                                *)

CallShutdown ==
  /\ pc["ext"] = "idle"
  /\ Goto("ext", "schedStop")
  /\ path' = [path EXCEPT !["ext"] = "shutdown"]
  /\ UNCHANGED <<lcVars, schedVars, ctxDone, serverErr, srvVars>>

StopScheduler(p) ==
  /\ pc[p] = "schedStop"
  /\ CancelTasks
  /\ Goto(p, "wait")
  /\ UNCHANGED <<lcVars, ctxDone, path, serverErr, srvVars>>

\* wg.Wait returned.  Shutdown turns to the server, Run's serverErr case
\* straight to the lifecycle.
SchedulerStopped(p) ==
  /\ pc[p] = "wait"
  /\ AllTasksDone
  /\ IF path[p] = "shutdown"
     THEN Goto(p, "drain") /\ inShutdown' = HasServer /\ UNCHANGED pos
     ELSE EnterStop(p) /\ UNCHANGED inShutdown
  /\ UNCHANGED <<started, cur, crashed, up, stops, schedVars, ctxDone, path, serverErr,
                 serve, req, drainTimedOut>>

\* Server.Shutdown returns when no request is in flight, or at the deadline;
\* then the lifecycle stops either way.
Drained == InFlight = {}

ServerDrained(p) ==
  /\ pc[p] = "drain"
  /\ Drained
  /\ EnterStop(p)
  /\ UNCHANGED <<started, cur, crashed, up, stops, schedVars, ctxDone, path, serverErr,
                 srvVars>>

DrainTimesOut(p) ==
  /\ pc[p] = "drain"
  /\ InFlight # {}
  /\ EnterStop(p)
  /\ drainTimedOut' = TRUE
  /\ UNCHANGED <<started, cur, crashed, up, stops, schedVars, ctxDone, path, serverErr,
                 serve, inShutdown, req>>

-----------------------------------------------------------------------------
(* The server's goroutines and the environment                             *)

Listen ==
  /\ serve = "launched" /\ ~inShutdown
  /\ serve' = "serving"
  /\ UNCHANGED <<pc, lcVars, schedVars, ctxDone, path, serverErr, inShutdown, req,
                 drainTimedOut>>

\* ListenAndServe returns ErrServerClosed, which Run's goroutine turns to nil.
ServeClosed ==
  /\ serve \in {"launched", "serving"} /\ inShutdown
  /\ serve' = "returned"
  /\ serverErr' = "nil"
  /\ UNCHANGED <<pc, lcVars, schedVars, ctxDone, path, inShutdown, req, drainTimedOut>>

\* Listening or accepting fails; requests in flight keep their goroutines.
ServeFails ==
  /\ serve \in {"launched", "serving"} /\ ~inShutdown
  /\ serve' = "returned"
  /\ serverErr' = "error"
  /\ UNCHANGED <<pc, lcVars, schedVars, ctxDone, path, inShutdown, req, drainTimedOut>>

RequestArrives(r) ==
  /\ serve = "serving" /\ ~inShutdown
  /\ req[r] = "none"
  /\ req' = [req EXCEPT ![r] = "inflight"]
  /\ UNCHANGED <<pc, lcVars, schedVars, ctxDone, path, serverErr, serve, inShutdown,
                 drainTimedOut>>

RequestEnds(r) ==
  /\ req[r] = "inflight"
  /\ req' = [req EXCEPT ![r] = "done"]
  /\ UNCHANGED <<pc, lcVars, schedVars, ctxDone, path, serverErr, serve, inShutdown,
                 drainTimedOut>>

CancelCtx ==
  /\ ~ctxDone
  /\ ctxDone' = TRUE
  /\ UNCHANGED <<pc, lcVars, schedVars, path, serverErr, srvVars>>

-----------------------------------------------------------------------------

LifecycleStep(p) ==
  /\ ~crashed
  /\ \/ p = "run" /\ (StartComponent(p) \/ StartFails(p))
     \/ StopStarted(p)
  /\ UNCHANGED <<schedVars, ctxDone, path, serverErr, srvVars>>

TaskExit(t) ==
  /\ ~crashed
  /\ TaskExits(t, ctxDone)
  /\ UNCHANGED <<pc, lcVars, ctxDone, path, serverErr, srvVars>>

TaskStep(t) ==
  /\ ~crashed
  /\ TaskDelayElapses(t) \/ TaskRuns(t) \/ TaskReturns(t)
  /\ UNCHANGED <<pc, lcVars, ctxDone, path, serverErr, srvVars>>

ShutdownStep(p) ==
  /\ ~crashed
  /\ StopScheduler(p) \/ SchedulerStopped(p) \/ ServerDrained(p) \/ DrainTimesOut(p)

RunStep ==
  /\ ~crashed
  /\ \/ RunSchedulerStart
     \/ \E t \in Tasks : RunSpawn(t)
     \/ RunLaunch
     \/ SelectCtxDone
     \/ SelectServerErr

ServerStep ==
  /\ ~crashed
  /\ Listen \/ ServeClosed \/ ServeFails

RequestStep(r) == ~crashed /\ (RequestArrives(r) \/ RequestEnds(r))

EnvironmentStep == ~crashed /\ (CancelCtx \/ CallShutdown)

\* Run has returned and no Shutdown is pending, or the process is gone.
Over ==
  /\ crashed \/ (pc["run"] = "done" /\ pc["ext"] \in {"idle", "done"})
  /\ UNCHANGED vars

Next ==
  \/ RunStep
  \/ \E p \in Procs : LifecycleStep(p) \/ ShutdownStep(p)
  \/ \E t \in Tasks : TaskStep(t) \/ TaskExit(t)
  \/ ServerStep
  \/ \E r \in Requests : RequestStep(r)
  \/ EnvironmentStep
  \/ Over

Spec == Init /\ [][Next]_vars

\* The goroutines run; hooks, task bodies and the drain end; Go's select is
\* random, so a task that keeps finding its context done takes that branch.
Fairness ==
  /\ WF_vars(RunStep)
  /\ \A p \in Procs : WF_vars(LifecycleStep(p) \/ ShutdownStep(p))
  /\ \A t \in Tasks : WF_vars(TaskStep(t)) /\ SF_vars(TaskExit(t))
  /\ WF_vars(~crashed /\ ServeClosed)

FairSpec == Spec /\ Fairness


-----------------------------------------------------------------------------
(* Properties                                                              *)

\* No goroutine but Run has called Shutdown.
Calm == pc["ext"] = "idle"

\* Where every goroutine, task, request and the server can be.
TypeOK ==
  /\ pc \in [Procs -> {"idle", "start", "spawn", "select", "schedStop", "wait", "drain",
                       "stop", "stopHook", "done"}]
  /\ LifecycleTypeOK
  /\ SchedulerTypeOK
  /\ ctxDone \in BOOLEAN
  /\ path \in [Procs -> {"none", "shutdown", "serverErr"}]
  /\ serve \in {"off", "launched", "serving", "returned"}
  /\ inShutdown \in BOOLEAN
  /\ serverErr \in {"empty", "nil", "error"}
  /\ req \in [Requests -> {"none", "inflight", "done"}]
  /\ drainTimedOut \in BOOLEAN

\* "startup in construction order, shutdown in reverse": while a stop hook
\* runs, every later component that started has been stopped, and no earlier
\* one has - after a normal start and in a rollback alike.
ReverseOrder ==
  Calm /\ pc["run"] = "stopHook" =>
    \A c \in HasStop \cap up :
      stops[c] = IF c >= cur["run"] THEN 1 ELSE 0

\* When Run returns, the stop hook of every component that was initialised has
\* run exactly once, and no other has: a component whose start failed is not
\* stopped, and no failing hook or deadline makes Run skip one.
StoppedExactlyOnce ==
  Calm /\ pc["run"] = "done" =>
    \A c \in Component : stops[c] = IF c \in up \cap HasStop THEN 1 ELSE 0

\* "Stop scheduled tasks before tearing down the server and components": no
\* task body runs during a stop hook, although select may still start one after
\* the context is done; and a request is in flight only if the drain gave up or
\* the server failed on its own.
QuiescedBeforeStop ==
  Calm /\ pc["run"] = "stopHook" =>
    /\ AllTasksDone
    /\ InFlight = {} \/ drainTimedOut \/ serverErr = "error"

\* Requests and tasks only run on components that have all been initialised.
StartedBeforeWork ==
  (InFlight # {} \/ \E t \in Tasks : Live(t)) => up = Component

\* Once the context is cancelled or the server stops, Run returns.
RunReturns ==
  (ctxDone \/ serverErr # "empty") ~> (pc["run"] = "done" \/ crashed)

\* What the components see of the application.
LifeOf == [c \in Component |-> IF stops[c] > 0 THEN "stopped" ELSE IF c \in up THEN "up" ELSE "new"]
WorkOn == {k \in {"tasks", "requests"} : IF k = "tasks" THEN ~AllTasksDone ELSE InFlight # {}}

Life == INSTANCE ComponentLife WITH
  life <- LifeOf,
  working <- WorkOn,
  excused <- (drainTimedOut \/ serverErr = "error"),
  calm <- Calm,
  returned <- (pc["run"] = "done")

\* The application keeps what its components are promised: in whatever order
\* the goroutines, tasks, requests and failures come, each component lives as
\* ComponentLife says, and unless Shutdown is called from outside in its order.
FollowsComponentLife == Life!Spec

\* "Shutdown gracefully stops the HTTP server and then the lifecycle": as
\* QuiescedBeforeStop, whoever calls Shutdown.
ServerThenLifecycle ==
  \A p \in Procs : pc[p] = "stopHook" =>
    InFlight = {} \/ drainTimedOut \/ serverErr = "error"

=============================================================================
