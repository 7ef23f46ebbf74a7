-------------------------- MODULE ApplicationProofs -------------------------
(***************************************************************************)
(* Start-up and teardown for every number of components, every set of      *)
(* hooks, tasks and requests: what runs, runs on initialised components;   *)
(* and when Run is the only one to stop the application, everything is     *)
(* quiet before the first stop hook and each hook is called once, in       *)
(* reverse.                                                                *)
(***************************************************************************)
EXTENDS Application, SequenceTheorems, TLAPS

\* Where the goroutines are, and the indices of their loops.
PlaceInv ==
  /\ pc["run"] # "idle" /\ pc["ext"] \notin {"start", "spawn", "select"}
  /\ pc["run"] = "start" => pos["run"] >= 1 /\ Len(started) < pos["run"]
  /\ Len(started) <= N
  /\ \A p \in Procs : pc[p] = "stopHook" => pos[p] >= 1

\* Nothing works before every component is up, and no task once Run has waited.
WorkInv ==
  /\ pc["run"] = "start" => up = 1..(pos["run"] - 1) /\ \A t \in Tasks : task[t] = "off"
  /\ pc["run"] \in {"start", "spawn"} => serve = "off" /\ InFlight = {}
  /\ pc["run"] \in {"spawn", "select", "schedStop", "wait", "drain"} => up = Component
  /\ up # Component => serve = "off" /\ InFlight = {} /\ \A t \in Tasks : task[t] = "off"
  /\ pc["run"] \in {"drain", "stop", "stopHook", "done"} => AllTasksDone

\* The server, when only Run shuts it down.
ServerInv ==
  /\ serve # "off" => HasServer
  /\ serverErr # "empty" => serve = "returned"
  /\ Calm =>
       /\ inShutdown => pc["run"] \in {"drain", "stop", "stopHook", "done"}
       /\ serverErr = "nil" => inShutdown
       /\ pc["run"] \in {"schedStop", "wait"} =>
            path["run"] = "shutdown" \/ (path["run"] = "serverErr" /\ serverErr = "error")
       /\ pc["run"] = "drain" => inShutdown = HasServer
       /\ pc["run"] \in {"stop", "stopHook", "done"} =>
            \/ InFlight = {} /\ (inShutdown \/ serve = "off")
            \/ drainTimedOut \/ serverErr = "error"

\* l.started is the prefix of the components that is up, and the stop loop at
\* position k has called the hooks after k.
Called(c, k) == c \in up \cap HasStop /\ c > k
StopsAfter(k) == \A c \in Component : stops[c] = IF Called(c, k) THEN 1 ELSE 0

LoopInv ==
  Calm =>
    /\ pc["run"] # "done" =>
         /\ up = 1..Len(started)
         /\ \A i \in 1..Len(started) : started[i] = i
    /\ pc["run"] = "start" => Len(started) = pos["run"] - 1
    /\ pc["run"] \in {"start", "spawn", "select", "schedStop", "wait", "drain"} =>
         stops = [c \in Component |-> 0]
    /\ pc["run"] = "stop" => pos["run"] <= Len(started) /\ StopsAfter(pos["run"])
    /\ pc["run"] = "stopHook" =>
         /\ pos["run"] <= Len(started) /\ cur["run"] = pos["run"] /\ cur["run"] \in HasStop
         /\ StopsAfter(pos["run"] - 1)
    /\ pc["run"] = "done" => StopsAfter(0)

IInv == TypeOK /\ PlaceInv /\ WorkInv /\ ServerInv /\ LoopInv

LEMMA InitIInv == Init => IInv
<1> SUFFICES ASSUME Init PROVE IInv
  OBVIOUS
<1> USE ApplicationAssumption, LifecycleAssumption, SchedulerAssumption
    DEF Init, LifecycleInit, SchedulerInit, Component
<1>1. TypeOK
  <2>1. LifecycleTypeOK
    <3>1. started \in Seq(Component)
      BY EmptySeq
    <3>2. pos \in [Procs -> 0..(N + 1)] /\ cur \in [Procs -> 0..N]
      OBVIOUS
    <3>3. stops \in [Component -> Nat]
      OBVIOUS
    <3>4. QED
      BY <3>1, <3>2, <3>3 DEF LifecycleTypeOK
  <2>2. SchedulerTypeOK
    BY DEF SchedulerTypeOK
  <2>3. QED
    BY <2>1, <2>2 DEF TypeOK
<1>2. PlaceInv
  BY DEF PlaceInv
<1>3. WorkInv
  BY DEF WorkInv, InFlight
<1>4. ServerInv
  BY DEF ServerInv
<1>5. LoopInv
  BY DEF LoopInv
<1>6. QED
  BY <1>1, <1>2, <1>3, <1>4, <1>5 DEF IInv

-----------------------------------------------------------------------------
(* TypeOK and PlaceInv: one lemma per loop.                                *)

\* Start's loop, in Run only.
LEMMA StartTyped ==
  ASSUME TypeOK, PlaceInv, StartComponent("run") \/ StartFails("run"),
         UNCHANGED <<schedVars, ctxDone, path, serverErr, srvVars>>
  PROVE  TypeOK' /\ PlaceInv'
<1> USE ApplicationAssumption, LifecycleAssumption
    DEF TypeOK, LifecycleTypeOK, SchedulerTypeOK, PlaceInv, schedVars, srvVars
<1>1. CASE StartComponent("run")
  <2>1. /\ pos["run"] \in Component /\ pos["run"] \in 1..N
        /\ pc["run"] = "start" /\ pos["run"] + 1 \in 1..(N + 1)
    BY <1>1 DEF StartComponent, Component
  <2>0. started' = Append(started, pos["run"]) /\ up' = up \cup {pos["run"]}
    BY <1>1 DEF StartComponent
  <2>2. started' \in Seq(Component) /\ Len(started') = Len(started) + 1 /\ up' \subseteq Component
    BY <2>0, <2>1, AppendProperties
  <2>3. pos' \in [Procs -> 0..(N + 1)] /\ pos'["run"] = pos["run"] + 1 /\ pos'["ext"] = pos["ext"]
    BY <1>1, <2>1 DEF StartComponent
  <2>4. QED
    BY <1>1, <2>1, <2>2, <2>3 DEF StartComponent
<1>2. CASE StartFails("run")
  BY <1>2 DEF StartFails, RollBack, EnterStop, Goto
<1>3. QED
  BY <1>1, <1>2

\* stopStarted's loop, in either goroutine.
LEMMA StopTyped ==
  ASSUME TypeOK, PlaceInv, NEW p \in Procs, StopStarted(p),
         UNCHANGED <<schedVars, ctxDone, path, serverErr, srvVars>>
  PROVE  TypeOK' /\ PlaceInv'
<1> USE ApplicationAssumption, LifecycleAssumption
    DEF TypeOK, LifecycleTypeOK, SchedulerTypeOK, PlaceInv, schedVars, srvVars, InLoop
<1>1. CASE StopIndexPanics(p)
  BY <1>1 DEF StopIndexPanics
<1>2. CASE StopSkipped(p)
  <2>1. pos[p] - 1 \in 0..(N + 1) /\ pc[p] = "stop"
    BY <1>2 DEF StopSkipped
  <2>2. pos' = [pos EXCEPT ![p] = @ - 1] /\ UNCHANGED <<pc, started, cur, crashed, up, stops>>
    BY <1>2 DEF StopSkipped
  <2>3. QED
    BY <2>1, <2>2
<1>3. CASE StopHookBegins(p)
  <2> DEFINE c == started[pos[p]]
  <2>1. pos[p] \in 1..Len(started) /\ pc[p] = "stop"
    BY <1>3, LenProperties DEF StopHookBegins
  <2>0. c \in Component
    BY <2>1, ElementOfSeq
  <2>3. c \in Component /\ c \in 0..N
    BY <2>0 DEF Component
  <2>2. /\ cur' = [cur EXCEPT ![p] = c] /\ stops' = [stops EXCEPT ![c] = @ + 1]
        /\ Goto(p, "stopHook") /\ UNCHANGED <<started, pos, crashed, up>>
    BY <1>3 DEF StopHookBegins, CallStopHook
  <2> HIDE DEF c
  <2>4. cur' \in [Procs -> 0..N] /\ stops' \in [Component -> Nat]
    BY <2>2, <2>3
  <2>5. pc' = [pc EXCEPT ![p] = "stopHook"]
    BY <2>2 DEF Goto
  <2>6. TypeOK'
    BY <2>2, <2>4, <2>5
  <2>7. PlaceInv'
    BY <2>1, <2>2, <2>5
  <2>8. QED
    BY <2>6, <2>7
<1>4. CASE StopHookReturns(p)
  BY <1>4 DEF StopHookReturns, Goto
<1>5. CASE StopStartedReturns(p)
  BY <1>5 DEF StopStartedReturns, Goto
<1>6. QED
  BY <1>1, <1>2, <1>3, <1>4, <1>5 DEF StopStarted

\* Run between the start and the stop of the lifecycle, and Shutdown.
LEMMA RunTyped ==
  ASSUME TypeOK, PlaceInv, RunStep
  PROVE  TypeOK' /\ PlaceInv'
<1> USE ApplicationAssumption
    DEF TypeOK, LifecycleTypeOK, SchedulerTypeOK, PlaceInv, lcVars, schedVars, srvVars, Goto
<1>1. CASE RunSchedulerStart
  BY <1>1 DEF RunSchedulerStart, StartReturns, SchedulerStart
<1>2. ASSUME NEW t \in Tasks, RunSpawn(t)
      PROVE  TypeOK' /\ PlaceInv'
  BY <1>2 DEF RunSpawn, SpawnTask
<1>3. CASE RunLaunch
  BY <1>3 DEF RunLaunch
<1>4. CASE SelectCtxDone
  BY <1>4 DEF SelectCtxDone
<1>5. CASE SelectServerErr
  BY <1>5 DEF SelectServerErr
<1>6. QED
  BY <1>1, <1>2, <1>3, <1>4, <1>5 DEF RunStep

LEMMA ShutdownTyped ==
  ASSUME TypeOK, PlaceInv, NEW p \in Procs, ShutdownStep(p)
  PROVE  TypeOK' /\ PlaceInv'
<1> USE ApplicationAssumption, LifecycleAssumption
    DEF TypeOK, LifecycleTypeOK, SchedulerTypeOK, PlaceInv, lcVars, schedVars, srvVars, Goto,
        EnterStop
<1>1. CASE StopScheduler(p)
  BY <1>1 DEF StopScheduler, CancelTasks
<1>2. CASE SchedulerStopped(p)
  BY <1>2 DEF SchedulerStopped
<1>3. CASE ServerDrained(p)
  BY <1>3 DEF ServerDrained
<1>4. CASE DrainTimesOut(p)
  BY <1>4 DEF DrainTimesOut
<1>5. QED
  BY <1>1, <1>2, <1>3, <1>4 DEF ShutdownStep

\* The goroutines that touch neither loop.
LEMMA OthersTyped ==
  ASSUME TypeOK, PlaceInv,
         \/ \E t \in Tasks : TaskStep(t) \/ TaskExit(t)
         \/ ServerStep
         \/ \E r \in Requests : RequestStep(r)
         \/ EnvironmentStep
  PROVE  TypeOK' /\ PlaceInv'
<1> USE ApplicationAssumption
    DEF TypeOK, LifecycleTypeOK, SchedulerTypeOK, PlaceInv, lcVars, schedVars, srvVars, Goto
<1>1. ASSUME NEW t \in Tasks, TaskStep(t) \/ TaskExit(t)
      PROVE  TypeOK' /\ PlaceInv'
  BY <1>1 DEF TaskStep, TaskExit, TaskExits, TaskDelayElapses, TaskRuns, TaskReturns
<1>2. CASE ServerStep
  BY <1>2 DEF ServerStep, Listen, ServeClosed, ServeFails
<1>3. ASSUME NEW r \in Requests, RequestStep(r)
      PROVE  TypeOK' /\ PlaceInv'
  BY <1>3 DEF RequestStep, RequestArrives, RequestEnds
<1>4. CASE EnvironmentStep
  <2>1. CASE CancelCtx
    BY <2>1 DEF CancelCtx
  <2>2. CASE CallShutdown
    <3>1. /\ pc' = [pc EXCEPT !["ext"] = "schedStop"]
          /\ path' = [path EXCEPT !["ext"] = "shutdown"]
      BY <2>2 DEF CallShutdown
    <3>2. QED
      BY <2>2, <3>1 DEF CallShutdown
  <2>3. QED
    BY <1>4, <2>1, <2>2 DEF EnvironmentStep
<1>5. QED
  BY <1>1, <1>2, <1>3, <1>4

\* A step does one of these.
LEMMA NextTyped == TypeOK /\ PlaceInv /\ [Next]_vars => TypeOK' /\ PlaceInv'
<1> SUFFICES ASSUME TypeOK, PlaceInv, [Next]_vars
             PROVE  TypeOK' /\ PlaceInv'
  OBVIOUS
<1>1. ASSUME NEW p \in Procs, LifecycleStep(p)
      PROVE  TypeOK' /\ PlaceInv'
  BY <1>1, StartTyped, StopTyped DEF LifecycleStep
<1>2. CASE UNCHANGED vars
  BY <1>2 DEF vars, lcVars, schedVars, srvVars, TypeOK, LifecycleTypeOK, SchedulerTypeOK, PlaceInv
<1>3. QED
  BY <1>1, <1>2, RunTyped, ShutdownTyped, OthersTyped DEF Next, Over

\* TypeOK: no index leaves its range, and every goroutine is where the code is.
THEOREM TypeCorrect == Spec => []TypeOK
<1>1. Init => TypeOK /\ PlaceInv
  BY InitIInv DEF IInv
<1>2. QED
  BY <1>1, NextTyped, PTL DEF Spec

-----------------------------------------------------------------------------
(* WorkInv                                                                 *)

LEMMA WorkLifecycle ==
  ASSUME TypeOK, PlaceInv, WorkInv, NEW p \in Procs, LifecycleStep(p)
  PROVE  WorkInv'
<1> USE ApplicationAssumption, LifecycleAssumption
    DEF TypeOK, LifecycleTypeOK, SchedulerTypeOK, PlaceInv, WorkInv, schedVars, srvVars,
        Component, InFlight, AllTasksDone, Live, LifecycleStep
<1>1. CASE p = "run" /\ StartComponent(p)
  <2>1. /\ pc["run"] = "start" /\ pos["run"] \in 1..N /\ up' = up \cup {pos["run"]}
        /\ pos'["run"] = pos["run"] + 1 /\ pc' = pc
    BY <1>1 DEF StartComponent
  <2>2. up' = 1..(pos'["run"] - 1)
    BY <2>1
  <2>3. QED
    BY <2>1, <2>2
<1>2. CASE p = "run" /\ StartFails(p)
  BY <1>2 DEF StartFails, RollBack, EnterStop, Goto
<1>3. CASE StopStarted(p)
  <2>1. /\ pc[p] \in {"stop", "stopHook"} /\ up' = up
        /\ \/ pc' = pc
           \/ \E l \in {"stop", "stopHook", "done"} : pc' = [pc EXCEPT ![p] = l]
        /\ pos' = pos \/ pos' = [pos EXCEPT ![p] = @ - 1]
    BY <1>3 DEF StopStarted, StopIndexPanics, StopSkipped, StopHookBegins, CallStopHook,
                StopHookReturns, StopStartedReturns, InLoop, Goto
  <2>2. QED
    BY <2>1
<1>4. QED
  BY <1>1, <1>2, <1>3

LEMMA WorkRun ==
  ASSUME TypeOK, PlaceInv, WorkInv, RunStep
  PROVE  WorkInv'
<1> USE ApplicationAssumption, LifecycleAssumption
    DEF TypeOK, LifecycleTypeOK, SchedulerTypeOK, PlaceInv, WorkInv, lcVars, schedVars, srvVars,
        Component, InFlight, AllTasksDone, Live, Goto
<1>1. CASE RunSchedulerStart
  BY <1>1 DEF RunSchedulerStart, StartReturns, SchedulerStart
<1>2. ASSUME NEW t \in Tasks, RunSpawn(t)
      PROVE  WorkInv'
  BY <1>2 DEF RunSpawn, SpawnTask
<1>3. CASE RunLaunch
  BY <1>3 DEF RunLaunch
<1>4. CASE SelectCtxDone
  BY <1>4 DEF SelectCtxDone
<1>5. CASE SelectServerErr
  BY <1>5 DEF SelectServerErr
<1>6. QED
  BY <1>1, <1>2, <1>3, <1>4, <1>5 DEF RunStep

LEMMA WorkShutdown ==
  ASSUME TypeOK, PlaceInv, WorkInv, NEW p \in Procs, ShutdownStep(p)
  PROVE  WorkInv'
<1> USE ApplicationAssumption
    DEF TypeOK, LifecycleTypeOK, SchedulerTypeOK, PlaceInv, WorkInv, lcVars, schedVars, srvVars,
        InFlight, AllTasksDone, Live, Goto, EnterStop
<1>1. CASE StopScheduler(p)
  BY <1>1 DEF StopScheduler, CancelTasks
<1>2. CASE SchedulerStopped(p)
  BY <1>2 DEF SchedulerStopped
<1>3. CASE ServerDrained(p)
  BY <1>3 DEF ServerDrained
<1>4. CASE DrainTimesOut(p)
  BY <1>4 DEF DrainTimesOut
<1>5. QED
  BY <1>1, <1>2, <1>3, <1>4 DEF ShutdownStep

LEMMA WorkOthers ==
  ASSUME TypeOK, PlaceInv, WorkInv,
         \/ \E t \in Tasks : TaskStep(t) \/ TaskExit(t)
         \/ ServerStep
         \/ \E r \in Requests : RequestStep(r)
         \/ EnvironmentStep
  PROVE  WorkInv'
<1> USE ApplicationAssumption
    DEF TypeOK, LifecycleTypeOK, SchedulerTypeOK, PlaceInv, WorkInv, lcVars, schedVars, srvVars,
        InFlight, AllTasksDone, Live, Goto
<1>1. ASSUME NEW t \in Tasks, TaskStep(t) \/ TaskExit(t)
      PROVE  WorkInv'
  <2>1. /\ Live(t) /\ UNCHANGED <<pc, lcVars, serve, req>>
        /\ \E l \in {"tick", "running", "exited"} : task' = [task EXCEPT ![t] = l]
    BY <1>1 DEF TaskStep, TaskExit, TaskExits, SeesDone, TaskDelayElapses, TaskRuns, TaskReturns
  <2>2. task[t] # "off" /\ up = Component
        /\ pc["run"] \notin {"start", "drain", "stop", "stopHook", "done"}
    BY <2>1
  <2>3. QED
    BY <2>1, <2>2
<1>2. CASE ServerStep
  BY <1>2 DEF ServerStep, Listen, ServeClosed, ServeFails
<1>3. ASSUME NEW r \in Requests, RequestStep(r)
      PROVE  WorkInv'
  BY <1>3 DEF RequestStep, RequestArrives, RequestEnds
<1>4. CASE EnvironmentStep
  BY <1>4 DEF EnvironmentStep, CancelCtx, CallShutdown
<1>5. QED
  BY <1>1, <1>2, <1>3, <1>4

LEMMA NextWork == TypeOK /\ PlaceInv /\ WorkInv /\ [Next]_vars => WorkInv'
<1> SUFFICES ASSUME TypeOK, PlaceInv, WorkInv, [Next]_vars
             PROVE  WorkInv'
  OBVIOUS
<1>1. CASE UNCHANGED vars
  BY <1>1 DEF vars, lcVars, schedVars, srvVars, WorkInv, InFlight, AllTasksDone, Live
<1>2. QED
  BY <1>1, WorkLifecycle, WorkRun, WorkShutdown, WorkOthers DEF Next, Over

\* StartedBeforeWork: what runs, runs on components that are all initialised.
THEOREM WorkAfterStart == Spec => []StartedBeforeWork
<1>1. Init => TypeOK /\ PlaceInv /\ WorkInv
  BY InitIInv DEF IInv
<1>2. WorkInv => StartedBeforeWork
  BY DEF WorkInv, StartedBeforeWork, Live
<1>3. QED
  BY <1>1, <1>2, NextTyped, NextWork, PTL DEF Spec

-----------------------------------------------------------------------------
(* ServerInv                                                               *)

LEMMA ServerLifecycle ==
  ASSUME TypeOK, PlaceInv, WorkInv, ServerInv, NEW p \in Procs, LifecycleStep(p)
  PROVE  ServerInv'
<1> USE ApplicationAssumption
    DEF TypeOK, PlaceInv, WorkInv, ServerInv, Calm, schedVars, srvVars, InFlight, LifecycleStep
<1>1. CASE p = "run" /\ StartComponent(p)
  BY <1>1 DEF StartComponent
<1>2. CASE p = "run" /\ StartFails(p)
  BY <1>2 DEF StartFails, RollBack, EnterStop, Goto
<1>3. CASE StopStarted(p)
  <2>1. /\ pc[p] \in {"stop", "stopHook"}
        /\ \/ pc' = pc
           \/ \E l \in {"stop", "stopHook", "done"} : pc' = [pc EXCEPT ![p] = l]
    BY <1>3 DEF StopStarted, StopIndexPanics, StopSkipped, StopHookBegins, CallStopHook,
                StopHookReturns, StopStartedReturns, InLoop, Goto
  <2>2. QED
    BY <2>1
<1>4. QED
  BY <1>1, <1>2, <1>3

LEMMA ServerRun ==
  ASSUME TypeOK, PlaceInv, WorkInv, ServerInv, RunStep
  PROVE  ServerInv'
<1> USE ApplicationAssumption
    DEF TypeOK, PlaceInv, WorkInv, ServerInv, Calm, lcVars, schedVars, srvVars, InFlight, Goto
<1>1. CASE RunSchedulerStart
  BY <1>1 DEF RunSchedulerStart, StartReturns, SchedulerStart
<1>2. ASSUME NEW t \in Tasks, RunSpawn(t)
      PROVE  ServerInv'
  BY <1>2 DEF RunSpawn, SpawnTask
<1>3. CASE RunLaunch
  BY <1>3 DEF RunLaunch
<1>4. CASE SelectCtxDone
  BY <1>4 DEF SelectCtxDone
<1>5. CASE SelectServerErr
  BY <1>5 DEF SelectServerErr
<1>6. QED
  BY <1>1, <1>2, <1>3, <1>4, <1>5 DEF RunStep

LEMMA ServerShutdown ==
  ASSUME TypeOK, PlaceInv, WorkInv, ServerInv, NEW p \in Procs, ShutdownStep(p)
  PROVE  ServerInv'
<1> USE ApplicationAssumption
    DEF TypeOK, PlaceInv, WorkInv, ServerInv, Calm, lcVars, schedVars, srvVars, InFlight, Goto,
        EnterStop
<1>1. CASE StopScheduler(p)
  BY <1>1 DEF StopScheduler, CancelTasks
<1>2. CASE SchedulerStopped(p)
  BY <1>2 DEF SchedulerStopped
<1>3. CASE ServerDrained(p)
  BY <1>3 DEF ServerDrained, Drained
<1>4. CASE DrainTimesOut(p)
  BY <1>4 DEF DrainTimesOut
<1>5. QED
  BY <1>1, <1>2, <1>3, <1>4 DEF ShutdownStep

LEMMA ServerOthers ==
  ASSUME TypeOK, PlaceInv, WorkInv, ServerInv,
         \/ \E t \in Tasks : TaskStep(t) \/ TaskExit(t)
         \/ ServerStep
         \/ \E r \in Requests : RequestStep(r)
         \/ EnvironmentStep
  PROVE  ServerInv'
<1> USE ApplicationAssumption
    DEF TypeOK, PlaceInv, WorkInv, ServerInv, Calm, lcVars, schedVars, srvVars, InFlight, Goto
<1>1. ASSUME NEW t \in Tasks, TaskStep(t) \/ TaskExit(t)
      PROVE  ServerInv'
  BY <1>1 DEF TaskStep, TaskExit
<1>2. CASE ServerStep
  BY <1>2 DEF ServerStep, Listen, ServeClosed, ServeFails
<1>3. ASSUME NEW r \in Requests, RequestStep(r)
      PROVE  ServerInv'
  BY <1>3 DEF RequestStep, RequestArrives, RequestEnds
<1>4. CASE EnvironmentStep
  BY <1>4 DEF EnvironmentStep, CancelCtx, CallShutdown
<1>5. QED
  BY <1>1, <1>2, <1>3, <1>4

LEMMA NextServer == TypeOK /\ PlaceInv /\ WorkInv /\ ServerInv /\ [Next]_vars => ServerInv'
<1> SUFFICES ASSUME TypeOK, PlaceInv, WorkInv, ServerInv, [Next]_vars
             PROVE  ServerInv'
  OBVIOUS
<1>1. CASE UNCHANGED vars
  BY <1>1 DEF vars, lcVars, schedVars, srvVars, ServerInv, Calm, InFlight
<1>2. QED
  BY <1>1, ServerLifecycle, ServerRun, ServerShutdown, ServerOthers DEF Next, Over

-----------------------------------------------------------------------------
(* LoopInv                                                                 *)

\* Whatever leaves the loops' variables alone and moves no goroutine into or
\* out of a loop keeps it; so does anything once another goroutine stops.
LEMMA LoopElsewhere ==
  ASSUME LoopInv, lcVars' = lcVars,
         Calm' => Calm,
         pc'["run"] = pc["run"]
           \/ /\ pc["run"] \in {"start", "spawn", "select", "schedStop", "wait", "drain"}
              /\ pc'["run"] \in {"spawn", "select", "schedStop", "wait", "drain"}
  PROVE  LoopInv'
BY DEF LoopInv, lcVars, Calm, StopsAfter, Called

\* A goroutine enters the stop loop at the last started component.
LEMMA LoopEntered ==
  ASSUME TypeOK, LoopInv, Calm, EnterStop("run"),
         pc["run"] \in {"start", "wait", "drain"},
         UNCHANGED <<started, cur, crashed, up, stops>>
  PROVE  LoopInv'
<1> USE ApplicationAssumption, LifecycleAssumption
<1>1. /\ pc'["run"] = "stop" /\ pos'["run"] = Len(started)
      /\ up = 1..Len(started) /\ Len(started) \in Nat
      /\ stops = [c \in Component |-> 0]
  BY LenProperties DEF TypeOK, LifecycleTypeOK, LoopInv, EnterStop, Goto
<1>2. \A c \in Component : ~ Called(c, Len(started))'
  BY <1>1 DEF Called, Component
<1>3. StopsAfter(pos["run"])'
  BY <1>1, <1>2 DEF StopsAfter, Called
<1>4. QED
  BY <1>1, <1>3 DEF LoopInv

LEMMA LoopStart ==
  ASSUME TypeOK, PlaceInv, LoopInv, Calm, StartComponent("run")
  PROVE  LoopInv'
<1> USE ApplicationAssumption, LifecycleAssumption
<1>1. /\ pc["run"] = "start" /\ pos["run"] \in Component
      /\ pc' = pc /\ stops' = stops /\ cur' = cur
      /\ started' = Append(started, pos["run"]) /\ up' = up \cup {pos["run"]}
      /\ pos' = [pos EXCEPT !["run"] = @ + 1]
  BY DEF StartComponent
<1>2. pos["run"] \in Nat /\ Len(started) = pos["run"] - 1 /\ pos'["run"] = pos["run"] + 1
      /\ Len(started) \in Nat /\ started \in Seq(Component)
  BY <1>1, LenProperties DEF LoopInv, Component, TypeOK, LifecycleTypeOK
<1>3. /\ Len(started') = pos["run"]
      /\ \A i \in 1..Len(started) : started'[i] = started[i]
      /\ started'[pos["run"]] = pos["run"]
  BY <1>1, <1>2, AppendProperties
<1>4. \A i \in 1..Len(started') : started'[i] = i
  BY <1>1, <1>2, <1>3 DEF LoopInv
<1>5. up' = 1..Len(started')
  BY <1>1, <1>2, <1>3 DEF LoopInv
<1>6. QED
  BY <1>1, <1>2, <1>3, <1>4, <1>5 DEF LoopInv

LEMMA LoopStop ==
  ASSUME TypeOK, PlaceInv, LoopInv, Calm, StopStarted("run")
  PROVE  LoopInv'
<1> USE ApplicationAssumption, LifecycleAssumption
<1>1. /\ pos["run"] \in Nat /\ Len(started) \in Nat /\ started \in Seq(Component)
      /\ stops \in [Component -> Nat]
      /\ pc["run"] \in {"stop", "stopHook"} => pos["run"] <= Len(started) /\ up = 1..Len(started)
      /\ \A i \in 1..Len(started) : started[i] = i
      /\ "run" \in DOMAIN pc /\ "run" \in DOMAIN pos /\ "run" \in DOMAIN cur
      /\ pc["run"] \in {"stop", "stopHook"}
  BY LenProperties DEF TypeOK, LifecycleTypeOK, LoopInv, StopStarted, StopIndexPanics,
     StopSkipped, StopHookBegins, StopHookReturns, StopStartedReturns, InLoop
<1>2. CASE StopIndexPanics("run")
  BY <1>1, <1>2 DEF StopIndexPanics, InLoop
<1>3. CASE StopSkipped("run")
  <2>1. /\ pc["run"] = "stop" /\ pos["run"] \in 1..Len(started)
        /\ pos["run"] \notin HasStop /\ pos'["run"] = pos["run"] - 1
        /\ UNCHANGED <<pc, started, cur, up, stops>>
    BY <1>1, <1>3 DEF StopSkipped, InLoop
  <2>2. StopsAfter(pos["run"])
    BY <2>1 DEF LoopInv
  <2>3. StopsAfter(pos["run"])'
    BY <1>1, <2>1, <2>2 DEF StopsAfter, Called, Component
  <2>4. QED
    BY <1>1, <2>1, <2>3 DEF LoopInv
<1>4. CASE StopHookBegins("run")
  <2> DEFINE k == pos["run"]
  <2>1. /\ pc["run"] = "stop" /\ k \in 1..Len(started) /\ started[k] = k
        /\ k \in HasStop /\ k \in Component /\ k \in up
    BY <1>1, <1>4 DEF StopHookBegins, CallStopHook, InLoop
  <2>2. /\ stops' = [stops EXCEPT ![k] = @ + 1] /\ cur'["run"] = k /\ pc'["run"] = "stopHook"
        /\ UNCHANGED <<started, pos, up>>
    BY <1>1, <1>4, <2>1 DEF StopHookBegins, CallStopHook, Goto
  <2>3. StopsAfter(k)
    BY <2>1 DEF LoopInv
  <2>4. StopsAfter(k - 1)'
    <3>1. \A c \in Component : Called(c, k - 1)' <=> Called(c, k) \/ c = k
      BY <1>1, <2>1, <2>2 DEF Called, Component
    <3>2. ~ Called(k, k) /\ stops[k] = 0
      BY <1>1, <2>1, <2>3 DEF StopsAfter, Called
    <3>3. \A c \in Component : stops'[c] = IF c = k THEN 1 ELSE stops[c]
      BY <1>1, <2>2, <3>2
    <3>4. QED
      BY <2>3, <3>1, <3>2, <3>3 DEF StopsAfter
  <2>5. QED
    BY <1>1, <2>1, <2>2, <2>4 DEF LoopInv
<1>5. CASE StopHookReturns("run")
  <2>1. /\ pc["run"] = "stopHook" /\ pc'["run"] = "stop" /\ pos'["run"] = pos["run"] - 1
        /\ UNCHANGED <<started, cur, up, stops>>
    BY <1>1, <1>5 DEF StopHookReturns, Goto
  <2>2. StopsAfter(pos["run"] - 1)
    BY <2>1 DEF LoopInv
  <2>3. StopsAfter(pos["run"])'
    BY <2>1, <2>2 DEF StopsAfter, Called
  <2>4. QED
    BY <1>1, <2>1, <2>3 DEF LoopInv
<1>6. CASE StopStartedReturns("run")
  <2>1. /\ pc["run"] = "stop" /\ pos["run"] = 0 /\ pc'["run"] = "done"
        /\ UNCHANGED <<up, stops>>
    BY <1>1, <1>6 DEF StopStartedReturns, Goto
  <2>2. StopsAfter(0)
    BY <2>1 DEF LoopInv
  <2>3. StopsAfter(0)'
    BY <2>1, <2>2 DEF StopsAfter, Called
  <2>4. QED
    BY <2>1, <2>3 DEF LoopInv
<1>7. QED
  BY <1>2, <1>3, <1>4, <1>5, <1>6 DEF StopStarted

LEMMA NextLoop == TypeOK /\ PlaceInv /\ LoopInv /\ [Next]_vars => LoopInv'
<1> SUFFICES ASSUME TypeOK, PlaceInv, LoopInv, [Next]_vars
             PROVE  LoopInv'
  OBVIOUS
<1> USE ApplicationAssumption
<1>1. CASE UNCHANGED vars
  BY <1>1 DEF vars, lcVars, LoopInv, Calm, StopsAfter, Called
<1>2. CASE RunStep
  BY <1>2, LoopElsewhere
     DEF RunStep, RunSchedulerStart, StartReturns, RunSpawn, RunLaunch, SelectCtxDone,
         SelectServerErr, Goto, Calm, TypeOK
<1>3. ASSUME NEW p \in Procs, LifecycleStep(p)
      PROVE  LoopInv'
  <2>1. CASE p = "run" /\ Calm
    BY <1>3, <2>1, LoopStart, LoopStop, LoopEntered DEF LifecycleStep, StartFails, RollBack
  <2>2. CASE ~ Calm
    <3>1. ~ Calm'
      BY <1>3, <2>2 DEF LifecycleStep, StartComponent, StartFails, RollBack, EnterStop, StopStarted,
         StopIndexPanics, StopSkipped, StopHookBegins, CallStopHook, StopHookReturns,
         StopStartedReturns, Goto, Calm, TypeOK
    <3>2. QED
      BY <3>1 DEF LoopInv
  <2>3. CASE p = "ext" /\ Calm
    BY <1>3, <2>3 DEF LifecycleStep, StopStarted, StopIndexPanics, StopSkipped, StopHookBegins,
       StopHookReturns, StopStartedReturns, InLoop, Calm
  <2>4. QED
    BY <2>1, <2>2, <2>3
<1>4. ASSUME NEW p \in Procs, ShutdownStep(p)
      PROVE  LoopInv'
  <2>1. CASE p = "run" /\ Calm
    <3>1. CASE StopScheduler("run")
      BY <2>1, <3>1, LoopElsewhere DEF StopScheduler, Goto, TypeOK
    <3>2. CASE SchedulerStopped("run")
      <4>1. CASE path["run"] = "shutdown"
        BY <2>1, <3>2, <4>1, LoopElsewhere DEF SchedulerStopped, Goto, TypeOK, lcVars
      <4>2. CASE path["run"] # "shutdown"
        BY <2>1, <3>2, <4>2, LoopEntered DEF SchedulerStopped
      <4>3. QED
        BY <4>1, <4>2
    <3>3. CASE ServerDrained("run")
      BY <2>1, <3>3, LoopEntered DEF ServerDrained
    <3>4. CASE DrainTimesOut("run")
      BY <2>1, <3>4, LoopEntered DEF DrainTimesOut
    <3>5. QED
      BY <1>4, <2>1, <3>1, <3>2, <3>3, <3>4 DEF ShutdownStep
  <2>2. CASE ~ Calm
    <3>1. ~ Calm'
      BY <1>4, <2>2 DEF ShutdownStep, StopScheduler, SchedulerStopped, ServerDrained,
         DrainTimesOut, EnterStop, Goto, Calm, TypeOK
    <3>2. QED
      BY <3>1 DEF LoopInv
  <2>3. CASE p = "ext" /\ Calm
    BY <1>4, <2>3 DEF ShutdownStep, StopScheduler, SchedulerStopped, ServerDrained,
       DrainTimesOut, Calm
  <2>4. QED
    BY <2>1, <2>2, <2>3
<1>5. CASE \/ \E t \in Tasks : TaskStep(t) \/ TaskExit(t)
           \/ ServerStep
           \/ \E r \in Requests : RequestStep(r)
           \/ EnvironmentStep
  BY <1>5, LoopElsewhere
     DEF TaskStep, TaskExit, ServerStep, Listen, ServeClosed, ServeFails, RequestStep,
         RequestArrives, RequestEnds, EnvironmentStep, CancelCtx, CallShutdown, Goto, Calm, TypeOK
<1>6. QED
  BY <1>1, <1>2, <1>3, <1>4, <1>5 DEF Next, Over

LEMMA Invariance == Spec => []IInv
<1>1. IInv /\ [Next]_vars => IInv'
  BY NextTyped, NextWork, NextServer, NextLoop DEF IInv
<1>2. QED
  BY <1>1, InitIInv, PTL DEF Spec

\* ReverseOrder: in a teardown of Run's own, and in a rollback, the hooks after
\* the running one have been called and those before it have not.
THEOREM StopsInReverse == Spec => []ReverseOrder
<1>1. IInv => ReverseOrder
  <2> SUFFICES ASSUME IInv, Calm, pc["run"] = "stopHook", NEW c \in HasStop \cap up
               PROVE  stops[c] = IF c >= cur["run"] THEN 1 ELSE 0
    BY DEF ReverseOrder
  <2>1. pos["run"] \in Nat /\ c \in Component /\ c \in Nat
    BY ApplicationAssumption, LifecycleAssumption DEF IInv, TypeOK, LifecycleTypeOK, Component
  <2>2. cur["run"] = pos["run"] /\ StopsAfter(pos["run"] - 1)
    BY DEF IInv, LoopInv
  <2>3. c > pos["run"] - 1 <=> c >= cur["run"]
    BY <2>1, <2>2
  <2>4. QED
    BY <2>1, <2>2, <2>3 DEF StopsAfter, Called
<1>2. QED
  BY <1>1, Invariance, PTL

\* StoppedExactlyOnce: when Run returns, each initialised component's stop
\* hook, and no other, has been called once.
THEOREM StopsOnce == Spec => []StoppedExactlyOnce
<1>1. IInv => StoppedExactlyOnce
  BY LifecycleAssumption
     DEF IInv, LoopInv, StopsAfter, Called, StoppedExactlyOnce, Component
<1>2. QED
  BY <1>1, Invariance, PTL

\* QuiescedBeforeStop: no task, and no request the drain could have waited for,
\* is left when Run calls a stop hook.
THEOREM QuietAtStop == Spec => []QuiescedBeforeStop
<1>1. IInv => QuiescedBeforeStop
  BY DEF IInv, WorkInv, ServerInv, QuiescedBeforeStop
<1>2. QED
  BY <1>1, Invariance, PTL

-----------------------------------------------------------------------------
(* The refinement of ComponentLife                                         *)

\* What Run and Shutdown can reach through l.started was initialised, and only
\* that is ever stopped; a request needs the server, and without a second
\* Shutdown a drain that gave up has closed it.
HeldInv ==
  /\ \A i \in 1..Len(started) : started[i] \in up
  /\ \A c \in Component : stops[c] > 0 => c \in up
  /\ InFlight # {} => HasServer
  /\ Calm /\ drainTimedOut => inShutdown

LEMMA InitHeld == Init => HeldInv
BY DEF Init, LifecycleInit, HeldInv, InFlight

LEMMA HeldStart ==
  ASSUME TypeOK, HeldInv, StartComponent("run")
  PROVE  /\ \A i \in 1..Len(started') : started'[i] \in up'
         /\ \A c \in Component : stops'[c] > 0 => c \in up'
<1>1. /\ pos["run"] \in Component /\ started \in Seq(Component) /\ stops' = stops
      /\ started' = Append(started, pos["run"]) /\ up' = up \cup {pos["run"]}
  BY DEF StartComponent, TypeOK, LifecycleTypeOK
<1>2. /\ Len(started') = Len(started) + 1 /\ Len(started) \in Nat
      /\ \A i \in 1..Len(started) : started'[i] = started[i]
      /\ started'[Len(started) + 1] = pos["run"]
  BY <1>1, AppendProperties, LenProperties
<1>3. \A i \in 1..Len(started') : i \in 1..Len(started) \/ i = Len(started) + 1
  BY <1>2
<1>4. QED
  BY <1>1, <1>2, <1>3 DEF HeldInv

LEMMA HeldStop ==
  ASSUME TypeOK, HeldInv, NEW p \in Procs, StopStarted(p)
  PROVE  /\ \A i \in 1..Len(started') : started'[i] \in up'
         /\ \A c \in Component : stops'[c] > 0 => c \in up'
<1>1. CASE StopHookBegins(p)
  <2> DEFINE c == started[pos[p]]
  <2>1. /\ pos[p] \in 1..Len(started) /\ stops' = [stops EXCEPT ![c] = @ + 1]
        /\ UNCHANGED <<started, up>>
    BY <1>1, LenProperties DEF StopHookBegins, CallStopHook, InLoop, TypeOK, LifecycleTypeOK
  <2>2. c \in up /\ stops \in [Component -> Nat]
    BY <2>1 DEF HeldInv, TypeOK, LifecycleTypeOK
  <2> HIDE DEF c
  <2>3. QED
    BY <2>1, <2>2 DEF HeldInv
<1>2. CASE StopStartedReturns(p)
  <2>1. started' = <<>> /\ UNCHANGED <<up, stops>>
    BY <1>2 DEF StopStartedReturns
  <2>2. Len(started') = 0
    BY <2>1
  <2>3. QED
    BY <2>1, <2>2 DEF HeldInv
<1>3. CASE StopIndexPanics(p) \/ StopSkipped(p) \/ StopHookReturns(p)
  BY <1>3 DEF StopIndexPanics, StopSkipped, StopHookReturns, HeldInv
<1>4. QED
  BY <1>1, <1>2, <1>3 DEF StopStarted

LEMMA HeldLifecycle ==
  ASSUME TypeOK, PlaceInv, HeldInv, NEW p \in Procs, LifecycleStep(p)
  PROVE  HeldInv'
<1>1. UNCHANGED <<inShutdown, req, drainTimedOut>>
  BY DEF LifecycleStep, srvVars
<1>2. Calm' => Calm
  <2>1. \/ pc' = pc
        \/ \E l \in {"stop", "stopHook", "done"} : pc' = [pc EXCEPT ![p] = l]
    BY DEF LifecycleStep, StartComponent, StartFails, RollBack, EnterStop, StopStarted, StopIndexPanics,
       StopSkipped, StopHookBegins, CallStopHook, StopHookReturns, StopStartedReturns, Goto
  <2>2. QED
    BY <2>1, ApplicationAssumption DEF Calm, TypeOK
<1>3. /\ \A i \in 1..Len(started') : started'[i] \in up'
      /\ \A c \in Component : stops'[c] > 0 => c \in up'
  <2>1. CASE p = "run" /\ StartComponent(p)
    BY <2>1, HeldStart
  <2>2. CASE p = "run" /\ StartFails(p)
    BY <2>2 DEF StartFails, RollBack, HeldInv
  <2>3. CASE StopStarted(p)
    BY <2>3, HeldStop
  <2>4. QED
    BY <2>1, <2>2, <2>3 DEF LifecycleStep
<1>4. QED
  BY <1>1, <1>2, <1>3 DEF HeldInv, InFlight

LEMMA NextHeld ==
  TypeOK /\ PlaceInv /\ WorkInv /\ ServerInv /\ HeldInv /\ [Next]_vars => HeldInv'
<1> SUFFICES ASSUME TypeOK, PlaceInv, WorkInv, ServerInv, HeldInv, [Next]_vars
             PROVE  HeldInv'
  OBVIOUS
<1> USE ApplicationAssumption
<1>1. CASE UNCHANGED vars
  BY <1>1 DEF vars, lcVars, srvVars, HeldInv, Calm, InFlight
<1>2. CASE RunStep
  BY <1>2 DEF RunStep, RunSchedulerStart, RunSpawn, RunLaunch, SelectCtxDone, SelectServerErr,
     lcVars, srvVars, HeldInv, Calm, InFlight, Goto, TypeOK
<1>3. ASSUME NEW p \in Procs, ShutdownStep(p)
      PROVE  HeldInv'
  <2> USE DEF lcVars, srvVars, HeldInv, Calm, InFlight, Goto, EnterStop, TypeOK
  <2>1. CASE StopScheduler(p)
    BY <2>1 DEF StopScheduler
  <2>2. CASE SchedulerStopped(p)
    BY <2>2 DEF SchedulerStopped, ServerInv
  <2>3. CASE ServerDrained(p)
    BY <2>3 DEF ServerDrained
  <2>4. CASE DrainTimesOut(p)
    BY <2>4 DEF DrainTimesOut, ServerInv
  <2>5. QED
    BY <1>3, <2>1, <2>2, <2>3, <2>4 DEF ShutdownStep
<1>4. CASE \E t \in Tasks : TaskStep(t) \/ TaskExit(t)
  BY <1>4 DEF TaskStep, TaskExit, lcVars, srvVars, HeldInv, Calm, InFlight
<1>5. CASE ServerStep
  BY <1>5 DEF ServerStep, Listen, ServeClosed, ServeFails, lcVars, HeldInv, Calm, InFlight
<1>6. ASSUME NEW r \in Requests, RequestStep(r)
      PROVE  HeldInv'
  <2>1. UNCHANGED <<pc, lcVars, inShutdown, drainTimedOut>>
    BY <1>6 DEF RequestStep, RequestArrives, RequestEnds
  <2>2. InFlight' # {} => HasServer
    <3>1. CASE RequestArrives(r)
      BY <3>1 DEF RequestArrives, ServerInv
    <3>2. CASE RequestEnds(r)
      BY <3>2 DEF RequestEnds, HeldInv, InFlight
    <3>3. QED
      BY <1>6, <3>1, <3>2 DEF RequestStep
  <2>3. QED
    BY <2>1, <2>2 DEF lcVars, HeldInv, Calm
<1>7. CASE EnvironmentStep
  BY <1>7 DEF EnvironmentStep, CancelCtx, CallShutdown, lcVars, srvVars, HeldInv, Calm, InFlight, Goto, TypeOK
<1>8. QED
  BY <1>1, <1>2, <1>3, <1>4, <1>5, <1>6, <1>7, HeldLifecycle DEF Next, Over

RInv == IInv /\ HeldInv

\* A step that no component can see.
LEMMA Unseen ==
  ASSUME UNCHANGED <<up, stops, req, drainTimedOut>>,
         AllTasksDone' <=> AllTasksDone, serverErr' = "error" <=> serverErr = "error",
         Calm' <=> Calm, pc'["run"] = "done" <=> pc["run"] = "done"
  PROVE  UNCHANGED Life!vars
BY DEF Life!vars, LifeOf, WorkOn, InFlight

\* A component's state, read off the history.
LEMMA LifeStates ==
  ASSUME RInv, NEW c \in Component
  PROVE  /\ LifeOf[c] = "new" <=> c \notin up
         /\ LifeOf[c] = "up" <=> c \in up /\ stops[c] = 0
BY DEF RInv, IInv, TypeOK, LifecycleTypeOK, HeldInv, LifeOf

\* Without a second Shutdown, until the stop loop runs every hook is unused.
LEMMA NoneStopped ==
  ASSUME RInv, Calm, pc["run"] \in {"start", "spawn", "select", "schedStop", "wait", "drain"},
         NEW c \in Component, c \in up
  PROVE  LifeOf[c] = "up"
BY LifeStates DEF RInv, IInv, LoopInv

\* While the loop runs, nothing else does, as far as Run can tell.
LEMMA Quiet ==
  ASSUME RInv, Calm, pc["run"] \in {"stop", "stopHook"}
  PROVE  Life!AtRest
BY DEF RInv, IInv, WorkInv, ServerInv, Life!AtRest, WorkOn

LEMMA StartSeen ==
  ASSUME RInv, StartComponent("run"),
         UNCHANGED <<schedVars, ctxDone, path, serverErr, srvVars>>
  PROVE  \E c \in Life!Component : Life!Start(c)
<1> DEFINE c == pos["run"]
<1>1. /\ c \in Component /\ pc["run"] = "start" /\ up' = up \cup {c}
      /\ UNCHANGED <<pc, stops>>
  BY DEF StartComponent
<1>2. up = 1..(c - 1) /\ c \in Nat
  BY <1>1, LifecycleAssumption DEF RInv, IInv, WorkInv, Component
<1>3. c \notin up /\ LifeOf[c] = "new" /\ stops[c] = 0
  BY <1>1, <1>2, LifeStates DEF RInv, IInv, TypeOK, LifecycleTypeOK, HeldInv
<1>4. \A d \in 1..(c - 1) : d \in Component /\ d \in up
  BY <1>1, <1>2, LifecycleAssumption DEF Component
<1>5. \A d \in 1..(c - 1) : LifeOf[d] # "new" /\ (Calm => LifeOf[d] = "up")
  BY <1>1, <1>4, LifeStates, NoneStopped
<1>6. LifeOf' = [LifeOf EXCEPT ![c] = "up"]
  BY <1>1, <1>3 DEF LifeOf
<1>7. WorkOn' = WorkOn /\ Calm' = Calm
  BY <1>1 DEF WorkOn, AllTasksDone, Live, InFlight, Calm, schedVars, srvVars
<1>8. c \in Life!Component
  BY <1>1 DEF Component, Life!Component
<1> HIDE DEF c
<1>9. Life!Start(c)
  BY <1>1, <1>3, <1>5, <1>6, <1>7 DEF Life!Start, srvVars
<1>10. QED
  BY <1>8, <1>9

LEMMA StopSeen ==
  ASSUME RInv, NEW p \in Procs, StopHookBegins(p),
         UNCHANGED <<schedVars, ctxDone, path, serverErr, srvVars>>
  PROVE  \E c \in Life!Component : Life!Stop(c)
<1> DEFINE c == started[pos[p]]
<1>1. /\ pc[p] = "stop" /\ pos[p] \in 1..Len(started) /\ c \in HasStop
      /\ stops' = [stops EXCEPT ![c] = @ + 1]
      /\ pc' = [pc EXCEPT ![p] = "stopHook"] /\ up' = up
  BY LenProperties DEF StopHookBegins, CallStopHook, InLoop, Goto, RInv, IInv, TypeOK, LifecycleTypeOK
<1>2. c \in Component /\ c \in up /\ stops \in [Component -> Nat]
  BY <1>1, LifecycleAssumption DEF RInv, HeldInv, IInv, TypeOK, LifecycleTypeOK, Component
<1>3. Calm => /\ p = "run" /\ c = pos["run"] /\ StopsAfter(c)
  BY <1>1, ApplicationAssumption DEF RInv, IInv, LoopInv, Calm
<1>4. Calm => /\ LifeOf[c] = "up"
              /\ \A d \in HasStop : d > c => LifeOf[d] # "up"
  <2> SUFFICES ASSUME Calm
               PROVE  /\ LifeOf[c] = "up"
                      /\ \A d \in HasStop : d > c => LifeOf[d] # "up"
    OBVIOUS
  <2>1. ~ Called(c, c) /\ stops[c] = 0
    BY <1>2, <1>3, LifecycleAssumption DEF StopsAfter, Called, Component
  <2>2. ASSUME NEW d \in HasStop, d > c
        PROVE  LifeOf[d] # "up"
    BY <1>3, <2>2, LifeStates, LifecycleAssumption DEF StopsAfter, Called, Component
  <2>3. QED
    BY <1>2, <2>1, <2>2, LifeStates
<1>5. Calm => pc["run"] = "stop"
  BY <1>1, <1>3
<1> HIDE DEF c
<1>6. LifeOf' = [LifeOf EXCEPT ![c] = "stopped"]
  <2>1. stops'[c] > 0 /\ \A d \in Component : d # c => stops'[d] = stops[d]
    BY <1>1, <1>2
  <2>2. QED
    BY <1>1, <1>2, <2>1 DEF LifeOf
<1>7. /\ WorkOn' = WorkOn /\ Calm' = Calm
      /\ pc'["run"] = "done" <=> pc["run"] = "done"
  BY <1>1, ApplicationAssumption
     DEF WorkOn, AllTasksDone, Live, InFlight, Calm, schedVars, srvVars, RInv, IInv, TypeOK
<1>8. Life!Stop(c)
  BY <1>1, <1>2, <1>4, <1>5, <1>6, <1>7, LifeStates, Quiet DEF Life!Stop, srvVars
<1>9. QED
  BY <1>2, <1>8 DEF Component, Life!Component

LEMMA ReturnSeen ==
  ASSUME RInv, StopStartedReturns("run"),
         UNCHANGED <<schedVars, ctxDone, path, serverErr, srvVars>>
  PROVE  Life!Return
<1>1. /\ pc["run"] = "stop" /\ pos["run"] = 0 /\ pc' = [pc EXCEPT !["run"] = "done"]
      /\ UNCHANGED <<up, stops>>
  BY ApplicationAssumption
     DEF StopStartedReturns, Goto, RInv, IInv, TypeOK, LifecycleTypeOK
<1>2. ASSUME Calm, NEW c \in HasStop
      PROVE  LifeOf[c] # "up"
  <2>1. StopsAfter(0) /\ c \in Component /\ c > 0
    BY <1>1, <1>2, LifecycleAssumption DEF RInv, IInv, LoopInv, Component
  <2>2. QED
    BY <2>1, LifeStates DEF StopsAfter, Called
<1>3. LifeOf' = LifeOf /\ WorkOn' = WorkOn /\ Calm' = Calm /\ pc'["run"] = "done"
  BY <1>1, ApplicationAssumption
     DEF LifeOf, WorkOn, AllTasksDone, Live, InFlight, Calm, schedVars, srvVars, RInv, IInv, TypeOK
<1>4. QED
  BY <1>1, <1>2, <1>3, Quiet DEF Life!Return, srvVars

LEMMA LifecycleSeen ==
  ASSUME RInv, NEW p \in Procs, LifecycleStep(p)
  PROVE  [Life!Next]_(Life!vars)
<1>0. UNCHANGED <<schedVars, ctxDone, path, serverErr, srvVars>>
  BY DEF LifecycleStep
<1>1. CASE p = "run" /\ StartComponent(p)
  BY <1>0, <1>1, StartSeen DEF Life!Next
<1>2. CASE StopHookBegins(p)
  BY <1>0, <1>2, StopSeen DEF Life!Next
<1>3. CASE p = "run" /\ StopStartedReturns(p)
  BY <1>0, <1>3, ReturnSeen DEF Life!Next
<1>4. CASE \/ p = "run" /\ StartFails(p)
           \/ StopIndexPanics(p) \/ StopSkipped(p) \/ StopHookReturns(p)
           \/ p # "run" /\ StopStartedReturns(p)
  <2>1. /\ UNCHANGED <<up, stops>>
        /\ \/ pc' = pc
           \/ p = "run" /\ pc[p] # "done" /\ pc' = [pc EXCEPT ![p] = "stop"]
           \/ pc[p] = "stopHook" /\ pc' = [pc EXCEPT ![p] = "stop"]
           \/ p # "run" /\ pc[p] = "stop" /\ pc' = [pc EXCEPT ![p] = "done"]
    BY <1>4 DEF StartFails, RollBack, EnterStop, StopIndexPanics, StopSkipped, StopHookReturns,
       StopStartedReturns, Goto
  <2>2. (Calm' <=> Calm) /\ (pc'["run"] = "done" <=> pc["run"] = "done")
    BY <2>1, ApplicationAssumption DEF Calm, RInv, IInv, TypeOK
  <2>3. (AllTasksDone' <=> AllTasksDone) /\ UNCHANGED <<req, drainTimedOut, serverErr>>
    BY <1>0 DEF AllTasksDone, Live, schedVars, srvVars
  <2>4. QED
    BY <2>1, <2>2, <2>3, Unseen
<1>5. QED
  BY <1>1, <1>2, <1>3, <1>4 DEF LifecycleStep, StopStarted

\* All components are up, and still up if nobody interferes: work may begin.
LEMMA WorkSeen ==
  ASSUME RInv, up = Component, NEW k \in {"tasks", "requests"},
         Calm => pc["run"] \in {"start", "spawn", "select", "schedStop", "wait", "drain"},
         WorkOn' = WorkOn \cup {k},
         UNCHANGED <<pc, up, stops, drainTimedOut, serverErr>>
  PROVE  Life!Next
<1>1. \A c \in Life!Component : LifeOf[c] # "new" /\ (Calm => LifeOf[c] = "up")
  BY LifeStates, NoneStopped DEF Component, Life!Component
<1>2. UNCHANGED <<LifeOf, Calm>>
  BY DEF LifeOf, Calm
<1>3. Life!BeginWork(k)
  BY <1>1, <1>2 DEF Life!BeginWork
<1>4. QED
  BY <1>3 DEF Life!Next, Life!Work

LEMMA EndSeen ==
  ASSUME NEW k \in {"tasks", "requests"}, WorkOn' = WorkOn \ {k},
         UNCHANGED <<pc, up, stops, drainTimedOut, serverErr>>
  PROVE  Life!Next
<1>1. UNCHANGED <<LifeOf, Calm>>
  BY DEF LifeOf, Calm
<1>2. Life!EndWork(k)
  BY <1>1 DEF Life!EndWork
<1>3. QED
  BY <1>2 DEF Life!Next, Life!Work

LEMMA RunSeen ==
  ASSUME RInv, RunStep
  PROVE  [Life!Next]_(Life!vars)
<1> USE ApplicationAssumption
<1>1. ASSUME NEW t \in Tasks, RunSpawn(t)
      PROVE  Life!Next
  <2>1. /\ UNCHANGED <<pc, up, stops, drainTimedOut, serverErr, req>>
        /\ Live(t)' /\ pc["run"] = "spawn" /\ up = Component
    BY <1>1 DEF RunSpawn, SpawnTask, Unspawned, Live, lcVars, srvVars, RInv, IInv, WorkInv, TypeOK, SchedulerTypeOK
  <2>2. WorkOn' = WorkOn \cup {"tasks"}
    BY <2>1 DEF WorkOn, AllTasksDone, InFlight
  <2>3. QED
    BY <2>1, <2>2, WorkSeen
<1>2. CASE RunSchedulerStart \/ RunLaunch \/ SelectCtxDone \/ SelectServerErr
  <2>1. /\ UNCHANGED <<up, stops, req, drainTimedOut, serverErr, task>>
        /\ pc["run"] # "done"
        /\ \E l \in {"spawn", "select", "schedStop"} : pc' = [pc EXCEPT !["run"] = l]
    BY <1>2 DEF RunSchedulerStart, StartReturns, SchedulerStart, RunLaunch, SelectCtxDone, SelectServerErr,
       lcVars, schedVars, srvVars, Goto
  <2>2. (Calm' <=> Calm) /\ (pc'["run"] = "done" <=> pc["run"] = "done")
    BY <2>1 DEF Calm, RInv, IInv, TypeOK
  <2>3. AllTasksDone' <=> AllTasksDone
    BY <2>1 DEF AllTasksDone, Live
  <2>4. QED
    BY <2>1, <2>2, <2>3, Unseen
<1>3. QED
  BY <1>1, <1>2 DEF RunStep

LEMMA ShutdownSeen ==
  ASSUME RInv, NEW p \in Procs, ShutdownStep(p)
  PROVE  [Life!Next]_(Life!vars)
<1>1. /\ UNCHANGED <<up, stops, req, task, serverErr>>
      /\ pc[p] \in {"schedStop", "wait", "drain"}
      /\ \E l \in {"wait", "drain", "stop"} : pc' = [pc EXCEPT ![p] = l]
      /\ drainTimedOut' = TRUE \/ drainTimedOut' = drainTimedOut
  BY DEF ShutdownStep, StopScheduler, CancelTasks, SchedulerStopped, ServerDrained, DrainTimesOut,
     EnterStop, lcVars, schedVars, srvVars, Goto
<1>2. (Calm' <=> Calm) /\ (pc'["run"] = "done" <=> pc["run"] = "done")
  BY <1>1, ApplicationAssumption DEF Calm, RInv, IInv, TypeOK
<1>3. AllTasksDone' <=> AllTasksDone
  BY <1>1 DEF AllTasksDone, Live
<1>4. CASE drainTimedOut' = TRUE
  <2>1. UNCHANGED <<LifeOf, WorkOn>>
    BY <1>1, <1>3 DEF LifeOf, WorkOn, InFlight
  <2>2. Life!Excuse
    BY <1>2, <1>4, <2>1 DEF Life!Excuse, Calm
  <2>3. QED
    BY <2>2 DEF Life!Next
<1>5. CASE drainTimedOut' = drainTimedOut
  BY <1>1, <1>2, <1>3, <1>5, Unseen
<1>6. QED
  BY <1>1, <1>4, <1>5

LEMMA TaskSeen ==
  ASSUME RInv, NEW t \in Tasks, TaskStep(t) \/ TaskExit(t)
  PROVE  [Life!Next]_(Life!vars)
<1>1. /\ UNCHANGED <<pc, up, stops, req, drainTimedOut, serverErr>> /\ Live(t)
      /\ \E l \in {"tick", "running", "exited"} : task' = [task EXCEPT ![t] = l]
  BY DEF TaskStep, TaskExit, TaskExits, SeesDone, TaskDelayElapses, TaskRuns, TaskReturns, Live,
     lcVars, srvVars
<1>2. CASE AllTasksDone'
  <2>1. WorkOn' = WorkOn \ {"tasks"}
    BY <1>1, <1>2 DEF WorkOn, InFlight
  <2>2. QED
    BY <1>1, <2>1, EndSeen
<1>3. CASE ~ AllTasksDone'
  <2>1. ~ AllTasksDone
    BY <1>1 DEF AllTasksDone
  <2>2. QED
    BY <1>1, <1>3, <2>1, Unseen DEF Calm
<1>4. QED
  BY <1>2, <1>3

LEMMA RequestSeen ==
  ASSUME RInv, NEW r \in Requests, RequestStep(r)
  PROVE  [Life!Next]_(Life!vars)
<1>1. UNCHANGED <<pc, up, stops, drainTimedOut, serverErr, task>> /\ AllTasksDone' = AllTasksDone
  BY DEF RequestStep, RequestArrives, RequestEnds, lcVars, schedVars, AllTasksDone, Live
<1>2. CASE RequestArrives(r)
  <2>1. /\ serve = "serving" /\ ~inShutdown /\ r \in InFlight'
    BY <1>2 DEF RequestArrives, InFlight, RInv, IInv, TypeOK
  <2>2. up = Component
    BY <2>1 DEF RInv, IInv, WorkInv
  <2>3. Calm => pc["run"] \notin {"stop", "stopHook", "done"}
    BY <2>1 DEF RInv, IInv, ServerInv, HeldInv
  <2>4. pc["run"] \in {"start", "spawn", "select", "schedStop", "wait", "drain", "stop", "stopHook", "done"}
    BY ApplicationAssumption DEF RInv, IInv, TypeOK, PlaceInv
  <2>5. WorkOn' = WorkOn \cup {"requests"}
    BY <1>1, <2>1 DEF WorkOn
  <2>6. QED
    BY <1>1, <2>2, <2>3, <2>4, <2>5, WorkSeen
<1>3. CASE RequestEnds(r)
  <2>1. r \in InFlight /\ InFlight' = InFlight \ {r}
    BY <1>3 DEF RequestEnds, InFlight, RInv, IInv, TypeOK
  <2>2. CASE InFlight' = {}
    <3>1. WorkOn' = WorkOn \ {"requests"}
      BY <1>1, <2>2 DEF WorkOn
    <3>2. QED
      BY <1>1, <3>1, EndSeen
  <2>3. CASE InFlight' # {}
    <3>1. UNCHANGED <<LifeOf, WorkOn, Calm>>
      BY <1>1, <2>1, <2>3 DEF LifeOf, WorkOn, Calm
    <3>2. QED
      BY <1>1, <3>1 DEF Life!vars
  <2>4. QED
    BY <2>2, <2>3
<1>4. QED
  BY <1>2, <1>3 DEF RequestStep

LEMMA ServerSeen ==
  ASSUME RInv, ServerStep
  PROVE  [Life!Next]_(Life!vars)
<1>1. UNCHANGED <<pc, up, stops, drainTimedOut, req, task>>
  BY DEF ServerStep, Listen, ServeClosed, ServeFails, lcVars, schedVars
<1>2. UNCHANGED <<LifeOf, WorkOn, Calm>>
  BY <1>1 DEF LifeOf, WorkOn, Calm, AllTasksDone, Live, InFlight
<1>3. CASE ServeFails
  <2>1. Life!Excuse
    BY <1>1, <1>2, <1>3 DEF ServeFails, Life!Excuse
  <2>2. QED
    BY <2>1 DEF Life!Next
<1>4. CASE Listen \/ ServeClosed
  <2>1. serverErr' = "error" <=> serverErr = "error"
    BY <1>4 DEF Listen, ServeClosed, RInv, IInv, ServerInv
  <2>2. QED
    BY <1>1, <1>2, <2>1 DEF Life!vars
<1>5. QED
  BY <1>3, <1>4 DEF ServerStep

LEMMA EnvironmentSeen ==
  ASSUME RInv, EnvironmentStep
  PROVE  [Life!Next]_(Life!vars)
<1>1. UNCHANGED <<up, stops, drainTimedOut, req, task, serverErr>>
  BY DEF EnvironmentStep, CancelCtx, CallShutdown, lcVars, schedVars, srvVars
<1>2. UNCHANGED <<LifeOf, WorkOn>>
  BY <1>1 DEF LifeOf, WorkOn, AllTasksDone, Live, InFlight
<1>3. CASE CancelCtx
  BY <1>1, <1>2, <1>3 DEF CancelCtx, Life!vars, Calm
<1>4. CASE CallShutdown
  <2>1. ~ Calm' /\ pc'["run"] = pc["run"]
    BY <1>4, ApplicationAssumption DEF CallShutdown, Goto, Calm, RInv, IInv, TypeOK
  <2>2. Life!Interfere
    BY <1>1, <1>2, <2>1 DEF Life!Interfere
  <2>3. QED
    BY <2>2 DEF Life!Next
<1>5. QED
  BY <1>3, <1>4 DEF EnvironmentStep

LEMMA NextSeen == RInv /\ [Next]_vars => [Life!Next]_(Life!vars)
<1> SUFFICES ASSUME RInv, [Next]_vars
             PROVE  [Life!Next]_(Life!vars)
  OBVIOUS
<1>1. CASE UNCHANGED vars
  BY <1>1, Unseen DEF vars, lcVars, schedVars, srvVars, AllTasksDone, Live, Calm
<1>2. QED
  BY <1>1, LifecycleSeen, RunSeen, ShutdownSeen, TaskSeen, RequestSeen, ServerSeen, EnvironmentSeen
     DEF Next, Over

LEMMA InitSeen == Init => Life!Init
BY LifecycleAssumption, SchedulerAssumption, ApplicationAssumption
   DEF Init, LifecycleInit, SchedulerInit, Life!Init, LifeOf, WorkOn, InFlight, AllTasksDone, Live,
       Calm, Component, Life!Component

\* FollowsComponentLife: every execution, with or without a Shutdown from
\* outside, is one that the components were promised.
THEOREM ComponentsLiveInOrder == Spec => FollowsComponentLife
<1>1. RInv /\ [Next]_vars => HeldInv'
  BY NextHeld DEF RInv, IInv
<1>2. Spec => []RInv
  BY <1>1, InitHeld, Invariance, PTL DEF Spec, RInv
<1>3. QED
  BY <1>2, InitSeen, NextSeen, PTL DEF Spec, FollowsComponentLife, Life!Spec
=============================================================================
