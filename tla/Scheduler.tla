----------------------------- MODULE Scheduler ------------------------------
(***************************************************************************)
(* runtime/scheduler.go: one goroutine per task, started by Start and      *)
(* awaited by Stop.  The run context is derived from the context given to  *)
(* Start, so it is done when either is cancelled.                          *)
(***************************************************************************)
CONSTANTS
  Tasks,     \* registered tasks
  Delayed,   \* those with an InitialDelay
  Skipped    \* those Start skips: no positive interval, or no body

ASSUME SchedulerAssumption == Delayed \subseteq Tasks /\ Skipped \subseteq Tasks

VARIABLES
  hasCancel,   \* s.cancel is set
  cancelled,   \* ... and has been called
  task         \* task[t]: "off", "delay", "tick", "running" or "exited"

schedVars == <<hasCancel, cancelled, task>>

SchedulerInit ==
  /\ hasCancel = FALSE
  /\ cancelled = FALSE
  /\ task = [t \in Tasks |-> "off"]

\* What s.wg counts.
Live(t) == task[t] \in {"delay", "tick", "running"}

\* Plausible bugs (the manifest's mutants): Stop does not wait for a body that
\* is running; a task's loop does not look at its context.
IgnoreRunning == \A t \in Tasks : task[t] # "tick"

NeverSeesDone(t, parentDone) == FALSE

\* Start, first half: the cancellable context.
SchedulerStart ==
  /\ hasCancel' = TRUE
  /\ cancelled' = FALSE
  /\ UNCHANGED task

\* Start's loop: wg.Add(1) and the goroutine of one task.
Unspawned == {t \in Tasks \ Skipped : task[t] = "off"}

SpawnTask(t) ==
  /\ t \in Unspawned
  /\ task' = [task EXCEPT ![t] = IF t \in Delayed THEN "delay" ELSE "tick"]
  /\ UNCHANGED <<hasCancel, cancelled>>

\* runTask.  When the context is done and the timer has fired, select takes
\* either branch.
TaskDelayElapses(t) ==
  /\ task[t] = "delay"
  /\ task' = [task EXCEPT ![t] = "tick"]
  /\ UNCHANGED <<hasCancel, cancelled>>

TaskRuns(t) ==
  /\ task[t] = "tick"
  /\ task' = [task EXCEPT ![t] = "running"]
  /\ UNCHANGED <<hasCancel, cancelled>>

\* An error goes to onError and the loop goes on.
TaskReturns(t) ==
  /\ task[t] = "running"
  /\ task' = [task EXCEPT ![t] = "tick"]
  /\ UNCHANGED <<hasCancel, cancelled>>

SeesDone(t, parentDone) ==
  /\ task[t] \in {"delay", "tick"}
  /\ cancelled \/ parentDone

TaskExits(t, parentDone) ==
  /\ SeesDone(t, parentDone)
  /\ task' = [task EXCEPT ![t] = "exited"]
  /\ UNCHANGED <<hasCancel, cancelled>>

\* Stop: cancel, if Start was called, then wg.Wait.
CancelTasks ==
  /\ cancelled' = (hasCancel \/ cancelled)
  /\ UNCHANGED <<hasCancel, task>>

AllTasksDone == \A t \in Tasks : ~Live(t)

SchedulerTypeOK ==
  /\ hasCancel \in BOOLEAN
  /\ cancelled \in BOOLEAN
  /\ task \in [Tasks -> {"off", "delay", "tick", "running", "exited"}]

=============================================================================
