CONSTANTS
  t1 = t1
  t2 = t2
  t3 = t3
  r1 = r1
  r2 = r2
  N = 3
  HasStart <- MCHasStart
  HasStop <- MCHasStop
  Procs <- MCProcs
  Tasks <- MCTasks
  Delayed <- MCDelayed
  Skipped <- MCSkipped
  HasServer = TRUE
  Requests <- MCRequests
SPECIFICATION Spec
INVARIANT ServerThenLifecycle
