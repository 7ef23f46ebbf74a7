--------------------------- MODULE MCApplication ----------------------------
(* Application for TLC: three components (the first without a start hook,   *)
(* the second without a stop hook), a task with an initial delay, one       *)
(* without and one that Start skips, and two requests.                      *)
EXTENDS Application, FiniteSets
CONSTANTS t1, t2, t3, r1, r2
MCHasStart == {2, 3}
MCHasStop == {1, 3}
MCProcs == {"run", "ext"}
MCTasks == {t1, t2, t3}
MCDelayed == {t1}
MCSkipped == {t3}
MCRequests == {r1, r2}
=============================================================================
