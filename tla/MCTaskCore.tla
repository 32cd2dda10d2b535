----------------------------- MODULE MCTaskCore -----------------------------
(* Small instances of TaskCore: two tasks, three pids.                     *)
EXTENDS TaskCore, TLC

CONSTANTS t1, t2, n1, n2

TwoTasks == <<t1, t2>>
TwoNames == (t1 :> n1) @@ (t2 :> n2)
ThreePids == 1..3

\* Uninitialised mPid: zero, what fork returns on failure, some live pid.
JunkAll  == {-1, 0, 1}
JunkNone == {0}
=============================================================================
