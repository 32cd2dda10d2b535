------------------------------ MODULE MCDaemon ------------------------------
(* Small instances of Daemon: one or two tasks, two pids, one tool.        *)
EXTENDS Daemon, TLC

CONSTANTS t1, t2, n1, n2, tool

TwoTasks == <<t1, t2>>
TwoNames == (t1 :> n1) @@ (t2 :> n2)
TwoPids == 1..2
=============================================================================
