---------------------------- MODULE MCTaskClient ----------------------------
(* Small instances of TaskClient.  A task with one thread gets the lowest  *)
(* free descriptor again and again; two let a leaked one show.             *)
EXTENDS TaskClient, Random

SmallFds == {3, 4}

\* TLC evaluates getRandom for each argument and random number.
ASSUME NeverLongerHere == NeverLonger
=============================================================================
