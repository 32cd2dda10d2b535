------------------------------- MODULE Process -------------------------------
(***************************************************************************)
(* The process table of the machine taskd runs on, as far as TaskObj.cpp   *)
(* uses it: fork, kill(pid, SIGKILL) and waitpid.  This is external code   *)
(* (the kernel); it is modelled from the calls startTask and stopTask make.*)
(*                                                                         *)
(* A pid is free, or it names a child of the daemon (run, dying, zombie),  *)
(* or a process that has nothing to do with the daemon (foreign).  SIGKILL *)
(* makes a running child "dying": it leaves the processor some time later. *)
(***************************************************************************)
EXTENDS Integers, FiniteSets

CONSTANTS
  Tasks,        \* the TaskObj objects
  NoTask,       \* not a task
  Pids,         \* the process ids the kernel hands out
  MaxForeign    \* bound: unrelated processes alive at one time

ASSUME PidsAssumption   == Pids \subseteq Nat \ {0}
ASSUME NoTaskAssumption == NoTask \notin Tasks

VARIABLES
  proc,         \* what each pid names
  forkedBy      \* history: the task whose startTask forked the child

procVars == <<proc, forkedBy>>

ProcState == {"free", "run", "dying", "zombie", "foreign"}

Child(p) == proc[p] \in {"run", "dying", "zombie"}

\* fork() in startTask of task t: the child gets a free pid p.
Fork(t, p) ==
  /\ proc[p] = "free"
  /\ proc' = [proc EXCEPT ![p] = "run"]
  /\ forkedBy' = [forkedBy EXCEPT ![p] = t]

(***************************************************************************)
(* The processes kill(pid, SIGKILL) reaches: every process but the caller  *)
(* for -1, the caller's process group for 0 (the children never leave it), *)
(* one process otherwise.                                                  *)
(***************************************************************************)
Targets(pid) ==
  CASE pid = -1 -> {p \in Pids : proc[p] \in {"run", "foreign"}}
    [] pid = 0  -> {p \in Pids : proc[p] = "run"}
    [] OTHER    -> {p \in Pids : p = pid /\ proc[p] \in {"run", "foreign"}}

Kill(pid) ==
  /\ proc' = [p \in Pids |->
                IF p \in Targets(pid)
                THEN IF proc[p] = "run" THEN "dying" ELSE "free"
                ELSE proc[p]]
  /\ UNCHANGED forkedBy

\* The children waitpid(pid) can return.
Awaited(pid) == {p \in Pids : Child(p) /\ (pid \in {-1, 0} \/ p = pid)}

\* waitpid(pid) fails at once without such a child (ECHILD), else it blocks
\* until one of them is a zombie and reaps it.
WaitPid(pid) ==
  \/ /\ Awaited(pid) = {}
     /\ UNCHANGED procVars
  \/ \E p \in Awaited(pid) :
       /\ proc[p] = "zombie"
       /\ proc' = [proc EXCEPT ![p] = "free"]
       /\ forkedBy' = [forkedBy EXCEPT ![p] = NoTask]

\* A child exits by itself, crashes, or dies of the SIGKILL it was sent.
Exit(p) ==
  /\ proc[p] \in {"run", "dying"}
  /\ proc' = [proc EXCEPT ![p] = "zombie"]
  /\ UNCHANGED forkedBy

\* Unrelated processes come and go, and take pids that children have freed.
ForeignStart(p) ==
  /\ proc[p] = "free"
  /\ Cardinality({q \in Pids : proc[q] = "foreign"}) < MaxForeign
  /\ proc' = [proc EXCEPT ![p] = "foreign"]
  /\ UNCHANGED forkedBy

ForeignExit(p) ==
  /\ proc[p] = "foreign"
  /\ proc' = [proc EXCEPT ![p] = "free"]
  /\ UNCHANGED forkedBy
=============================================================================
