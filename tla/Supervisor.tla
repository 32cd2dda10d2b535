----------------------------- MODULE Supervisor -----------------------------
(***************************************************************************)
(* What the daemon promises about the processes of its tasks, without      *)
(* handlers, signals or waits: a task is started or not, it has at most    *)
(* one process, a process only begins together with a start of its task,   *)
(* and a task is not declared stopped while its process lives.             *)
(***************************************************************************)
CONSTANTS Tasks, Pids

VARIABLES
  started,    \* the tasks that count as running
  live        \* the processes of each task that still execute

vars == <<started, live>>

Init ==
  /\ started = {}
  /\ live = [t \in Tasks |-> {}]

\* A start gives the task one process, under a pid no living process of a
\* task has, or none if the system refuses.
Start(t) ==
  /\ t \notin started /\ live[t] = {}
  /\ started' = started \cup {t}
  /\ \/ \E p \in Pids \ UNION {live[u] : u \in Tasks} :
          live' = [live EXCEPT ![t] = {p}]
     \/ UNCHANGED live

\* The process of t ends, by itself or by a signal.
End(t) ==
  /\ live[t] # {}
  /\ live' = [live EXCEPT ![t] = {}]
  /\ UNCHANGED started

Stop(t) ==
  /\ t \in started /\ live[t] = {}
  /\ started' = started \ {t}
  /\ UNCHANGED live

Next == \E t \in Tasks : Start(t) \/ End(t) \/ Stop(t)

Spec == Init /\ [][Next]_vars

\* At most one process each, and only while the task counts as running.
OneProcess ==
  \A t \in Tasks :
    /\ \A p, q \in live[t] : p = q
    /\ live[t] # {} => t \in started
=============================================================================
