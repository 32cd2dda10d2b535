------------------------------ MODULE TaskCore ------------------------------
(***************************************************************************)
(* task_core.cpp: the list of tasks and the handlers of the daemon that    *)
(* act on them.  task_core_init builds and starts the configured tasks one *)
(* by one; from then on the event loop runs one handler at a time: a       *)
(* heartbeat timer that fires, or a task action a client asked for.        *)
(* Children exit, crash and are replaced by other processes at any time.   *)
(***************************************************************************)
EXTENDS TaskObj, Sequences

CONSTANTS
  Config,     \* the tasks in the order foreach_task visits them
  Names,      \* task names
  NameOf      \* name of each task

ASSUME ConfigAssumption == Config \in Seq(Tasks)
ASSUME NamesAssumption  == NameOf \in [Tasks -> Names]

VARIABLE taskList    \* static list taskList, in push_back order

vars == <<procVars, objVars, ctlVars, hisVars, taskList>>

Booting == Len(taskList) < Len(Config)
Ready   == pc = "loop" /\ ~Booting

\* TASK_ACTION_*: NONE and MAX select no case of the switch.
Actions == {"START", "STOP", "RESTART"}

Init ==
  /\ proc     = [p \in Pids |-> "free"]
  /\ forkedBy = [p \in Pids |-> NoTask]
  /\ ObjInit
  /\ taskList = <<>>

-----------------------------------------------------------------------------
\* task_param_cb for the next configured task: construct it, start it, and
\* append it (nothing reads the list before startTask returns).
TaskParamCb ==
  /\ pc = "loop" /\ Booting
  /\ LET t == Config[Len(taskList) + 1] IN
       \/ /\ StartTask(t)
          /\ taskList' = Append(taskList, t)
       \/ /\ ConstructFails(t)
          /\ UNCHANGED taskList
  /\ UNCHANGED <<procVars, objVars, hisVars>>

\* TaskTimeoutCb: the timer of task t fires.  Nothing ever restarts an armed
\* timer (refreshHeartBeat has no caller), so an armed timer does fire.
TaskTimeoutCb(t) ==
  /\ Ready
  /\ mTimer[t]
  /\ RestartTask(t)
  /\ UNCHANGED <<procVars, objVars, hisVars, taskList>>

\* The entries processTaskAction and processGetSingleTask search for: by pid
\* when the request has one, else by name.
Hits(pid, name) ==
  {i \in DOMAIN taskList :
     IF pid # 0 THEN mPid[taskList[i]] = pid ELSE NameOf[taskList[i]] = name}

\* Both loops stop at the first hit.
Selected(i, pid, name) ==
  i \in Hits(pid, name) /\ \A j \in Hits(pid, name) : i <= j

\* processTaskAction.  Without a hit it answers NOT_FOUND and changes nothing.
\* (MsgServer passes on a pid only; the search by name is the handler's own.)
ProcessTaskAction(pid, name, action) ==
  /\ Ready
  /\ \E i \in DOMAIN taskList :
       /\ Selected(i, pid, name)
       /\ \/ action = "START"   /\ StartTask(taskList[i])
          \/ action = "STOP"    /\ StopTask(taskList[i])
          \/ action = "RESTART" /\ RestartTask(taskList[i])
  /\ UNCHANGED <<procVars, objVars, hisVars, taskList>>

LoopStep ==
  \/ TaskParamCb
  \/ (KillProcess \/ WaitProcess \/ ForkProcess) /\ UNCHANGED taskList

Kernel(p) ==
  /\ pc # "dead"    \* the model ends with the daemon
  /\ Exit(p) \/ ForeignStart(p) \/ ForeignExit(p)
  /\ UNCHANGED <<objVars, ctlVars, hisVars, taskList>>

Request ==
  \E pid \in Pids \cup {-1, 0}, name \in Names, action \in Actions :
    ProcessTaskAction(pid, name, action)

Next ==
  \/ LoopStep
  \/ \E t \in Tasks : TaskTimeoutCb(t)
  \/ Request
  \/ \E p \in Pids : Kernel(p)

Spec == Init /\ [][Next]_vars

(***************************************************************************)
(* The loop thread never sleeps with work to do.  libev calls every        *)
(* expired timer in each round of the loop, so a timer that keeps being    *)
(* armed when the loop is idle does get its turn (strong fairness).  The   *)
(* kernel lets a process with a pending SIGKILL die.  Requests, voluntary  *)
(* exits and unrelated processes are under no obligation.                  *)
(***************************************************************************)
Fairness ==
  /\ WF_vars(LoopStep)
  /\ \A t \in Tasks : SF_vars(TaskTimeoutCb(t))
  /\ \A p \in Pids : WF_vars(proc[p] = "dying" /\ Kernel(p))

FairSpec == Spec /\ Fairness

-----------------------------------------------------------------------------
\* Every variable has its type, and a handler that is under way works on a
\* task in the status its guard established.
TypeOK ==
  /\ proc     \in [Pids -> ProcState]
  /\ forkedBy \in [Pids -> Tasks \cup {NoTask}]
  /\ mStatus  \in [Tasks -> {"U", "R", "junk"}]
  /\ mPid     \in [Tasks -> Nat \cup {-1}]
  /\ mTimer   \in [Tasks -> BOOLEAN]
  /\ pc       \in {"loop", "kill", "wait", "fork", "dead"}
  /\ andThen  \in {"return", "start", "throw"}
  /\ forkFails \in Nat
  /\ clean \in BOOLEAN /\ stray \in BOOLEAN /\ onJunk \subseteq Tasks
  /\ taskList \in Seq(Tasks)
  /\ IF pc \in {"loop", "dead"} THEN cur = NoTask ELSE cur \in Tasks
  /\ pc = "fork" => mStatus[cur] = "U"
  /\ pc \in {"kill", "wait"} => mStatus[cur] # "U"

\* A child that has not been reaped is the one its task has on record as
\* running: no step order (a start while one runs, a timeout crossing a stop,
\* a failed fork, another task's waitpid) leaves a second or a forgotten
\* process of a task behind.
NoLeakedChild ==
  \A p \in Pids :
    /\ Child(p) <=> forkedBy[p] # NoTask
    /\ Child(p) => mStatus[forkedBy[p]] = "R" /\ mPid[forkedBy[p]] = p

\* A task that startTask would take for running is under watch of its timer; the
\* gaps are a stop that waits for the child it has killed, and a task built on
\* junk.  That one nobody has started and nobody watches: it has no process and
\* no timer until a client stops or restarts it.
Supervised ==
  /\ \A t \in Tasks :
       /\ mTimer[t] => mStatus[t] = "R" /\ t \notin onJunk
       /\ mStatus[t] # "U" /\ ~mTimer[t] =>
            t \in onJunk \/ pc = "dead" \/ (pc = "wait" /\ cur = t)
       /\ t \in onJunk => mStatus[t] # "U" /\ \A p \in Pids : forkedBy[p] # t
  /\ pc = "wait" => ~mTimer[cur]

\* As long as every fork succeeded and the heap was zero, a running task owns
\* an unreaped process, so its pid can neither be reused nor be another's.
CleanOwnership ==
  clean => \A t \in Tasks :
             mStatus[t] # "U" => mPid[t] \in Pids /\ forkedBy[mPid[t]] = t

\* Under the same condition a stop never signals another task's process or
\* one that has nothing to do with the daemon.
CleanSignals == clean => ~stray

\* Under the same condition the daemon, once it is up, outlives every start, stop,
\* restart and timeout: what they kill is never pid 0, its own process group.
HandlersSurvive ==
  [][clean /\ ~Booting /\ pc \in {"kill", "wait", "fork"} => pc' # "dead"]_vars

\* A stop waits for nothing it has not killed, also when the pid on record is the
\* -1 of a failed fork and waitpid waits for any child.
WaitsForKilled ==
  pc = "wait" => \A p \in Awaited(mPid[cur]) : proc[p] \in {"dying", "zombie"}

\* The loop thread is not blocked for ever in waitpid: whatever it waits for
\* has been killed.
StopReturns == [](pc = "wait" => <>(pc # "wait"))

-----------------------------------------------------------------------------
\* Refinement: a task is started while it counts as running, but for the junk
\* nobody has started; its process lives until the child becomes a zombie.
Living(t) == {p \in Pids : proc[p] \in {"run", "dying"} /\ forkedBy[p] = t}

Sup == INSTANCE Supervisor
         WITH started <- {t \in Tasks \ onJunk : mStatus[t] # "U"},
              live    <- [t \in Tasks |-> Living(t)]

\* However kills, exits, pid reuse and failed forks interleave with the handlers,
\* no task has two processes and none is declared stopped while its own lives.
ImplementsSupervisor == Sup!Spec

-----------------------------------------------------------------------------
Alive(t) == \E p \in Pids : proc[p] = "run" /\ forkedBy[p] = t

\* A task that counts as running although its process is gone is started again
\* by its timer, unless it is stopped on request or the daemon dies.  (A task built
\* on junk is stopped or restarted on request, or never.)
Revived ==
  \A t \in Tasks :
    t \notin onJunk /\ mStatus[t] # "U" /\ ~Alive(t)
      ~> Alive(t) \/ (Ready /\ mStatus[t] = "U") \/ pc = "dead"

-----------------------------------------------------------------------------
\* A claim of the code's own texts which the code does not keep.

\* TaskObj.cpp:20: a task that timed out is itself what is restarted, so a
\* stop signals no process but its own.
OnlyOwnProcess == ~stray
=============================================================================
