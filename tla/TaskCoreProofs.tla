--------------------------- MODULE TaskCoreProofs ---------------------------
(***************************************************************************)
(* For any set of tasks and pids: what the runs of MCTaskCore check on a   *)
(* small instance.  The invariants are proved together, for each leans on  *)
(* the others: a stop leaves no child behind because the child on record   *)
(* is the only one, and it is the only one because a start needs status U. *)
(* From them follows that TaskCore implements Supervisor.                  *)
(***************************************************************************)
EXTENDS TaskCore, TLAPS

Inv == TypeOK /\ NoLeakedChild /\ Supervised /\ CleanOwnership /\ CleanSignals

\* Initially: no process, no armed timer, an idle loop.
LEMMA InitInv == Init => Inv
<1> SUFFICES ASSUME Init PROVE Inv
  OBVIOUS
<1>1. TypeOK
  <2>1. mStatus \in [Tasks -> {"U", "R", "junk"}]
    BY JunkAssumption DEF Init, ObjInit
  <2>2. mPid \in [Tasks -> Nat \cup {-1}]
    BY JunkAssumption DEF Init, ObjInit
  <2>3. taskList \in Seq(Tasks)
    BY DEF Init
  <2> QED
    BY <2>1, <2>2, <2>3 DEF Init, ObjInit, TypeOK, ProcState
<1>2. NoLeakedChild
  BY DEF Init, NoLeakedChild, Child
<1>3. Supervised
  BY NoTaskAssumption DEF Init, ObjInit, Supervised
<1>4. CleanOwnership /\ CleanSignals
  BY DEF Init, ObjInit, CleanOwnership, CleanSignals
<1> QED
  BY <1>1, <1>2, <1>3, <1>4 DEF Inv

\* The steps of the kernel change no TaskObj and no record of who forked what.
LEMMA KernelInv == ASSUME Inv, NEW p \in Pids, Kernel(p) PROVE Inv'
<1> USE DEF Inv
<1>1. TypeOK'
  BY DEF Kernel, Exit, ForeignStart, ForeignExit, TypeOK, ProcState,
         objVars, ctlVars, hisVars
<1>2. NoLeakedChild'
  BY DEF Kernel, Exit, ForeignStart, ForeignExit, TypeOK, ProcState,
         NoLeakedChild, Child, objVars
<1>3. (Supervised /\ CleanOwnership /\ CleanSignals)'
  BY DEF Kernel, Exit, ForeignStart, ForeignExit, Supervised, CleanOwnership,
         CleanSignals, objVars, ctlVars, hisVars
<1> QED
  BY <1>1, <1>2, <1>3

\* A public method up to its first system call changes only where the loop
\* thread is, and it enters startTask or stopTask in the status they require.
LEMMA EnterInv ==
  ASSUME Inv, pc = "loop", NEW t \in Tasks,
         StartTask(t) \/ StopTask(t) \/ RestartTask(t) \/ ConstructFails(t),
         taskList' \in Seq(Tasks),
         UNCHANGED <<procVars, objVars, hisVars>>
  PROVE  Inv'
<1> USE DEF Inv, StartTask, StopTask, RestartTask, ConstructFails, MayStart,
            Enter, Return, Die
<1>1. TypeOK'
  BY DEF TypeOK, procVars, objVars, hisVars
<1>2. NoLeakedChild'
  BY DEF NoLeakedChild, Child, procVars, objVars
<1>3. Supervised'
  BY DEF TypeOK, Supervised, procVars, objVars, hisVars
<1>4. CleanOwnership' /\ CleanSignals'
  BY DEF CleanOwnership, CleanSignals, procVars, objVars, hisVars
<1> QED
  BY <1>1, <1>2, <1>3, <1>4

\* Every child a task has is the one on record, so a task whose pid on record
\* names none of its children has no child at all.
LEMMA NoOtherChild ==
  ASSUME Inv, NEW t \in Tasks, NEW p \in Pids, Child(p), forkedBy[p] = t
  PROVE  mStatus[t] = "R" /\ mPid[t] = p
  BY DEF Inv, NoLeakedChild

\* kill and the timer stop: children stay children until they are reaped, and
\* a pid on record of a clean running task is that task's own child.
LEMMA KillProcessInv ==
  ASSUME Inv, KillProcess, UNCHANGED taskList PROVE Inv'
<1> USE DEF Inv, KillProcess, SendKill, Kill, Enter, Return, Die
<1>0. /\ cur \in Tasks /\ mStatus[cur] # "U"
      /\ pc = "kill"
  BY DEF TypeOK
<1>1. TypeOK'
  <2>1. proc' \in [Pids -> ProcState]
    BY DEF TypeOK, ProcState
  <2>2. stray' \in BOOLEAN /\ mTimer' \in [Tasks -> BOOLEAN]
    BY DEF TypeOK
  <2> QED
    BY <1>0, <2>1, <2>2 DEF TypeOK
<1>2. NoLeakedChild'
  <2>1. \A p \in Pids : Child(p)' <=> Child(p)
    BY DEF Child, Targets, TypeOK, ProcState
  <2> QED
    BY <2>1 DEF NoLeakedChild
<1>3. Supervised'
  BY <1>0, NoTaskAssumption DEF Supervised, TypeOK
<1>4. CleanOwnership'
  BY DEF CleanOwnership
<1>5. CleanSignals'
  <2> SUFFICES ASSUME clean PROVE ~stray'
    BY DEF CleanSignals
  <2>1. mPid[cur] \in Pids /\ forkedBy[mPid[cur]] = cur
    BY <1>0 DEF CleanOwnership, TypeOK
  <2>2. \A p \in Targets(mPid[cur]) : p = mPid[cur]
    BY <2>1, PidsAssumption DEF Targets
  <2> QED
    BY <2>1, <2>2 DEF CleanSignals
<1> QED
  BY <1>1, <1>2, <1>3, <1>4, <1>5

\* waitpid and status U.  If it returns at once the task has no child; if it
\* reaps one, that was the only child of the task - or, with mPid = -1, a
\* child of another task; and then this task, too, has none.
LEMMA WaitProcessInv ==
  ASSUME Inv, WaitProcess, UNCHANGED taskList PROVE Inv'
<1> USE DEF Inv, WaitProcess, AwaitChild, Enter, Return, Die, hisVars
<1>0. /\ cur \in Tasks /\ mStatus[cur] # "U" /\ cur # NoTask
      /\ mPid[cur] \in Nat \cup {-1}
      /\ pc = "wait"
  BY NoTaskAssumption DEF TypeOK
<1>1. TypeOK'
  <2>1. proc' \in [Pids -> ProcState] /\ forkedBy' \in [Pids -> Tasks \cup {NoTask}]
    BY DEF TypeOK, ProcState, WaitPid, procVars
  <2> QED
    BY <1>0, <2>1 DEF TypeOK
<1>2. NoLeakedChild'
  <2> SUFFICES ASSUME NEW p \in Pids
               PROVE  /\ Child(p)' <=> forkedBy'[p] # NoTask
                      /\ Child(p)' => mStatus'[forkedBy'[p]] = "R" /\ mPid'[forkedBy'[p]] = p
    BY DEF NoLeakedChild
  <2>1. Child(p)' <=> forkedBy'[p] # NoTask
    BY DEF NoLeakedChild, Child, WaitPid, Awaited, procVars, TypeOK
  <2>2. Child(p)' => Child(p) /\ forkedBy'[p] = forkedBy[p]
    BY DEF Child, WaitPid, Awaited, procVars, TypeOK
  <2>3. ASSUME Child(p)' PROVE forkedBy[p] # cur
    <3> SUFFICES ASSUME forkedBy[p] = cur PROVE FALSE
      OBVIOUS
    <3>1. Child(p) /\ mPid[cur] = p
      BY <2>2, <2>3, <1>0, NoOtherChild
    <3>2. Awaited(mPid[cur]) = {p}
      BY <3>1, PidsAssumption DEF Awaited
    <3>3. proc'[p] = "free"
      BY <3>2 DEF WaitPid, TypeOK
    <3> QED
      BY <2>3, <3>3 DEF Child
  <2>4. ASSUME Child(p)'
        PROVE  mStatus'[forkedBy'[p]] = "R" /\ mPid'[forkedBy'[p]] = p
    BY <1>0, <2>2, <2>3, <2>4 DEF NoLeakedChild, TypeOK
  <2> QED
    BY <2>1, <2>4
<1>3. Supervised'
  <2>1. \A t \in Tasks \ {cur} : mStatus'[t] = mStatus[t] /\ mTimer'[t] = mTimer[t]
    BY DEF TypeOK
  <2>2. mStatus'[cur] = "U" /\ ~mTimer'[cur] /\ cur \notin onJunk'
    BY <1>0 DEF TypeOK, Supervised
  <2>3. pc' # "wait" /\ onJunk' \subseteq onJunk
    BY DEF TypeOK
  <2>4. \A t \in Tasks, p \in Pids : forkedBy[p] # t => forkedBy'[p] # t
    BY NoTaskAssumption DEF WaitPid, procVars, TypeOK
  <2> QED
    BY <1>0, <2>1, <2>2, <2>3, <2>4 DEF Supervised
<1>4. CleanOwnership'
  <2> SUFFICES ASSUME clean, NEW t \in Tasks
               PROVE  mStatus'[t] # "U" => mPid[t] \in Pids /\ forkedBy'[mPid[t]] = t
    BY DEF CleanOwnership
  <2>1. CASE t = cur
    BY <1>0, <2>1 DEF TypeOK
  <2>2. CASE t # cur
    <3>1. mStatus'[t] = mStatus[t]
      BY <2>2 DEF TypeOK
    <3>2. mStatus[t] # "U" => mPid[t] \in Pids /\ forkedBy[mPid[t]] = t
      BY DEF CleanOwnership
    <3>3. mPid[cur] \in Pids /\ forkedBy[mPid[cur]] = cur
      BY <1>0 DEF CleanOwnership, TypeOK
    <3>4. \A p \in Pids : forkedBy'[p] = forkedBy[p] \/ p = mPid[cur]
      BY <3>3, PidsAssumption DEF WaitPid, Awaited, procVars, TypeOK
    <3> QED
      BY <2>2, <3>1, <3>2, <3>3, <3>4
  <2> QED
    BY <2>1, <2>2
<1>5. CleanSignals'
  BY DEF CleanSignals
<1> QED
  BY <1>1, <1>2, <1>3, <1>4, <1>5

\* fork: the task was in status U, so it had no child; now it has one or, when
\* fork failed, none, and the pid on record says so.
LEMMA ForkProcessInv ==
  ASSUME Inv, ForkProcess, UNCHANGED taskList PROVE Inv'
<1> USE DEF Inv, ForkProcess, Record, ArmTimer, Enter, Return
<1>0. /\ cur \in Tasks /\ cur # NoTask /\ mStatus[cur] = "U" /\ pc = "fork"
      /\ mTimer' = [mTimer EXCEPT ![cur] = TRUE]
      /\ mStatus' = [mStatus EXCEPT ![cur] = "R"]
      /\ pc' = "loop" /\ cur' = NoTask /\ andThen' = "return"
  BY NoTaskAssumption DEF TypeOK
<1>a. ASSUME NEW p \in Pids, Fork(cur, p), mPid' = [mPid EXCEPT ![cur] = p],
             UNCHANGED <<forkFails, clean>>
      PROVE  Inv'
  <2> USE DEF Fork
  <2>1. TypeOK'
    BY <1>0, <1>a, PidsAssumption DEF TypeOK, ProcState
  <2>2. NoLeakedChild'
    BY <1>0, <1>a DEF NoLeakedChild, Child, TypeOK
  <2>3. Supervised'
    BY <1>0, <1>a DEF Supervised, TypeOK
  <2>4. CleanOwnership'
    BY <1>0, <1>a, NoTaskAssumption DEF CleanOwnership, NoLeakedChild, Child, TypeOK
  <2>5. CleanSignals'
    BY <1>a DEF CleanSignals
  <2> QED
    BY <2>1, <2>2, <2>3, <2>4, <2>5
<1>b. ASSUME forkFails' = forkFails + 1, clean' = FALSE,
             mPid' = [mPid EXCEPT ![cur] = -1], UNCHANGED procVars
      PROVE  Inv'
  <2> USE DEF procVars
  <2>1. TypeOK'
    <3>1. mPid' \in [Tasks -> Nat \cup {-1}]
      BY <1>b DEF TypeOK
    <3>2. forkFails' \in Nat
      BY <1>b DEF TypeOK
    <3> QED
      BY <1>0, <1>b, <3>1, <3>2 DEF TypeOK
  <2>2. NoLeakedChild'
    BY <1>0, <1>b DEF NoLeakedChild, Child, TypeOK
  <2>3. Supervised'
    BY <1>0, <1>b DEF Supervised, TypeOK
  <2>4. CleanOwnership' /\ CleanSignals'
    BY <1>b DEF CleanOwnership, CleanSignals
  <2> QED
    BY <2>1, <2>2, <2>3, <2>4
<1> QED
  BY <1>a, <1>b

\* Inv is inductive.
LEMMA NextInv == Inv /\ [Next]_vars => Inv'
<1> SUFFICES ASSUME Inv, [Next]_vars PROVE Inv'
  OBVIOUS
<1>1. CASE TaskParamCb
  <2> DEFINE t == Config[Len(taskList) + 1]
  <2>0. taskList \in Seq(Tasks)
    BY DEF Inv, TypeOK
  <2>1. t \in Tasks
    BY <1>1, <2>0, ConfigAssumption DEF TaskParamCb, Booting
  <2>2. taskList' \in Seq(Tasks)
    BY <1>1, <2>0, <2>1 DEF TaskParamCb
  <2> QED
    BY <1>1, <2>1, <2>2, EnterInv DEF TaskParamCb
<1>2. CASE (KillProcess \/ WaitProcess \/ ForkProcess) /\ UNCHANGED taskList
  BY <1>2, KillProcessInv, WaitProcessInv, ForkProcessInv
<1>3. ASSUME NEW t \in Tasks, TaskTimeoutCb(t) PROVE Inv'
  BY <1>3, EnterInv DEF TaskTimeoutCb, Ready, Inv, TypeOK
<1>4. ASSUME NEW pid, NEW name, NEW action, ProcessTaskAction(pid, name, action)
      PROVE Inv'
  <2>1. PICK i \in DOMAIN taskList :
          StartTask(taskList[i]) \/ StopTask(taskList[i]) \/ RestartTask(taskList[i])
    BY <1>4 DEF ProcessTaskAction
  <2>2. taskList[i] \in Tasks
    BY <2>1 DEF Inv, TypeOK
  <2> QED
    BY <1>4, <2>1, <2>2, EnterInv DEF ProcessTaskAction, Ready, Inv, TypeOK
<1>5. ASSUME NEW p \in Pids, Kernel(p) PROVE Inv'
  BY <1>5, KernelInv
<1>6. CASE UNCHANGED vars
  BY <1>6 DEF vars, procVars, objVars, ctlVars, hisVars, Inv, TypeOK, NoLeakedChild,
              Child, Supervised, CleanOwnership, CleanSignals
<1> QED
  BY <1>1, <1>2, <1>3, <1>4, <1>5, <1>6 DEF Next, LoopStep, Request

\* Inv holds in every reachable state.
LEMMA Invariance == Spec => []Inv
  BY InitInv, NextInv, PTL DEF Spec

\* Every variable keeps its type, and a handler that is under way is in
\* startTask or stopTask of a task in the status they require.
THEOREM TypeCorrect == Spec => []TypeOK
<1>1. Inv => TypeOK
  BY DEF Inv
<1> QED
  BY <1>1, Invariance, PTL

\* taskd never loses track of a process it forked, for any number of tasks,
\* pids, failed forks and junk objects.
THEOREM NoChildLeaks == Spec => []NoLeakedChild
<1>1. Inv => NoLeakedChild
  BY DEF Inv
<1> QED
  BY <1>1, Invariance, PTL

\* The timer of a task that counts as running is armed, outside its own stop,
\* unless the task was built on junk; and then it has no process either.
THEOREM AlwaysSupervised == Spec => []Supervised
<1>1. Inv => Supervised
  BY DEF Inv
<1> QED
  BY <1>1, Invariance, PTL

\* With zeroed objects and no failed fork a running task owns its pid.
THEOREM OwnershipWhenClean == Spec => []CleanOwnership
<1>1. Inv => CleanOwnership
  BY DEF Inv
<1> QED
  BY <1>1, Invariance, PTL

\* With zeroed objects and no failed fork a stop kills its own child only.
THEOREM SignalsWhenClean == Spec => []CleanSignals
<1>1. Inv => CleanSignals
  BY DEF Inv
<1> QED
  BY <1>1, Invariance, PTL

\* The kill reaches whatever waitpid will wait for, and nothing is forked while a
\* stop waits.
LEMMA WaitsInv == Inv /\ WaitsForKilled /\ [Next]_vars => WaitsForKilled'
<1> SUFFICES ASSUME Inv, WaitsForKilled, [Next]_vars, pc' = "wait",
                    NEW p \in Pids, Child(p)', mPid'[cur'] \in {-1, 0} \/ p = mPid'[cur']
             PROVE  proc'[p] \in {"dying", "zombie"}
  BY DEF WaitsForKilled, Awaited
<1> USE DEF Inv, TypeOK, ProcState, Child
<1>1. CASE KillProcess
  <2>1. mPid[cur] # 0 /\ UNCHANGED <<mPid, cur>>
    BY <1>1 DEF KillProcess, Enter, Die
  <2>2. proc[p] = "run" => p \in Targets(mPid[cur])
    <3>1. CASE mPid[cur] = -1
      BY <3>1 DEF Targets
    <3>2. CASE mPid[cur] # -1
      BY <2>1, <3>2 DEF Targets
    <3> QED BY <3>1, <3>2
  <2> QED
    BY <1>1, <2>2 DEF KillProcess, SendKill, Kill
<1>2. CASE pc = "wait" /\ UNCHANGED <<mPid, cur>> /\ (proc'[p] = proc[p] \/ proc'[p] = "zombie")
  BY <1>2 DEF WaitsForKilled, Awaited
<1>3. ASSUME NEW q \in Pids, Kernel(q) PROVE proc'[p] \in {"dying", "zombie"}
  <2>1. pc = "wait" /\ UNCHANGED <<mPid, cur>>
    BY <1>3 DEF Kernel, objVars, ctlVars
  <2>2. proc'[p] = proc[p] \/ proc'[p] = "zombie"
    BY <1>3 DEF Kernel, Exit, ForeignStart, ForeignExit
  <2> QED BY <1>2, <2>1, <2>2
<1>4. CASE UNCHANGED vars
  BY <1>2, <1>4 DEF vars, procVars, objVars, ctlVars
<1>5. ASSUME WaitProcess \/ ForkProcess \/ TaskParamCb PROVE FALSE
  BY <1>5 DEF WaitProcess, ForkProcess, TaskParamCb, StartTask, ConstructFails, Enter, Return, Die
<1>6. ASSUME NEW t \in Tasks, TaskTimeoutCb(t) PROVE FALSE
  BY <1>6 DEF TaskTimeoutCb, RestartTask, StartTask, Enter, Return
<1>7. ASSUME NEW pid, NEW name, NEW action, ProcessTaskAction(pid, name, action) PROVE FALSE
  BY <1>7 DEF ProcessTaskAction, RestartTask, StopTask, StartTask, Enter, Return
<1> QED
  BY <1>1, <1>3, <1>4, <1>5, <1>6, <1>7 DEF Next, LoopStep, Request

\* Whatever a stop waits for has been killed, so its waitpid returns as soon as
\* the kernel has ended a dying child: the safe half of StopReturns.
THEOREM StopsWaitForKilled == Spec => []WaitsForKilled
<1>1. Init => WaitsForKilled
  BY DEF Init, ObjInit, WaitsForKilled
<1> QED
  BY <1>1, WaitsInv, Invariance, PTL DEF Spec

-----------------------------------------------------------------------------
\* No handler ends the daemon.

\* A constructor that fails after stopTask does so before the daemon is up.
ThrowsBooting == pc \in {"kill", "wait"} /\ andThen = "throw" => Booting

\* "throw" is set only by a constructor, and taskList stays short until the end.
LEMMA ThrowsInv == Inv /\ ThrowsBooting /\ [Next]_vars => ThrowsBooting'
<1> SUFFICES ASSUME Inv, ThrowsBooting, [Next]_vars PROVE ThrowsBooting'
  OBVIOUS
<1> USE DEF ThrowsBooting, Enter, Return, Die
<1>1. CASE TaskParamCb
  BY <1>1 DEF TaskParamCb, StartTask, ConstructFails, MayStart, Booting
<1>2. CASE (KillProcess \/ WaitProcess \/ ForkProcess) /\ UNCHANGED taskList
  <2>1. CASE KillProcess
    BY <1>2, <2>1 DEF KillProcess, Booting
  <2>2. CASE WaitProcess
    BY <2>2 DEF WaitProcess, Inv, TypeOK
  <2>3. CASE ForkProcess
    BY <2>3 DEF ForkProcess
  <2> QED BY <1>2, <2>1, <2>2, <2>3
<1>3. ASSUME NEW t \in Tasks, TaskTimeoutCb(t) PROVE ThrowsBooting'
  BY <1>3 DEF TaskTimeoutCb, RestartTask, StartTask, MayStart
<1>4. ASSUME NEW pid, NEW name, NEW action, ProcessTaskAction(pid, name, action)
      PROVE ThrowsBooting'
  BY <1>4 DEF ProcessTaskAction, RestartTask, StartTask, StopTask, MayStart
<1>5. ASSUME NEW p \in Pids, Kernel(p) PROVE ThrowsBooting'
  BY <1>5 DEF Kernel, ctlVars, Booting
<1>6. CASE UNCHANGED vars
  BY <1>6 DEF vars, ctlVars, Booting
<1> QED
  BY <1>1, <1>2, <1>3, <1>4, <1>5, <1>6 DEF Next, LoopStep, Request

\* What a handler that is under way does not do.
Survives ==
  clean /\ ~Booting /\ pc \in {"kill", "wait", "fork"} => pc' # "dead"

\* stopTask kills a pid of the task's own, which is not 0, and only a constructor throws.
LEMMA StepSurvives == Inv /\ ThrowsBooting /\ [Next]_vars => Survives
<1> SUFFICES ASSUME Inv, ThrowsBooting, [Next]_vars, clean, ~Booting,
                    pc \in {"kill", "wait", "fork"}
             PROVE  pc' # "dead"
  BY DEF Survives
<1> USE DEF Enter, Return, Die
<1>1. CASE KillProcess
  <2>1. cur \in Tasks /\ mStatus[cur] # "U"
    BY <1>1 DEF KillProcess, Inv, TypeOK
  <2>2. mPid[cur] # 0
    BY <2>1, PidsAssumption DEF Inv, CleanOwnership
  <2> QED
    BY <1>1, <2>2 DEF KillProcess
<1>2. CASE WaitProcess
  BY <1>2 DEF WaitProcess, ThrowsBooting, Inv, TypeOK
<1>3. CASE ForkProcess
  BY <1>3 DEF ForkProcess
<1>4. ASSUME NEW p \in Pids, Kernel(p) PROVE pc' # "dead"
  BY <1>4 DEF Kernel, ctlVars
<1>5. CASE UNCHANGED vars
  BY <1>5 DEF vars, ctlVars
<1> QED
  BY <1>1, <1>2, <1>3, <1>4, <1>5
  DEF Next, LoopStep, Request, TaskParamCb, TaskTimeoutCb, ProcessTaskAction, Ready

\* Once it is up, and without junk and failed forks, the daemon outlives every start,
\* stop, restart and timeout: CleanOwnership excludes the pid 0, its own process group.
THEOREM HandlersOutlived == Spec => HandlersSurvive
<1>1. Init => ThrowsBooting
  BY DEF Init, ObjInit, ThrowsBooting
<1>2. Spec => []ThrowsBooting
  BY <1>1, ThrowsInv, Invariance, PTL DEF Spec
<1>3. Inv /\ ThrowsBooting /\ [Next]_vars => [Survives]_vars
  BY StepSurvives
<1>4. Spec => [][Survives]_vars
  BY <1>2, <1>3, Invariance, PTL DEF Spec
<1> QED
  BY <1>4 DEF HandlersSurvive, Survives

-----------------------------------------------------------------------------
\* TaskCore implements Supervisor.

\* The mapped variables.
Started == {t \in Tasks \ onJunk : mStatus[t] # "U"}
Live    == [t \in Tasks |-> Living(t)]

\* A process that lives is the one on record of its task, which is running.
LEMMA LivingOnRecord ==
  ASSUME Inv, NEW t \in Tasks, NEW p \in Living(t)
  PROVE  p \in Pids /\ Child(p) /\ mPid[t] = p /\ t \in Started /\ Living(t) = {p}
<1>1. p \in Pids /\ Child(p) /\ forkedBy[p] = t
  BY DEF Living, Child
<1>2. \A q \in Living(t) : mPid[t] = q
  BY NoOtherChild DEF Living, Child
<1>3. mStatus[t] = "R" /\ t \notin onJunk
  BY <1>1, NoOtherChild DEF Inv, Supervised
<1> QED
  BY <1>1, <1>2, <1>3, NoOtherChild DEF Started

\* The initial states map to initial states.
LEMMA InitRefines == Init => Sup!Init
<1> SUFFICES ASSUME Init PROVE Sup!Init
  OBVIOUS
<1>1. \A t \in Tasks \ onJunk : mStatus[t] = "U"
  BY DEF Init, ObjInit
<1>2. \A t \in Tasks : Living(t) = {}
  BY DEF Init, Living
<1> QED
  BY <1>1, <1>2 DEF Sup!Init

\* A step that leaves statuses and living processes alone is a stutter.
LEMMA Stutter ==
  ASSUME UNCHANGED <<mStatus, onJunk>>, \A t \in Tasks : Living(t)' = Living(t)
  PROVE  UNCHANGED Sup!vars
  BY DEF Sup!vars

\* An exit ends the one process of its task; other steps of the kernel and the
\* signal itself end nothing.
LEMMA KernelRefines ==
  ASSUME Inv, NEW p \in Pids, Kernel(p) PROVE [Sup!Next]_(Sup!vars)
<1> USE DEF Inv, TypeOK, ProcState
<1>1. UNCHANGED <<mStatus, onJunk>>
  BY DEF Kernel, objVars, hisVars
<1>2. CASE ForeignStart(p) \/ ForeignExit(p)
  <2>1. \A t \in Tasks : Living(t)' = Living(t)
    BY <1>2 DEF ForeignStart, ForeignExit, Living
  <2> QED
    BY <1>1, <2>1, Stutter
<1>3. CASE Exit(p)
  <2>1. PICK t \in Tasks : p \in Living(t)
    BY <1>3 DEF Exit, Living, NoLeakedChild, Child
  <2>2. Living(t) = {p}
    BY <2>1, LivingOnRecord
  <2>3. Living(t)' = {}
    <3>1. Living(t)' \subseteq Living(t)
      BY <1>3 DEF Exit, Living
    <3>2. p \notin Living(t)'
      BY <1>3 DEF Exit, Living
    <3> QED
      BY <2>2, <3>1, <3>2
  <2>4. \A u \in Tasks : u # t => Living(u)' = Living(u)
    BY <1>3, <2>1 DEF Exit, Living
  <2>5. Live' = [Live EXCEPT ![t] = {}]
    BY <2>1, <2>3, <2>4 DEF Live
  <2>6. Sup!End(t)
    BY <1>1, <2>1, <2>2, <2>5 DEF Sup!End, Live
  <2> QED
    BY <2>1, <2>6 DEF Sup!Next
<1> QED
  BY <1>2, <1>3 DEF Kernel

\* A task is declared stopped when waitpid returned: then none of its processes lives.
LEMMA WaitRefines ==
  ASSUME Inv, WaitProcess PROVE [Sup!Next]_(Sup!vars)
<1> USE DEF Inv, TypeOK, ProcState, WaitProcess, AwaitChild
<1>1. PICK c \in Tasks : c = cur /\ mStatus' = [mStatus EXCEPT ![c] = "U"]
                         /\ onJunk' = onJunk \ {c}
  OBVIOUS
<1>2. \A t \in Tasks : Living(t)' = Living(t)
  BY DEF WaitPid, Awaited, Living, procVars
<1>3. CASE c \notin Started
  BY <1>1, <1>2, <1>3 DEF Sup!vars, Started
<1>4. CASE c \in Started
  <2>1. Living(c) = {}
    <3> SUFFICES ASSUME NEW p \in Living(c) PROVE FALSE
      OBVIOUS
    <3>1. p \in Pids /\ Child(p) /\ mPid[c] = p /\ proc[p] # "zombie"
      BY <1>1, LivingOnRecord DEF Living
    <3>2. Awaited(mPid[c]) = {p}
      BY <3>1, PidsAssumption DEF Awaited
    <3> QED
      BY <1>1, <3>1, <3>2 DEF WaitPid
  <2>2. Sup!Stop(c)
    BY <1>1, <1>2, <1>4, <2>1 DEF Sup!Stop, Started
  <2> QED
    BY <1>1, <2>2 DEF Sup!Next
<1> QED
  BY <1>1, <1>3, <1>4

\* A fork happens in status U, when no process of the task lives.
LEMMA ForkRefines ==
  ASSUME Inv, ForkProcess PROVE [Sup!Next]_(Sup!vars)
<1> USE DEF Inv, TypeOK, ProcState, ForkProcess
<1>1. PICK c \in Tasks : /\ c = cur /\ mStatus[c] = "U"
                         /\ mStatus' = [mStatus EXCEPT ![c] = "R"]
                         /\ UNCHANGED onJunk /\ c \notin onJunk
  BY DEF Supervised
<1>2. Living(c) = {} /\ c \notin Started /\ Started' = Started \cup {c}
  BY <1>1, LivingOnRecord DEF Started
<1>3. CASE UNCHANGED procVars
  <2>1. \A t \in Tasks : Living(t)' = Living(t)
    BY <1>3 DEF Living, procVars
  <2>2. Sup!Start(c)
    BY <1>1, <1>2, <2>1 DEF Sup!Start, Started
  <2> QED
    BY <1>1, <2>2 DEF Sup!Next
<1>4. ASSUME NEW p \in Pids, Fork(cur, p) PROVE [Sup!Next]_(Sup!vars)
  <2>1. \A t \in Tasks : p \notin Living(t)
    BY <1>4 DEF Fork, Living
  <2>2. \A t \in Tasks : Living(t)' = IF t = c THEN Living(t) \cup {p} ELSE Living(t)
    BY <1>1, <1>4 DEF Fork, Living
  <2>3. Live' = [Live EXCEPT ![c] = {p}]
    BY <1>1, <1>2, <2>2 DEF Live
  <2>4. p \in Pids \ UNION {Live[u] : u \in Tasks}
    BY <2>1 DEF Live
  <2>5. Sup!Start(c)
    BY <1>1, <1>2, <2>3, <2>4 DEF Sup!Start, Started, Live
  <2> QED
    BY <1>1, <2>5 DEF Sup!Next
<1> QED
  BY <1>3, <1>4

\* Every step of the daemon maps to a step of the supervisor or to a stutter.
LEMMA NextRefines == Inv /\ [Next]_vars => [Sup!Next]_(Sup!vars)
<1> SUFFICES ASSUME Inv, [Next]_vars PROVE [Sup!Next]_(Sup!vars)
  OBVIOUS
<1>1. CASE UNCHANGED <<procVars, objVars, hisVars>>
  BY <1>1, Stutter DEF procVars, objVars, hisVars, Living
<1>2. CASE KillProcess
  <2>1. \A t \in Tasks : Living(t)' = Living(t)
    BY <1>2 DEF KillProcess, SendKill, Kill, Targets, Living, Inv, TypeOK, ProcState
  <2>2. UNCHANGED <<mStatus, onJunk>>
    BY <1>2 DEF KillProcess
  <2> QED
    BY <2>1, <2>2, Stutter
<1>3. ASSUME NEW p \in Pids, Kernel(p) PROVE [Sup!Next]_(Sup!vars)
  BY <1>3, KernelRefines
<1> QED
  BY <1>1, <1>2, <1>3, WaitRefines, ForkRefines
  DEF Next, LoopStep, Request, TaskParamCb, TaskTimeoutCb, ProcessTaskAction, vars,
      procVars, objVars, hisVars

\* TaskCore implements Supervisor: whatever the order of starts, stops, timeouts,
\* exits, failed forks and pid reuse, a task never has two processes, and is
\* declared stopped only when it has none.
THEOREM SupervisorImplemented == Spec => ImplementsSupervisor
<1>1. Init => Sup!Init
  BY InitRefines
<1>2. Inv /\ [Next]_vars => [Sup!Next]_(Sup!vars)
  BY NextRefines
<1> QED
  BY <1>1, <1>2, Invariance, PTL DEF Spec, ImplementsSupervisor, Sup!Spec
=============================================================================
