------------------------------- MODULE TaskObj -------------------------------
(***************************************************************************)
(* TaskObj.cpp: one supervised task.  The daemon has one event-loop thread,*)
(* so at most one handler is inside a TaskObj at a time; pc says where that *)
(* thread is.  stopTask is cut where other processes can move: before the  *)
(* kill, and in waitpid, which blocks the whole loop.                      *)
(*                                                                         *)
(* mStatus and mPid have no initialiser and the constructor does not set   *)
(* them, so a new object holds what the heap held: JunkStatus, JunkPids.   *)
(***************************************************************************)
EXTENDS Process

CONSTANTS
  JunkStatus,    \* values of uninitialised mStatus: "U" (zero), "R" (one), "junk"
  JunkPids,      \* values of uninitialised mPid (no process group below -1)
  MaxForkFails   \* bound: failed fork() calls

ASSUME JunkAssumption == /\ JunkStatus \subseteq {"U", "R", "junk"}
                         /\ JunkPids \subseteq Nat \cup {-1}

VARIABLES
  mStatus,    \* "U" unknown (stopped), "R" running, "junk" any other value
  mPid,       \* pid of the last fork, kept after a stop
  mTimer,     \* is the heartbeat timer armed
  pc,         \* the loop thread: "loop" idle, "kill" and "wait" in stopTask,
              \* "fork" in startTask, "dead" when the daemon is gone
  cur,        \* the task of the handler that runs, NoTask when idle
  andThen,    \* what follows stopTask: "return", "start" or "throw"
  forkFails,  \* failed forks so far
  clean,      \* history: no fork failed and no object was built on junk
  onJunk,     \* history: tasks built on a junk status which no stop has reset
  stray       \* history: a stop hit a process its task had not forked

objVars == <<mStatus, mPid, mTimer>>
ctlVars == <<pc, cur, andThen>>
hisVars == <<forkFails, clean, onJunk, stray>>

Enter(step, t, next) == pc' = step /\ cur' = t /\ andThen' = next
Return               == Enter("loop", NoTask, "return")
Die                  == Enter("dead", NoTask, "return")

\* The object as the heap gives it, before the constructor.
ObjInit ==
  /\ mStatus \in [Tasks -> JunkStatus]
  /\ mPid    \in [Tasks -> JunkPids]
  /\ mTimer    = [t \in Tasks |-> FALSE]
  /\ pc        = "loop"
  /\ cur       = NoTask
  /\ andThen   = "return"
  /\ forkFails = 0
  /\ onJunk    = {t \in Tasks : mStatus[t] # "U"}
  /\ clean     = (onJunk = {})
  /\ stray     = FALSE

-----------------------------------------------------------------------------
\* The public methods up to their first system call.  All run in the loop thread.

MayStart_NoGuard(t) == TRUE
MayStart(t)         == mStatus[t] = "U"

\* startTask refuses a task that is not in status U: "task is running!" - also
\* when that status is what the heap held.
StartTask(t) == IF MayStart(t) THEN Enter("fork", t, "return") ELSE Return

\* stopTask refuses a task in status U: "timer is already stopped!".
StopTask(t) == IF mStatus[t] = "U" THEN Return ELSE Enter("kill", t, "return")

\* restartTask ignores the result of stopTask and starts.
RestartTask(t) == IF mStatus[t] = "U" THEN StartTask(t) ELSE Enter("kill", t, "start")

\* The constructor when the timer cannot be created: clearTask (which stops
\* a task whose junk status is not U) and a throw nobody catches.
ConstructFails(t) ==
  IF mStatus[t] = "U" THEN Die ELSE Enter("kill", t, "throw")

-----------------------------------------------------------------------------
\* The rest of stopTask and startTask.

SendKill_Skipped(t) == UNCHANGED procVars
SendKill(t)         == Kill(mPid[t])

\* kill(mPid, SIGKILL), whose error is only logged; then the timer stops.
\* The mReadIo block is dead: the constructor sets mReadIo to NULL for good.
KillProcess ==
  /\ pc = "kill"
  /\ SendKill(cur)
  /\ stray' = (stray \/ \E p \in Targets(mPid[cur]) : forkedBy[p] # cur)
  /\ mTimer' = [mTimer EXCEPT ![cur] = FALSE]
  /\ IF mPid[cur] = 0 THEN Die ELSE Enter("wait", cur, andThen)
  /\ UNCHANGED <<mStatus, mPid, forkFails, clean, onJunk>>

\* What stopTask waits for before it declares the task stopped.
AwaitChild_Any(t) == WaitPid(-1)
AwaitChild(t)     == WaitPid(mPid[t])

\* waitpid(mPid); mStatus = U; and on to what the caller of stopTask does next.
WaitProcess ==
  /\ pc = "wait"
  /\ AwaitChild(cur)
  /\ mStatus' = [mStatus EXCEPT ![cur] = "U"]
  /\ onJunk' = onJunk \ {cur}
  /\ CASE andThen = "return" -> Return
       [] andThen = "start"  -> Enter("fork", cur, "return")
       [] andThen = "throw"  -> Die
  /\ UNCHANGED <<mPid, mTimer, forkFails, clean, stray>>

ArmTimer_Skipped(t) == UNCHANGED mTimer
ArmTimer(t)         == mTimer' = [mTimer EXCEPT ![t] = TRUE]

Record_Skipped(t, pid) == UNCHANGED mPid
Record(t, pid)         == mPid' = [mPid EXCEPT ![t] = pid]

\* fork(), then mPid = pid whatever fork returned: -1 is stored as the pid of
\* a running task.
ForkProcess ==
  /\ pc = "fork"
  /\ \/ \E p \in Pids :
          /\ Fork(cur, p)
          /\ Record(cur, p)
          /\ UNCHANGED <<forkFails, clean>>
     \/ /\ forkFails < MaxForkFails
        /\ forkFails' = forkFails + 1
        /\ clean' = FALSE
        /\ Record(cur, -1)
        /\ UNCHANGED procVars
  /\ mStatus' = [mStatus EXCEPT ![cur] = "R"]
  /\ ArmTimer(cur)
  /\ Return
  /\ UNCHANGED <<onJunk, stray>>
=============================================================================
