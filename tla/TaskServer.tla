----------------------------- MODULE TaskServer -----------------------------
(***************************************************************************)
(* TaskServer.cpp: the daemon's listening socket.  bind creates a file,    *)
(* and nothing in the code ever removes it: it outlives the socket and the *)
(* daemon.  The methods run in the loop thread, each in one step.  No code *)
(* calls them: startServer is only called by restartServer.                *)
(***************************************************************************)
EXTENDS Integers, FiniteSets

CONSTANTS
  Fds,        \* descriptors the kernel hands out (0 to 2 are taken)
  MaxFails    \* bound: failures of socket, listen and the watcher

ASSUME FdsAssumption == Fds \subseteq Nat \ {0}

VARIABLES
  mServerFd, mServerIo,   \* the socket, and the fd that is watched, or NoFd
  fds,                    \* what is behind each fd: "free" or "listen"
  bound,                  \* does the file TASK_UNIX_PATH exist
  pc,                     \* "loop", or why the daemon is not in its loop any more
  fails

serverVars == <<mServerFd, mServerIo, fds, bound, pc, fails>>

NoFd == -1

ServerInit ==
  /\ mServerFd = NoFd /\ mServerIo = NoFd
  /\ fds = [f \in Fds |-> "free"]
  /\ bound \in BOOLEAN     \* left by an earlier daemon
  /\ pc = "loop" /\ fails = 0

\* stopServer: the fds as it leaves them.
Stopped_Open == fds
Stopped == IF mServerFd > 0 THEN [fds EXCEPT ![mServerFd] = "free"] ELSE fds

StopServer ==
  /\ pc = "loop"
  /\ mServerFd' = NoFd /\ mServerIo' = NoFd
  /\ fds' = Stopped
  /\ UNCHANGED <<bound, pc, fails>>

\* restartServer: stopServer, then startServer.  The file makes bind fail
\* whenever a bind has succeeded before; then, or if socket, listen or the
\* watcher fails (the last two after bind), there is no server.
RestartServer ==
  /\ pc = "loop"
  /\ \/ /\ ~bound
        /\ \E f \in {g \in Fds : Stopped[g] = "free"} :
             /\ fds' = [Stopped EXCEPT ![f] = "listen"]
             /\ mServerFd' = f /\ mServerIo' = f
        /\ bound' = TRUE
        /\ UNCHANGED fails
     \/ /\ bound
        /\ mServerFd' = NoFd /\ mServerIo' = NoFd /\ fds' = Stopped
        /\ UNCHANGED <<bound, fails>>
     \/ /\ fails < MaxFails
        /\ mServerFd' = NoFd /\ mServerIo' = NoFd /\ fds' = Stopped
        /\ bound' \in {bound, TRUE}
        /\ fails' = fails + 1
  /\ UNCHANGED pc

\* Somebody removes the file by hand.
RemoveFile ==
  /\ bound /\ pc = "loop"
  /\ bound' = FALSE
  /\ UNCHANGED <<mServerFd, mServerIo, fds, pc, fails>>

ServerStep == StopServer \/ RestartServer \/ RemoveFile

\* However starts, failures and stops follow one another, there is at most one
\* listening socket, it is the one on record and it is watched.
OneListener ==
  /\ mServerIo = mServerFd
  /\ {f \in Fds : fds[f] = "listen"} = {mServerFd} \ {NoFd}
=============================================================================
