------------------------------- MODULE Daemon -------------------------------
(***************************************************************************)
(* taskd at work: TaskCore's tasks together with the clients that talk to  *)
(* it, one message at a time (Connection shows that bytes, chunks and ids  *)
(* add nothing to that).  The processes of the tasks send heartbeats, the  *)
(* command line tools send requests.  A process that is killed or exits,   *)
(* and a tool that gives up, leave what they have written in the socket:   *)
(* the daemon reads it after whatever handler it is in.                    *)
(*                                                                         *)
(* What a message asks for changes no task: heartbeats and actions are     *)
(* answered with an error (WireAssumption), the queries only read.         *)
(*                                                                         *)
(* The objects of the clients are ClientObjects'; what their faults can do *)
(* to the daemon is here one action, which a configuration may leave out.  *)
(***************************************************************************)
EXTENDS TaskCore

CONSTANTS
  Tools,         \* runs of taskcli
  ObjectFaults   \* whether the faults of the client objects may end the daemon

Clients == Pids \cup Tools

Wire == INSTANCE Protocol
          WITH KnownPids <- Pids, KnownNames <- Names,
               NoName <- NoTask, EmptyName <- NoTask, ListLen <- 1

ASSUME WireAssumption ==
  \A pid \in Pids, type \in {"HEARTBEAT", "TASK_ACTION"} :
    Wire!ErrCode([type |-> type, pid |-> pid, name |-> NoTask]) = "PARSE"
ASSUME ToolsAssumption == Tools \cap Pids = {} /\ ObjectFaults \in BOOLEAN

VARIABLES
  msg,      \* of each client: "none", or its last message, which is "sent" and
            \* not read, "answered", "unanswered" for lack of memory, answered by
            \* a "closed" connection, or an "orphan": its client is gone
  heard     \* history: tasks heard of since their timer was armed

daemonVars == <<vars, msg, heard>>

DaemonInit ==
  /\ Init
  /\ msg = [c \in Clients |-> "none"]
  /\ heard = {}

\* What a client that ends leaves in its socket.
Gone(c) == IF msg[c] \in {"sent", "orphan"} THEN "orphan" ELSE "none"

-----------------------------------------------------------------------------
\* The daemon's own steps (TaskCore), and what they mean for the messages.

Loop ==
  /\ LoopStep
  /\ heard' = IF pc = "fork" THEN heard \ {cur} ELSE heard
  /\ UNCHANGED msg

Timeout(t) == TaskTimeoutCb(t) /\ UNCHANGED <<msg, heard>>

\* A process that ends leaves its connection, with what it had written.
Machine(p) ==
  /\ Kernel(p)
  /\ msg' = IF proc'[p] = "zombie" /\ proc[p] # "zombie"
            THEN [msg EXCEPT ![p] = Gone(p)] ELSE msg
  /\ UNCHANGED heard

-----------------------------------------------------------------------------
\* The clients.  One message each at a time (bound: the process that gets a pid
\* waits until the last message sent under that pid is dealt with).
Send(c) ==
  /\ pc # "dead" /\ msg[c] \notin {"sent", "orphan"}
  /\ c \in Pids => proc[c] = "run"
  /\ msg' = [msg EXCEPT ![c] = "sent"]
  /\ UNCHANGED <<vars, heard>>

\* taskcli gives up: its request timed out, or somebody stopped it.
Leave(c) ==
  /\ pc # "dead" /\ msg[c] = "sent"
  /\ msg' = [msg EXCEPT ![c] = "orphan"]
  /\ UNCHANGED <<vars, heard>>

\* The message is read, handled and answered; the timer of the task it came
\* from is left as it is (refreshHeartBeat has no caller).  When recvData fails
\* (no room, no JSON, no memory to parse it) the connection is closed; when there
\* is no memory to copy the message or to print an answer, the client gets none.
Serve(c) ==
  /\ Ready /\ msg[c] = "sent"
  /\ \/ /\ msg' = [msg EXCEPT ![c] = "answered"]
        /\ heard' = IF c \in Pids THEN heard \cup {forkedBy[c]} ELSE heard
     \/ /\ msg' = [msg EXCEPT ![c] = "closed"]
        /\ UNCHANGED heard
     \/ /\ msg' = [msg EXCEPT ![c] = "unanswered"]
        /\ UNCHANGED heard
  /\ UNCHANGED vars

\* The same for a client that is gone: the write of the answer raises SIGPIPE,
\* which nobody ignores - unless there is no memory for an answer.
ServeOrphan(c) ==
  /\ Ready /\ msg[c] = "orphan"
  /\ msg' = [msg EXCEPT ![c] = "none"]
  /\ Die \/ UNCHANGED ctlVars
  /\ UNCHANGED <<procVars, objVars, hisVars, taskList, heard>>

\* An accepted client whose object cannot be built (the constructor throws, the
\* accept handler does not catch), the clean-up timer on an object it has freed, or
\* the watcher of a freed one: ClientObjects says when.
ObjectsFault ==
  /\ ObjectFaults
  /\ Ready
  /\ Die
  /\ UNCHANGED <<procVars, objVars, hisVars, taskList, msg, heard>>

DaemonNext ==
  \/ Loop
  \/ \E t \in Tasks : Timeout(t)
  \/ \E p \in Pids : Machine(p)
  \/ \E c \in Clients : Send(c) \/ Serve(c) \/ ServeOrphan(c)
  \/ \E c \in Tools : Leave(c)
  \/ ObjectsFault

DaemonSpec == DaemonInit /\ [][DaemonNext]_daemonVars

\* As in TaskCore; and each round of the loop reads every socket that has data.
DaemonFairness ==
  /\ WF_daemonVars(Loop)
  /\ \A t \in Tasks : SF_daemonVars(Timeout(t))
  /\ \A p \in Pids : WF_daemonVars(proc[p] = "dying" /\ Machine(p))
  /\ \A c \in Clients : SF_daemonVars(Serve(c) \/ ServeOrphan(c))

DaemonFairSpec == DaemonSpec /\ DaemonFairness

-----------------------------------------------------------------------------
\* A client that has written is not left waiting for the daemon, however often that
\* blocks in waitpid: its message is answered, its connection closed, or there was
\* no memory for an answer - unless the client leaves or the daemon dies.
Served ==
  \A c \in Clients :
    msg[c] = "sent"
      ~> msg[c] \in {"answered", "closed", "unanswered"} \/ msg[c] = "orphan" \/ pc = "dead"

-----------------------------------------------------------------------------
\* Claims of the code's own texts which the code does not keep.

\* TaskObjClient.cpp:28, "client close!" and the connection is stopped: once
\* started, the daemon does not die of a client that leaves.
DaemonSurvives == [][pc' = "dead" => Booting \/ pc = "dead"]_daemonVars

\* TaskObj.cpp:20, "task %s timeout!!!": a task is timed out if it was silent
\* since its timer was armed.
TimeoutMeansSilence == [][\A t \in Tasks : Timeout(t) => t \notin heard]_daemonVars
=============================================================================
