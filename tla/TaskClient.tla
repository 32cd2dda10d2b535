----------------------------- MODULE TaskClient -----------------------------
(***************************************************************************)
(* task_client.cpp: the thread inside a supervised task that keeps a       *)
(* connection to taskd and sends heartbeats over it.  Its event loop runs  *)
(* one callback at a time: a delayed reconnect event, a read, or the       *)
(* heartbeat timer.  libev's watchers are level-triggered, so a socket at  *)
(* end of file is reported in every round of the loop until it is closed.  *)
(* The daemon comes, goes, answers and closes as it likes.                 *)
(***************************************************************************)
EXTENDS Integers

CONSTANTS
  Fds,          \* descriptors socket() can return (0 to 2 are taken)
  SigPipe,      \* what SIGPIPE may do to this task: "dies", "ignored"
  MaxUnread,    \* bound: heartbeats, and replies, under way at one time
  MaxEvents     \* bound: reconnect events queued at one time

ASSUME FdsAssumption == Fds \subseteq Nat \ {0}
ASSUME BoundsAssumption == MaxUnread \in Nat \ {0} /\ MaxEvents \in Nat \ {0, 1}

VARIABLES
  s_client_fd, s_client_io, s_msg_client,  \* the fd each of them stands for, or NoFd
  s_heartbeat_timer,                       \* "stopped" or "running"
  events,      \* delayed connect_server_event_cb events in the queue
  conn,        \* the socket behind each fd
  taskd,       \* "up" while the daemon accepts connections, or "down"
  pc           \* "init" before inst_init_cb, "loop", "dead" when the task is gone

globals == <<s_client_fd, s_client_io, s_msg_client, s_heartbeat_timer>>
vars    == <<globals, events, conn, taskd, pc>>

NoFd == -1

\* link: closed here, up, or closed there with ("reset") or without ("eof")
\* data the daemon had not read; asked: heartbeats not answered yet; unread:
\* replies in the socket.
Conn == [link : {"closed", "up", "eof", "reset"}, asked : 0..MaxUnread, unread : 0..MaxUnread]

Closed == [link |-> "closed", asked |-> 0, unread |-> 0]
Fresh  == [link |-> "up", asked |-> 1, unread |-> 0]
Hangup == [link |-> "eof", asked |-> 0, unread |-> 0]

Init ==
  /\ s_client_fd = NoFd /\ s_client_io = NoFd /\ s_msg_client = NoFd
  /\ s_heartbeat_timer = "stopped"
  /\ events = 0
  /\ conn = [f \in Fds |-> Closed]
  /\ taskd \in {"up", "down"}
  /\ pc = "init"

SetGlobalData(f, timer) ==
  /\ s_client_fd' = f /\ s_client_io' = f /\ s_msg_client' = f
  /\ s_heartbeat_timer' = timer

\* SIGPIPE or an exception ends the process: the kernel closes what it had open.
Die ==
  /\ pc' = "dead"
  /\ SetGlobalData(NoFd, "stopped")
  /\ events' = 0
  /\ conn' = [f \in Fds |-> Closed]

-----------------------------------------------------------------------------
\* clear_global_data: the sockets as it leaves them.
ClosedByClear_NoClose == conn
ClosedByClear ==
  IF s_client_fd > 0 THEN [conn EXCEPT ![s_client_fd] = Closed] ELSE conn

\* connect_server_event_cb: another event if connect_to_server failed.
Requeue_Never(queued) == events' = queued
Requeue(queued)       == events' = queued + 1

\* connect_to_server fails: nobody listens, or socket, connect or
\* libev_api_watchio_create does (each closes what was opened before it).
ConnectFails(queued) ==
  /\ conn' = ClosedByClear
  /\ SetGlobalData(NoFd, "stopped")
  /\ Requeue(queued)
  /\ pc' = "loop"

\* No memory for the MsgClient or its ring buffer: new throws and nobody catches.
ConnectThrows == taskd = "up" /\ Die

\* connect_to_server succeeds: the first heartbeat is sent, the timer starts.
ConnectSucceeds(queued) ==
  /\ taskd = "up"
  /\ \E f \in {g \in Fds : ClosedByClear[g].link = "closed"} :
       /\ conn' = [ClosedByClear EXCEPT ![f] = Fresh]
       /\ SetGlobalData(f, "running")
  /\ events' = queued
  /\ pc' = "loop"

\* The daemon has closed the new connection before the heartbeat is written.
ConnectIsCut(queued) ==
  /\ taskd = "up"
  /\ \/ "dies" \in SigPipe /\ Die
     \/ /\ "ignored" \in SigPipe
        /\ \E f \in {g \in Fds : ClosedByClear[g].link = "closed"} :
             /\ conn' = [ClosedByClear EXCEPT ![f] = Hangup]
             /\ SetGlobalData(f, "running")
        /\ events' = queued
        /\ pc' = "loop"

ConnectServerEvent(queued) ==
  /\ \/ ConnectFails(queued) \/ ConnectThrows
     \/ ConnectSucceeds(queued) \/ ConnectIsCut(queued)
  /\ UNCHANGED taskd

\* inst_init_cb, and connect_server_event_cb when the delay of an event is over.
InstInit == pc = "init" /\ ConnectServerEvent(0)
Reconnect == pc = "loop" /\ events > 0 /\ ConnectServerEvent(events - 1)

-----------------------------------------------------------------------------
Readable(f) == conn[f].unread > 0 \/ conn[f].link \in {"eof", "reset"}

\* One reply is read; recvData fails if the ring buffer is full.
ReadReply(f) ==
  /\ conn[f].unread > 0
  /\ conn' = [conn EXCEPT ![f].unread = @ - 1]
  /\ events' \in {events, events + 1}

ReadEof(f) ==
  /\ conn[f].unread = 0 /\ conn[f].link = "eof"
  /\ events' = events + 1
  /\ UNCHANGED conn

\* ECONNRESET: an event, no break, and the read that follows finds the end of
\* file: a second event.
ReadError(f) ==
  /\ conn[f].unread = 0 /\ conn[f].link = "reset"
  /\ events' = events + 2
  /\ conn' = [conn EXCEPT ![f].link = "eof"]

\* client_readio_cb.
ClientReadIo ==
  /\ pc = "loop" /\ s_client_io # NoFd
  /\ events + 2 <= MaxEvents
  /\ ReadReply(s_client_io) \/ ReadEof(s_client_io) \/ ReadError(s_client_io)
  /\ UNCHANGED <<globals, taskd, pc>>

\* heartbeat_timer_cb.  The reply is an error for every heartbeat (Protocol),
\* so heartbeat_req_cb never adopts a new period.
HeartbeatTimer ==
  /\ pc = "loop" /\ s_heartbeat_timer = "running"
  /\ IF s_msg_client = NoFd THEN UNCHANGED <<globals, events, conn, pc>>
     ELSE \/ /\ conn[s_msg_client].link = "up"
             /\ conn[s_msg_client].asked < MaxUnread
             /\ conn' = [conn EXCEPT ![s_msg_client].asked = @ + 1]
             /\ UNCHANGED <<globals, events, pc>>
          \/ /\ conn[s_msg_client].link # "up" /\ "dies" \in SigPipe
             /\ Die
          \/ /\ conn[s_msg_client].link # "up" /\ "ignored" \in SigPipe
             /\ UNCHANGED <<globals, events, conn, pc>>
  /\ UNCHANGED taskd

-----------------------------------------------------------------------------
\* The daemon (its own behaviour is in Connection and TaskCore).

Answer(f) ==
  /\ conn[f].link = "up" /\ conn[f].asked > 0 /\ conn[f].unread < MaxUnread
  /\ conn' = [conn EXCEPT ![f].asked = @ - 1, ![f].unread = @ + 1]
  /\ UNCHANGED <<globals, events, taskd, pc>>

\* What the daemon's close makes of a connection: a heartbeat it has not read
\* resets it.
Cut(c) ==
  IF c.link # "up" THEN {c}
  ELSE {[link |-> l, asked |-> 0, unread |-> c.unread] :
          l \in IF c.asked > 0 THEN {"eof", "reset"} ELSE {"eof"}}

CloseByServer(f) ==
  /\ conn[f].link = "up"
  /\ \E c \in Cut(conn[f]) : conn' = [conn EXCEPT ![f] = c]
  /\ UNCHANGED <<globals, events, taskd, pc>>

\* It stops listening when it dies, with all its connections, and listens
\* again when somebody has started it anew.
DaemonDies ==
  /\ taskd = "up"
  /\ taskd' = "down"
  /\ \E cut \in [Fds -> UNION {Cut(conn[f]) : f \in Fds}] :
       /\ \A f \in Fds : cut[f] \in Cut(conn[f])
       /\ conn' = cut
  /\ UNCHANGED <<globals, events, pc>>

DaemonListens ==
  /\ taskd = "down"
  /\ taskd' = "up"
  /\ UNCHANGED <<globals, events, conn, pc>>

Daemon == DaemonDies \/ DaemonListens \/ \E f \in Fds : Answer(f) \/ CloseByServer(f)

Next == InstInit \/ Reconnect \/ ClientReadIo \/ HeartbeatTimer \/ Daemon

Spec == Init /\ [][Next]_vars

\* The thread's loop runs a read handler whose socket is readable and an event
\* whose delay is over.  Nothing is assumed of the daemon or of the period.
Fairness ==
  /\ WF_vars(InstInit) /\ WF_vars(Reconnect)
  /\ WF_vars(ClientReadIo)

FairSpec == Spec /\ Fairness

-----------------------------------------------------------------------------
TypeOK ==
  /\ s_client_fd \in Fds \cup {NoFd}
  /\ s_client_io \in Fds \cup {NoFd} /\ s_msg_client \in Fds \cup {NoFd}
  /\ s_heartbeat_timer \in {"stopped", "running"} /\ taskd \in {"up", "down"}
  /\ pc \in {"init", "loop", "dead"}
  /\ events \in 0..MaxEvents
  /\ conn \in [Fds -> Conn]

\* Whatever fails in the middle of a reconnect, and however many reconnects are
\* queued, there is one connection: the open socket, the watcher and the
\* MsgClient belong together, no socket is left open, and heartbeats are due
\* exactly while there is a connection.
OneConnection ==
  /\ s_client_io = s_client_fd /\ s_msg_client = s_client_fd
  /\ {f \in Fds : conn[f].link # "closed"} = {s_client_fd} \ {NoFd}
  /\ s_heartbeat_timer = "running" <=> s_client_fd # NoFd

InTouch == s_client_fd # NoFd /\ conn[s_client_fd].link = "up"

\* A task that has lost the daemon never stops trying: a reconnect is queued, or
\* its read handler is about to queue one.
NeverAbandoned ==
  pc = "loop" /\ ~InTouch => events > 0 \/ (s_client_io # NoFd /\ Readable(s_client_io))

\* What can go wrong while the daemon is up: it closes a connection, or a connect
\* that it would have accepted fails or is cut.
Setback ==
  \/ \E f \in Fds : CloseByServer(f)
  \/ taskd = "up" /\ (InstInit \/ Reconnect) /\ ~InTouch'

=============================================================================
