-------------------------- MODULE TaskClientProofs --------------------------
(***************************************************************************)
(* The connection of task_client for any descriptors, queue of reconnects  *)
(* and failures, and whether or not the task survives a SIGPIPE; and the   *)
(* delay of getRandom for any width of an integer.                         *)
(***************************************************************************)
EXTENDS TaskClient, Random, TLAPS

Inv == TypeOK /\ OneConnection /\ NeverAbandoned

LEMMA RecordTypes ==
  /\ Closed \in Conn /\ Fresh \in Conn /\ Hangup \in Conn
  /\ Closed.link = "closed" /\ Fresh.link = "up" /\ Hangup.link = "eof"
  BY BoundsAssumption DEF Closed, Fresh, Hangup, Conn

LEMMA InitInv == Init => Inv
<1> SUFFICES ASSUME Init PROVE Inv
  OBVIOUS
<1>1. TypeOK
  BY RecordTypes, BoundsAssumption DEF Init, TypeOK
<1>2. OneConnection
  BY RecordTypes DEF Init, OneConnection
<1> QED
  BY <1>1, <1>2 DEF Init, Inv, NeverAbandoned

\* With one connection, clear_global_data leaves no socket open.
LEMMA AllClosed ==
  ASSUME Inv
  PROVE  ClosedByClear \in [Fds -> Conn] /\ \A f \in Fds : ClosedByClear[f].link = "closed"
<1> USE DEF Inv, TypeOK, OneConnection
<1>1. CASE s_client_fd = NoFd
  BY <1>1 DEF ClosedByClear, NoFd
<1>2. CASE s_client_fd \in Fds
  <2>1. s_client_fd > 0
    BY <1>2, FdsAssumption
  <2>2. \A f \in Fds : f # s_client_fd => conn[f].link = "closed"
    OBVIOUS
  <2> QED
    BY <1>2, <2>1, <2>2, RecordTypes DEF ClosedByClear
<1> QED
  BY <1>1, <1>2

\* A task that dies leaves nothing behind.
LEMMA DieInv ==
  ASSUME Inv, Die, taskd' \in {"up", "down"} PROVE Inv'
<1> USE DEF Die, SetGlobalData
<1>1. TypeOK'
  BY RecordTypes, BoundsAssumption DEF TypeOK
<1>2. OneConnection'
  BY RecordTypes DEF OneConnection
<1> QED
  BY <1>1, <1>2 DEF Inv, NeverAbandoned

\* A socket f replaces the one that was closed.
LEMMA SwitchInv ==
  ASSUME Inv, NEW f \in Fds, NEW c \in Conn, c.link \in {"up", "eof"},
         conn' = [ClosedByClear EXCEPT ![f] = c], SetGlobalData(f, "running"),
         events' \in 0..MaxEvents, pc' = "loop", taskd' \in {"up", "down"}
  PROVE  Inv'
<1> USE DEF SetGlobalData
<1>1. /\ conn' \in [Fds -> Conn]
      /\ \A g \in Fds : conn'[g].link = IF g = f THEN c.link ELSE "closed"
  BY AllClosed
<1>2. TypeOK'
  BY <1>1, RecordTypes DEF TypeOK
<1>3. f # NoFd
  BY FdsAssumption DEF NoFd
<1>4. OneConnection'
  BY <1>1, <1>3, RecordTypes DEF OneConnection
<1>5. NeverAbandoned'
  BY <1>1, <1>3 DEF NeverAbandoned, InTouch, Readable
<1> QED
  BY <1>2, <1>4, <1>5 DEF Inv

\* A reconnect, from a queue that still holds the given number of events.
LEMMA ConnectInv ==
  ASSUME Inv, NEW queued \in 0..(MaxEvents - 1), ConnectServerEvent(queued)
  PROVE  Inv'
<1> USE DEF ConnectServerEvent
<1>1. taskd' \in {"up", "down"}
  BY DEF Inv, TypeOK
<1>2. CASE ConnectFails(queued)
  <2> USE <1>2 DEF ConnectFails, SetGlobalData, Requeue
  <2>1. /\ conn' \in [Fds -> Conn] /\ \A f \in Fds : conn'[f].link = "closed"
        /\ events' = queued + 1
    BY AllClosed
  <2>2. TypeOK'
    BY <1>1, <2>1, RecordTypes, BoundsAssumption DEF TypeOK
  <2>3. OneConnection'
    BY <2>1, RecordTypes DEF OneConnection
  <2>4. NeverAbandoned'
    BY <2>1 DEF NeverAbandoned
  <2> QED
    BY <2>2, <2>3, <2>4 DEF Inv
<1>3. CASE ConnectSucceeds(queued)
  <2>1. PICK f \in Fds : conn' = [ClosedByClear EXCEPT ![f] = Fresh] /\ SetGlobalData(f, "running")
    BY <1>3 DEF ConnectSucceeds
  <2>2. events' \in 0..MaxEvents /\ pc' = "loop"
    BY <1>3, BoundsAssumption DEF ConnectSucceeds
  <2> QED
    BY <1>1, <2>1, <2>2, SwitchInv, RecordTypes
<1>4. CASE ConnectIsCut(queued)
  <2>1. CASE Die
    BY <1>1, <2>1, DieInv
  <2>2. CASE ~Die
    <3>1. PICK f \in Fds : conn' = [ClosedByClear EXCEPT ![f] = Hangup] /\ SetGlobalData(f, "running")
      BY <1>4, <2>2 DEF ConnectIsCut
    <3>2. events' \in 0..MaxEvents /\ pc' = "loop"
      BY <1>4, <2>2, BoundsAssumption DEF ConnectIsCut
    <3> QED
      BY <1>1, <3>1, <3>2, SwitchInv, RecordTypes
  <2> QED
    BY <2>1, <2>2
<1>5. CASE ConnectThrows
  BY <1>1, <1>5, DieInv DEF ConnectThrows
<1> QED
  BY <1>2, <1>3, <1>4, <1>5

\* The state of sockets changes; none is opened or closed at this end.
LEMMA SocketInv ==
  ASSUME Inv, UNCHANGED globals, pc' = pc, taskd' \in {"up", "down"},
         conn' \in [Fds -> Conn], events' \in Nat, events <= events', events' <= MaxEvents,
         \A f \in Fds : conn'[f].link = "closed" <=> conn[f].link = "closed",
         \A f \in Fds : conn[f].link \in {"eof", "reset"} => conn'[f].link \in {"eof", "reset"}
  PROVE  Inv'
<1> USE DEF globals
<1>1. TypeOK'
  BY BoundsAssumption DEF Inv, TypeOK, Conn
<1>2. OneConnection'
  BY DEF Inv, TypeOK, OneConnection
<1>3. NeverAbandoned'
  <2> SUFFICES ASSUME pc = "loop", ~InTouch', ~(events' > 0)
               PROVE  s_client_io # NoFd /\ Readable(s_client_io)'
    BY DEF NeverAbandoned
  <2>1. events = 0
    BY DEF Inv, TypeOK
  <2>2. CASE InTouch
    <3>1. s_client_fd \in Fds /\ conn[s_client_fd].link = "up"
      BY <2>2 DEF Inv, TypeOK, InTouch
    <3>2. conn'[s_client_fd].link \in {"eof", "reset"}
      <4>1. conn'[s_client_fd] \in Conn /\ conn'[s_client_fd].link # "closed"
        BY <3>1
      <4>2. conn'[s_client_fd].link # "up"
        BY <2>2 DEF InTouch
      <4> QED
        BY <4>1, <4>2 DEF Conn
    <3> QED
      BY <3>1, <3>2, <2>2 DEF Inv, OneConnection, InTouch, Readable
  <2>3. CASE ~InTouch
    <3>1. s_client_fd \in Fds /\ s_client_fd = s_client_io /\ s_client_fd # NoFd
      BY <2>1, <2>3 DEF Inv, TypeOK, OneConnection, NeverAbandoned
    <3>2. conn[s_client_fd].link \in {"eof", "reset"}
      BY <2>3, <3>1 DEF Inv, TypeOK, OneConnection, InTouch, Conn
    <3>3. conn'[s_client_fd].link \in {"eof", "reset"}
      BY <3>1, <3>2
    <3> QED
      BY <3>1, <3>3 DEF Readable
  <2> QED
    BY <2>2, <2>3
<1> QED
  BY <1>1, <1>2, <1>3 DEF Inv

\* What the daemon's close leaves of a connection.
LEMMA CutConn ==
  ASSUME NEW c \in Conn, NEW d \in Cut(c)
  PROVE  /\ d \in Conn /\ (d.link = "closed" <=> c.link = "closed")
         /\ c.link \in {"eof", "reset"} => d.link \in {"eof", "reset"}
<1>1. CASE c.link # "up"
  BY <1>1 DEF Cut
<1>2. CASE c.link = "up"
  <2>1. PICK l \in {"eof", "reset"} :
          d = [link |-> l, asked |-> 0, unread |-> c.unread]
    BY <1>2 DEF Cut
  <2> QED
    BY <1>2, <2>1, BoundsAssumption DEF Conn
<1> QED
  BY <1>1, <1>2

\* Reading: replies are taken, or the end of file is noticed.
LEMMA ReadInv ==
  ASSUME Inv, ClientReadIo PROVE Inv'
<1> DEFINE f == s_client_io
<1> USE DEF Inv, TypeOK, Conn
<1>1. f \in Fds /\ events + 2 <= MaxEvents /\ events \in Nat
  BY BoundsAssumption DEF ClientReadIo
<1>2. UNCHANGED globals /\ pc' = pc /\ taskd' \in {"up", "down"}
  BY DEF ClientReadIo
<1>3. PICK g \in Fds : g = s_client_io
  BY <1>1
<1>4. /\ conn' \in [Fds -> Conn]
      /\ events' \in Nat /\ events <= events' /\ events' <= MaxEvents
      /\ \A h \in Fds : conn'[h].link = "closed" <=> conn[h].link = "closed"
      /\ \A h \in Fds : conn[h].link \in {"eof", "reset"} => conn'[h].link \in {"eof", "reset"}
  <2>1. CASE ReadReply(g)
    BY <1>1, <2>1, BoundsAssumption DEF ReadReply
  <2>2. CASE ReadEof(g)
    BY <1>1, <2>2, BoundsAssumption DEF ReadEof
  <2>3. CASE ReadError(g)
    BY <1>1, <2>3, BoundsAssumption DEF ReadError
  <2> QED
    BY <1>3, <2>1, <2>2, <2>3 DEF ClientReadIo
<1> QED
  BY <1>2, <1>4, SocketInv

\* A heartbeat is one more request, a stutter, or the end of the task.
LEMMA HeartbeatInv ==
  ASSUME Inv, HeartbeatTimer PROVE Inv'
<1>1. CASE Die
  BY <1>1, DieInv DEF HeartbeatTimer, Inv, TypeOK
<1>2. CASE UNCHANGED <<globals, events, conn, pc>>
  BY <1>2, SocketInv DEF HeartbeatTimer, Inv, TypeOK, Conn
<1>3. CASE /\ s_msg_client # NoFd
           /\ conn[s_msg_client].asked < MaxUnread
           /\ conn' = [conn EXCEPT ![s_msg_client].asked = @ + 1]
           /\ UNCHANGED <<globals, events, pc>>
  <2>1. PICK g \in Fds : g = s_msg_client
    BY <1>3 DEF Inv, TypeOK
  <2>2. conn' \in [Fds -> Conn] /\ \A h \in Fds : conn'[h].link = conn[h].link
    BY <1>3, <2>1, BoundsAssumption DEF Inv, TypeOK, Conn
  <2> QED
    BY <1>3, <2>2, SocketInv DEF HeartbeatTimer, Inv, TypeOK
<1> QED
  BY <1>1, <1>2, <1>3 DEF HeartbeatTimer

\* Nothing the daemon does opens, closes or loses a connection at this end.
LEMMA DaemonInv ==
  ASSUME Inv, Daemon PROVE Inv'
<1> USE DEF Inv, TypeOK
<1>1. CASE DaemonListens
  BY <1>1, SocketInv DEF DaemonListens, Conn
<1>2. CASE DaemonDies
  <2>1. PICK cut \in [Fds -> UNION {Cut(conn[f]) : f \in Fds}] :
          /\ \A f \in Fds : cut[f] \in Cut(conn[f])
          /\ conn' = cut
    BY <1>2 DEF DaemonDies
  <2>2. \A f \in Fds : conn[f] \in Conn
    BY DEF Conn
  <2>3. conn' \in [Fds -> Conn]
    BY <2>1, <2>2, CutConn
  <2> QED
    BY <1>2, <2>1, <2>2, <2>3, CutConn, SocketInv DEF DaemonDies
<1>3. ASSUME NEW f \in Fds, Answer(f) PROVE Inv'
  <2>1. conn' \in [Fds -> Conn] /\ \A h \in Fds : conn'[h].link = conn[h].link
    BY <1>3, BoundsAssumption DEF Answer, Conn
  <2> QED
    BY <1>3, <2>1, SocketInv DEF Answer
<1>4. ASSUME NEW f \in Fds, CloseByServer(f) PROVE Inv'
  <2>1. PICK c \in Cut(conn[f]) : conn' = [conn EXCEPT ![f] = c]
    BY <1>4 DEF CloseByServer
  <2>2. \A h \in Fds : conn[h] \in Conn
    BY DEF Conn
  <2>3. conn' \in [Fds -> Conn]
    BY <2>1, <2>2, CutConn
  <2> QED
    BY <1>4, <2>1, <2>2, <2>3, CutConn, SocketInv DEF CloseByServer
<1> QED
  BY <1>1, <1>2, <1>3, <1>4 DEF Daemon

LEMMA StepInv == Inv /\ [Next]_vars => Inv'
<1> SUFFICES ASSUME Inv, [Next]_vars PROVE Inv'
  OBVIOUS
<1>1. CASE UNCHANGED vars
  BY <1>1 DEF vars, globals, Inv, TypeOK, OneConnection, NeverAbandoned, InTouch, Readable
<1>2. CASE InstInit
  BY <1>2, ConnectInv, BoundsAssumption DEF InstInit
<1>3. CASE Reconnect
  <2>1. events - 1 \in 0..(MaxEvents - 1)
    BY <1>3, BoundsAssumption DEF Reconnect, Inv, TypeOK
  <2> QED
    BY <1>3, <2>1, ConnectInv DEF Reconnect
<1> QED
  BY <1>1, <1>2, <1>3, ReadInv, HeartbeatInv, DaemonInv DEF Next

LEMMA Invariance == Spec => []Inv
  BY InitInv, StepInv, PTL DEF Spec

\* Socket, watcher, MsgClient and timer belong together, and no descriptor leaks,
\* however reconnects, failures and closes follow one another.
THEOREM ConnectionIsOne == Spec => []OneConnection
  BY Invariance, PTL DEF Inv

\* A client that is out of touch has a reconnect queued or about to be queued.
THEOREM AlwaysRetries == Spec => []NeverAbandoned
  BY Invariance, PTL DEF Inv

-----------------------------------------------------------------------------
\* The product modulo 2 * (RAND_MAX + 1) holds RAND_MAX at most twice, and at
\* most once if it does not exceed RAND_MAX.
LEMMA Quotient ==
  ASSUME NEW x \in 0..(UINT_MOD - 1)
  PROVE  /\ x \div RAND_MAX \in 0..2
         /\ x <= RAND_MAX => x \div RAND_MAX \in 0..1
         /\ x = 0 => x \div RAND_MAX = 0
BY RandMaxAssumption DEF UINT_MOD

LEMMA Bounded ==
  ASSUME NEW rand \in 0..RAND_MAX, NEW m \in 0..(UINT_MOD - 1)
  PROVE  GetRandom(rand, m) \in 0..m
<1> DEFINE x == (rand * m) % UINT_MOD
<1>1. rand * m \in Nat
  BY RandMaxAssumption DEF UINT_MOD
<1>2. x \in 0..(UINT_MOD - 1)
  BY <1>1, RandMaxAssumption DEF UINT_MOD
<1>3. CASE m = 0
  <2>1. rand * m = 0
    BY <1>3
  <2>2. x = 0
    BY <2>1, RandMaxAssumption DEF UINT_MOD
  <2> QED BY <1>2, <1>3, <2>2, Quotient DEF GetRandom
<1>4. CASE m = 1
  <2>1. rand * m = rand
    BY <1>4
  <2>2. x = rand
    BY <2>1, RandMaxAssumption DEF UINT_MOD
  <2> QED BY <1>2, <1>4, <2>2, Quotient DEF GetRandom
<1>5. CASE m >= 2
  BY <1>2, <1>5, Quotient DEF GetRandom
<1> QED BY <1>3, <1>4, <1>5, RandMaxAssumption DEF UINT_MOD

\* getRandom never returns more than it was asked for, whatever the width.
THEOREM DelayBounded == NeverLonger
BY Bounded DEF NeverLonger
=============================================================================
