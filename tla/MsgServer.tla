----------------------------- MODULE MsgServer -----------------------------
(***************************************************************************)
(* MsgServer in task_msg.cpp with the socket handling of its owner, a      *)
(* TaskObjClient: the daemon's end of one connection.                      *)
(***************************************************************************)
EXTENDS Stream, Protocol

VARIABLES
  serverRb,    \* MsgServer::mRb
  handled,     \* history: the requests handled, in order
  replied      \* history: the replies written, in order

serverVars == <<serverRb, handled, replied>>

ServerInit == serverRb = <<>> /\ handled = <<>> /\ replied = <<>>

\* TaskObjClient::stopTaskClient: the MsgServer and its ring buffer are deleted,
\* the socket is closed and what it still held is lost.
StopTaskClient ==
  /\ serverOpen' = FALSE
  /\ serverRb' = <<>>
  /\ toServer' = <<>>

(***************************************************************************)
(* parseServerData for request m, with rb left in the ring buffer.  Without*)
(* the memory to parse it, or if the client has gone and the write of the  *)
(* reply fails, recvData returns -1 and the connection is stopped (or      *)
(* SIGPIPE, which nobody ignores, stops the daemon: to this connection the *)
(* same).                                                                  *)
(***************************************************************************)
ParseServerData(m, rb, unread) ==
  /\ handled' = Append(handled, m)
  /\ \E code \in Codes(m.request) :
       LET reply == [id |-> m.id, call |-> m.call, code |-> code,
                     len |-> ReplyLen(m.request.type, code)] IN
       \/ /\ clientOpen
          /\ replied' = Append(replied, reply)
          /\ toClient' = toClient \o Frame(reply)
          /\ serverRb' = rb /\ toServer' = unread
          /\ UNCHANGED serverOpen
       \/ /\ StopTaskClient
          /\ UNCHANGED <<toClient, replied>>
       \/ /\ code = "MEM"       \* createFailMsg fails too: no reply
          /\ serverRb' = rb /\ toServer' = unread
          /\ UNCHANGED <<toClient, replied, serverOpen>>

\* taskReadIoCb: one read, recvData, and at most one request handled.  Without
\* the memory to take a whole request out it stays in the ring buffer.
ServerRead ==
  /\ serverOpen
  /\ \E n \in ReadSizes(toServer) :
       LET chunk == Read(toServer, n)
           rb    == serverRb \o chunk IN
       \/ /\ ~Fits(serverRb, chunk)
          /\ StopTaskClient
          /\ UNCHANGED <<toClient, handled, replied>>
       \/ /\ Fits(serverRb, chunk)
          /\ serverRb' = rb /\ toServer' = Unread(toServer, n)
          /\ UNCHANGED <<toClient, serverOpen, handled, replied>>
       \/ /\ Fits(serverRb, chunk) /\ Available(rb)
          /\ ParseServerData(Package(rb), Rest(rb), Unread(toServer, n))
  /\ UNCHANGED clientOpen

\* taskReadIoCb: read returns 0, "client close!".
ServerEof ==
  /\ serverOpen /\ ~clientOpen /\ toServer = <<>>
  /\ StopTaskClient
  /\ UNCHANGED <<toClient, clientOpen, handled, replied>>
=============================================================================
