----------------------------- MODULE MsgClient -----------------------------
(***************************************************************************)
(* MsgClient in task_msg.cpp: the table of requests that wait for a reply, *)
(* each with a one-shot timer.  Its owner (task_client.cpp or task_cli.cpp)*)
(* reads the socket in one thread, so every handler is one step.           *)
(*                                                                         *)
(* A call is one invocation of a sendReq... method.  mCurReqId has no      *)
(* initial value.                                                          *)
(***************************************************************************)
EXTENDS Stream, Protocol, SequencesExt

CONSTANTS
  Calls,        \* the calls of sendReq... made over the life of the client
  RequestOf,    \* the request of each call: a type, a pid and a name
  MaxId,        \* the largest reqId, 2^32 - 1 in the code
  JunkIds,      \* values of the uninitialised mCurReqId
  NoId,         \* the call has not been made
  NoCallback    \* the calls made with a NULL callback

ASSUME CallsAssumption ==
  /\ IsFiniteSet(Calls)
  /\ \A c \in Calls : RequestOf[c].type \in Types
  /\ NoCallback \subseteq Calls
ASSUME IdsAssumption ==
  /\ MaxId \in Nat /\ NoId \notin 0..MaxId
  /\ JunkIds \subseteq 0..MaxId
  /\ Cardinality(Calls) <= MaxId + 1   \* no reqId comes round again

VARIABLES
  mCurReqId,
  mRequestList,  \* calls whose request waits, newest first (list_add)
  timers,        \* calls whose request timer is armed
  clientRb,      \* MsgClient::mRb
  dropped,       \* history: a chunk did not fit, so mRb is out of step
  reqId,         \* history: the reqId each call got
  sent,          \* history: the requests written, in order
  received,      \* history: the replies taken from the ring buffer, in order
  callbacks      \* history: what the callback of each call was given

clientVars == <<mCurReqId, mRequestList, timers, clientRb, dropped,
                reqId, sent, received, callbacks>>

ClientInit ==
  /\ mCurReqId \in JunkIds
  /\ mRequestList = <<>>
  /\ timers = {}
  /\ clientRb = <<>> /\ dropped = FALSE
  /\ reqId = [c \in Calls |-> NoId]
  /\ sent = <<>> /\ received = <<>>
  /\ callbacks = [c \in Calls |-> <<>>]

Waiting == ToSet(mRequestList)

\* getNextReqId: ++mCurReqId on a uint32_t.
GetNextReqId == IF mCurReqId = MaxId THEN 0 ELSE mCurReqId + 1

\* reqNodeCreate, the start of the timer and list_add; or no memory.
Register_NoTimer(c) ==
  /\ mRequestList' = <<c>> \o mRequestList
  /\ UNCHANGED timers
Register(c) ==
  \/ /\ mRequestList' = <<c>> \o mRequestList
     /\ timers' = timers \cup {c}
  \/ UNCHANGED <<mRequestList, timers>>

\* sendRequest: first the three writes, then the table.  If the server's end
\* is closed the write fails and the request is not registered.
SendRequest(c) ==
  /\ clientOpen /\ reqId[c] = NoId
  /\ mCurReqId' = GetNextReqId
  /\ reqId' = [reqId EXCEPT ![c] = GetNextReqId]
  /\ LET m == [id |-> GetNextReqId, call |-> c, request |-> RequestOf[c], len |-> 1] IN
       \/ /\ serverOpen
          /\ toServer' = toServer \o Frame(m)
          /\ sent' = Append(sent, m)
          /\ Register(c)
       \/ /\ ~serverOpen
          /\ UNCHANGED <<toServer, sent, mRequestList, timers>>
  /\ UNCHANGED <<toClient, clientOpen, serverOpen, clientRb, dropped, received, callbacks>>

\* list_del and destroyReqNode, which also destroys the timer.
Drop_KeepTimer(c) == mRequestList' = RemoveFirst(mRequestList, c) /\ UNCHANGED timers
Drop_KeepNode(c)  == UNCHANGED mRequestList /\ timers' = timers \ {c}
Drop(c) ==
  /\ mRequestList' = RemoveFirst(mRequestList, c)
  /\ timers' = timers \ {c}

\* A NULL callback is not called, wherever it would be.
CallBack(c, code, call) ==
  IF c \in NoCallback THEN UNCHANGED callbacks
  ELSE callbacks' = [callbacks EXCEPT ![c] = Append(@, [code |-> code, call |-> call])]

\* msgClientReqTimerCb.
RequestTimeout(c) ==
  /\ c \in timers
  /\ CallBack(c, "TIMEOUT", c)
  /\ Drop(c)
  /\ UNCHANGED <<streamVars, mCurReqId, clientRb, dropped, reqId, sent, received>>

\* The entries a reply is compared with; the loop stops at the first.
Matching_Any(m) == DOMAIN mRequestList
Matching(m)     == {i \in DOMAIN mRequestList : reqId[mRequestList[i]] = m.id}

\* parseClientData and processRspData for a message taken, whose text is reply r:
\* an answer to nobody, or one that is no JSON or that there is no memory to parse,
\* is ignored; any other takes its request from the table whether or not the
\* callback is called.
ParseClientData(m, r) ==
  /\ received' = Append(received, m)
  /\ \/ UNCHANGED <<mRequestList, timers, callbacks>>
     \/ \E i \in Matching(m) :
          LET c == mRequestList[i] IN
          /\ \A j \in Matching(m) : i <= j
          /\ Drop(c)
          /\ IF CallsBack(RequestOf[c].type, r.code, ReplyData(RequestOf[r.call].type))
             THEN CallBack(c, r.code, r.call)
             ELSE UNCHANGED callbacks

\* One read, recvData, and at most one reply handled (it stays in the ring
\* buffer if there is no memory to take it out).  A chunk that does not fit is
\* dropped; the ring buffer stays as it is, and later chunks are put behind what
\* it holds.
ClientRead ==
  /\ clientOpen
  /\ \E n \in ReadSizes(toClient) :
       LET chunk == Read(toClient, n)
           rb    == clientRb \o chunk IN
       /\ toClient' = Unread(toClient, n)
       /\ \/ /\ Fits(clientRb, chunk) /\ Available(rb)
             /\ clientRb' = Rest(rb)
             /\ \E r \in Contents(rb) : ParseClientData(Package(rb), r)
             /\ UNCHANGED dropped
          \/ /\ Fits(clientRb, chunk)
             /\ clientRb' \in {rb} \cup Skipped(rb)
             /\ UNCHANGED <<dropped, received, mRequestList, timers, callbacks>>
          \/ /\ ~Fits(clientRb, chunk)
             /\ dropped' = TRUE
             /\ UNCHANGED <<clientRb, received, mRequestList, timers, callbacks>>
  /\ UNCHANGED <<toServer, clientOpen, serverOpen, mCurReqId, reqId, sent>>

\* ~MsgClient, and close of the socket by the owner: a reconnect of task_client
\* (one may be pending from an earlier failure at any time) or the exit of
\* task_cli.  Requests that wait are dropped without a callback.
DropAll_KeepTimers == mRequestList' = <<>> /\ UNCHANGED timers
DropAll            == mRequestList' = <<>> /\ timers' = {}

ClientDestroy ==
  /\ clientOpen
  /\ clientOpen' = FALSE
  /\ DropAll
  /\ clientRb' = <<>> /\ toClient' = <<>>
  /\ UNCHANGED <<toServer, serverOpen, mCurReqId, dropped, reqId, sent, received, callbacks>>
=============================================================================
