----------------------------- MODULE Connection -----------------------------
(***************************************************************************)
(* One connection: a MsgClient and the MsgServer it talks to.              *)
(***************************************************************************)
EXTENDS MsgClient, MsgServer

vars == <<streamVars, clientVars, serverVars>>

Init == StreamInit /\ ClientInit /\ ServerInit

Next ==
  \/ /\ \/ \E c \in Calls : SendRequest(c) \/ RequestTimeout(c)
        \/ ClientRead
        \/ ClientDestroy
     /\ UNCHANGED serverVars
  \/ /\ ServerRead \/ ServerEof
     /\ UNCHANGED clientVars

Spec == Init /\ [][Next]_vars

(***************************************************************************)
(* Both event loops run a handler whose event has happened, and a timer    *)
(* that was started expires.  Nobody has to call, or to close.             *)
(***************************************************************************)
Fairness ==
  /\ \A c \in Calls : WF_vars(RequestTimeout(c) /\ UNCHANGED serverVars)
  /\ WF_vars(ClientRead /\ UNCHANGED serverVars)
  /\ WF_vars((ServerRead \/ ServerEof) /\ UNCHANGED clientVars)

FairSpec == Spec /\ Fairness

-----------------------------------------------------------------------------
TypeOK ==
  /\ clientOpen \in BOOLEAN /\ serverOpen \in BOOLEAN /\ dropped \in BOOLEAN
  /\ mCurReqId \in 0..MaxId
  /\ mRequestList \in Seq(Calls)
  /\ timers \subseteq Calls
  /\ reqId \in [Calls -> 0..MaxId \cup {NoId}]
  /\ Len(serverRb) <= Capacity /\ Len(clientRb) <= Capacity

\* A timer holds a bare pointer to its node: the armed timers are exactly those
\* of the nodes in the table, no node is there twice, and none outlives the client.
TimersOfTable ==
  /\ timers = Waiting
  /\ IsInjective(mRequestList)
  /\ ~clientOpen => Waiting = {}

\* The callback of a call runs at most once, and not while the request waits:
\* reply, timeout and destructor race for the node and one of them wins.
CallbackOnce ==
  \A c \in Calls :
    /\ Len(callbacks[c]) <= 1
    /\ c \in Waiting => callbacks[c] = <<>>

\* No two calls share a reqId, so what a callback is given is the answer to its
\* own call - not that of a request which timed out before - or a timeout: as long
\* as no chunk was dropped.
OwnAnswer ==
  /\ \A c, d \in Calls : reqId[c] = reqId[d] /\ reqId[c] # NoId => c = d
  /\ ~dropped =>
       \A c \in Calls : \A i \in DOMAIN callbacks[c] : callbacks[c][i].call = c

Frames(log, from) == FlattenSeq([i \in 1..(Len(log) - from) |-> Frame(log[from + i])])

\* However reads cut the stream, each end takes whole messages, in the order they
\* were written, none twice and none left out: the server always, the client until
\* a chunk does not fit its ring buffer.
InStep ==
  /\ IsPrefix(handled, sent)
  /\ serverOpen => serverRb \o toServer = Frames(sent, Len(handled))
  /\ ~dropped =>
       /\ IsPrefix(received, replied)
       /\ clientOpen => clientRb \o toClient = Frames(replied, Len(received))

\* A request never waits for ever.
TableDrains == \A c \in Calls : c \in Waiting ~> c \notin Waiting

\* A registered query or action of one task ends in its callback, if it has one,
\* unless the client is deleted first or has dropped a chunk.
TaskCallsEnd ==
  \A c \in Calls \ NoCallback :
    c \in Waiting /\ RequestOf[c].type \in {"QUERY_TASK", "TASK_ACTION"}
      ~> callbacks[c] # <<>> \/ ~clientOpen \/ dropped

\* Once the client is gone no callback runs.
QuietAfterDestroy == [][~clientOpen => UNCHANGED callbacks]_vars

-----------------------------------------------------------------------------
\* Refinement: what has become of a call, as its caller and as the server see it.
Outcome(c) ==
  IF callbacks[c] # <<>> THEN callbacks[c][1].code
  ELSE IF c \in Waiting THEN "pending"
  ELSE IF reqId[c] = NoId THEN "none" ELSE "lost"

Replies(c) == {m \in ToSet(replied) : m.call = c}

Served(c) ==
  IF \A m \in ToSet(handled) : m.call # c THEN "no"
  ELSE IF Replies(c) = {} THEN "silent" ELSE (CHOOSE m \in Replies(c) : TRUE).code

Call == INSTANCE Rpc
          WITH Results <- {"SUCC", "NOT_FOUND", "PARSE", "MEM"},
               outcome <- [c \in Calls |-> Outcome(c)],
               served  <- [c \in Calls |-> Served(c)],
               open    <- clientOpen,
               intact  <- ~dropped

\* Whatever the chunks, timeouts, late answers and closes, a request is handled and
\* called back at most once, and the code its callback gets is the one the server
\* gave it, until a chunk is dropped.
ImplementsRpc == Call!Spec

-----------------------------------------------------------------------------
\* A claim of the code's own texts which the code does not keep.

\* Does a request ask for something there is: the list, or a task by its pid or,
\* without a pid, by its name?
Sensible(r) ==
  r.type = "QUERY_ALL" \/ r.pid \in KnownPids \/ (r.pid = 0 /\ r.name \in KnownNames)

\* task_cli.cpp:24-27 (list, pid, name, action) and task_client.cpp:173, "send
\* heartbeat": when the answer to a sensible request has come in and the request
\* is off the table, its callback was called, and not told that the request
\* makes no sense or that there is no such task.
RequestsWork ==
  clientOpen /\ ~dropped =>
    \A m \in ToSet(received) :
      Sensible(RequestOf[m.call]) /\ m.call \notin Waiting =>
        /\ callbacks[m.call] # <<>>
        /\ callbacks[m.call][1].code \in {"SUCC", "MEM", "TIMEOUT"}
=============================================================================
