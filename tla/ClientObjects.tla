--------------------------- MODULE ClientObjects ---------------------------
(***************************************************************************)
(* The life of TaskObjClient objects: made by recv_client_connect in the   *)
(* accept handler, owned by a task (mClient) or by cliList, stopped by     *)
(* their read handler, deleted by their task or by the clean-up timer.     *)
(* Objs are heap addresses, which are used again after a delete.           *)
(*                                                                         *)
(* The watcher a constructor makes is never stored (mReadIo keeps what the *)
(* heap held), so no delete cancels it; and since the constructor's first  *)
(* call closes the very socket it is given, libev reports that fd as bad   *)
(* to the read handler once.                                               *)
(***************************************************************************)
EXTENDS TaskServer, SequencesExt

CONSTANTS
  Tasks,       \* the TaskObj objects
  Objs,        \* addresses of TaskObjClient objects
  NoObj,       \* NULL
  Junk,        \* uninitialised pointers: "null" and/or "junk"
  MaxClients   \* bound: entries of cliList

ASSUME ObjsAssumption == NoObj \notin Objs /\ MaxClients \in Nat

Free == [is |-> "free", mClientFd |-> NoFd]

VARIABLES
  heap,        \* what is at each address, "free", "available" or "stopped",
               \* and the mClientFd of the object, NoFd when there is none
  mClient,     \* of each task: its object, or NoObj
  cliList,     \* the objects in the order they came
  cleared,     \* places of cliList whose object the timer has deleted
  watched,     \* objects whose watcher has not reported yet
  orphaned     \* addresses of deleted objects whose watcher has not reported yet

objectVars == <<heap, mClient, cliList, cleared, watched, orphaned>>
vars == <<serverVars, objectVars>>

Init ==
  /\ ServerInit
  /\ heap = [o \in Objs |-> Free]
  /\ mClient = [t \in Tasks |-> NoObj]
  /\ cliList = <<>> /\ cleared = {}
  /\ watched = {} /\ orphaned = {}

Live == {o \in Objs : heap[o].is # "free"}

\* An exception nobody catches, or a delete of a junk pointer.
Die == pc' = "dead" /\ UNCHANGED objectVars

\* A handler uses an object that was deleted.  What it does is undefined, and
\* the model goes no further: pc says who it was.
UseStale(handler) == pc' = handler /\ UNCHANGED objectVars

\* delete of the objects in S.
Deleted(S) == [o \in Objs |-> IF o \in S THEN Free ELSE heap[o]]

\* new TaskObjClient(fd) at address o, after the objects in S were deleted.  Its
\* startTaskClient calls stopTaskClient first, which closes fd.
Construct(S, o) ==
  /\ heap' = [Deleted(S) EXCEPT ![o] = [is |-> "available", mClientFd |-> NoFd]]
  /\ watched' = (watched \ S) \cup {o}
  /\ orphaned' = orphaned \cup (watched \cap S)
  /\ UNCHANGED pc

-----------------------------------------------------------------------------
\* TaskObj::startTaskClient: the old client goes, the new one takes its place.
OldClient_Shared(t) == {}
OldClient(t)        == {mClient[t]} \ {NoObj}

StartTaskClient(t) ==
  \E o \in {x \in Objs : Deleted(OldClient(t))[x] = Free} :
    /\ Construct(OldClient(t), o)
    /\ mClient' = [mClient EXCEPT ![t] = o]
    /\ UNCHANGED <<cliList, cleared>>

\* recv_client_connect for a pid no task has: an object of its own.
PushBack ==
  /\ Len(cliList) < MaxClients
  /\ \E o \in Objs \ Live :
       /\ Construct({}, o)
       /\ cliList' = Append(cliList, o)
       /\ UNCHANGED <<mClient, cleared>>

\* serverReadIoCb.  Which task has the peer's pid is up to TaskCore.  accept or
\* getsockopt may fail; so may the constructor, by an exception.
Accept ==
  /\ pc = "loop" /\ mServerIo # NoFd
  /\ \E f \in Fds : fds[f] = "free"
  /\ (\E t \in Tasks : StartTaskClient(t)) \/ PushBack \/ Die
  /\ UNCHANGED <<mServerFd, mServerIo, fds, bound, fails>>

\* An uninitialised msgServer, mReadIo or mClient is not NULL: stopTaskClient
\* deletes it.
AcceptJunk ==
  /\ pc = "loop" /\ mServerIo # NoFd /\ "junk" \in Junk
  /\ Die
  /\ UNCHANGED <<mServerFd, mServerIo, fds, bound, fails>>

\* taskReadIoCb of a watcher whose fd is bad: read fails, stopTaskClient.
ReadFails(o) ==
  /\ pc = "loop" /\ o \in watched
  /\ heap' = [heap EXCEPT ![o] = [is |-> "stopped", mClientFd |-> NoFd]]
  /\ watched' = watched \ {o}
  /\ UNCHANGED <<serverVars, mClient, cliList, cleared, orphaned>>

\* The same for an object that was deleted in the same round of the loop.
ReadFailsLate(o) ==
  /\ pc = "loop" /\ o \in orphaned
  /\ UseStale("stale watcher")
  /\ UNCHANGED <<mServerFd, mServerIo, fds, bound, fails>>

\* cli_list_clear_timer_cb deletes what is not available and leaves the entries
\* in the list: the next time it asks deleted objects whether they are.
Unavailable == {k \in DOMAIN cliList : heap[cliList[k]].is = "stopped"}

CliListClearTimer ==
  /\ pc = "loop" /\ cleared = {}
  /\ heap' = Deleted({cliList[k] : k \in Unavailable})
  /\ cleared' = Unavailable
  /\ UNCHANGED <<serverVars, mClient, cliList, watched, orphaned>>

CliListClearTimerAgain ==
  /\ pc = "loop" /\ cleared # {}
  /\ UseStale("stale timer")
  /\ UNCHANGED <<mServerFd, mServerIo, fds, bound, fails>>

Next ==
  \/ ServerStep /\ UNCHANGED objectVars
  \/ Accept \/ AcceptJunk
  \/ \E o \in Objs : ReadFails(o) \/ ReadFailsLate(o)
  \/ CliListClearTimer \/ CliListClearTimerAgain

Spec == Init /\ [][Next]_vars

-----------------------------------------------------------------------------
Entries == DOMAIN cliList \ cleared

\* Every object has exactly one owner, a task or an entry of cliList, and every
\* owner an object that lives: none leaks, none is deleted twice, whoever
\* reconnects, fails or is cleared, up to the first use of a deleted object.
OwnersExact ==
  /\ Live = ({mClient[t] : t \in Tasks} \ {NoObj}) \cup {cliList[k] : k \in Entries}
  /\ \A t, u \in Tasks : mClient[t] = mClient[u] /\ mClient[t] # NoObj => t = u
  /\ \A k, l \in Entries : cliList[k] = cliList[l] => k = l
  /\ \A t \in Tasks, k \in Entries : mClient[t] # cliList[k]

-----------------------------------------------------------------------------
\* A claim of the code's own texts which the code does not keep.

\* task_core.cpp:243, "s_clilist_clear_timer": what the timer has cleared from
\* the list it does not meet there again.
ClearedOnce == pc # "stale timer"
=============================================================================
