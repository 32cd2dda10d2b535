------------------------- MODULE ClientObjectsProofs -------------------------
(***************************************************************************)
(* Who owns which TaskObjClient object, and which socket listens, for any  *)
(* number of tasks, clients, addresses and descriptors.                    *)
(***************************************************************************)
EXTENDS ClientObjects, SequenceTheorems, TLAPS

Block == [is : {"free", "available", "stopped"}, mClientFd : Fds \cup {NoFd}]

\* The shape of the heap and of those who point into it.
Shape ==
  /\ heap \in [Objs -> Block]
  /\ mClient \in [Tasks -> Objs \cup {NoObj}]
  /\ cliList \in Seq(Objs)
  /\ cleared \subseteq DOMAIN cliList

OwnInv == Shape /\ OwnersExact

\* Deleting objects frees their addresses and touches no other.
LEMMA DeletedHeap ==
  ASSUME heap \in [Objs -> Block], NEW S
  PROVE  /\ Deleted(S) \in [Objs -> Block]
         /\ \A o \in Objs : Deleted(S)[o].is # "free" <=> o \in Live /\ o \notin S
<1>1. Free \in Block /\ Free.is = "free"
  BY DEF Free, Block
<1> QED
  BY <1>1 DEF Deleted, Live

\* The constructor makes one object more, at an address that was free.
LEMMA ConstructedHeap ==
  ASSUME heap \in [Objs -> Block], NEW S, NEW o \in Objs, Construct(S, o)
  PROVE  heap' \in [Objs -> Block] /\ Live' = (Live \ S) \cup {o}
<1> DEFINE new == [is |-> "available", mClientFd |-> NoFd]
<1>1. new \in Block /\ new.is # "free"
  BY DEF Block
<1>2. heap' = [Deleted(S) EXCEPT ![o] = new]
  BY DEF Construct
<1> HIDE DEF new
<1>3. heap' \in [Objs -> Block]
  BY <1>1, <1>2, DeletedHeap
<1>4. \A x \in Objs : heap'[x].is # "free" <=> x = o \/ (x \in Live /\ x \notin S)
  BY <1>1, <1>2, DeletedHeap
<1>5. Live' = {x \in Objs : heap'[x].is # "free"} /\ Live \subseteq Objs
  BY DEF Live
<1> QED
  BY <1>3, <1>4, <1>5

\* A client of a task: the task's old object goes, the new one is its own.
LEMMA StartTaskClientKeeps ==
  ASSUME OwnInv, NEW t \in Tasks, StartTaskClient(t)
  PROVE  OwnInv'
<1>1. PICK o \in Objs : /\ Deleted(OldClient(t))[o] = Free
                        /\ Construct(OldClient(t), o)
                        /\ mClient' = [mClient EXCEPT ![t] = o]
                        /\ UNCHANGED <<cliList, cleared>>
  BY DEF StartTaskClient
<1>2. Shape' /\ Entries' = Entries
  BY <1>1, ConstructedHeap DEF OwnInv, Shape, Entries
<1>3. Live' = (Live \ OldClient(t)) \cup {o}
  BY <1>1, ConstructedHeap DEF OwnInv, Shape
<1>4. o \notin Live \/ o \in OldClient(t)
  <2>1. Deleted(OldClient(t))[o].is = "free"
    BY <1>1 DEF Free
  <2> QED BY <2>1, DeletedHeap DEF OwnInv, Shape
<1>5. /\ mClient'[t] = o /\ o # NoObj
      /\ \A u \in Tasks : u # t => mClient'[u] = mClient[u]
  BY <1>1, ObjsAssumption DEF OwnInv, Shape
<1>6. \A u \in Tasks : mClient[u] # NoObj => mClient[u] \in Live
  BY DEF OwnInv, OwnersExact
<1>7. \A k \in Entries : cliList[k] \in Live /\ cliList'[k] = cliList[k]
  BY <1>1 DEF OwnInv, OwnersExact
<1>8. \A u \in Tasks : u # t => mClient[u] # o
  BY <1>4, <1>5, <1>6 DEF OwnInv, OwnersExact, OldClient
<1>9. \A k \in Entries : cliList[k] # o
  BY <1>4, <1>7 DEF OwnInv, OwnersExact, OldClient
<1>10. Live' = ({mClient'[u] : u \in Tasks} \ {NoObj}) \cup {cliList'[k] : k \in Entries'}
  <2>1. ASSUME NEW x \in Live'
        PROVE  x \in ({mClient'[u] : u \in Tasks} \ {NoObj}) \cup {cliList'[k] : k \in Entries'}
    <3>1. CASE x = o
      BY <1>5, <3>1
    <3>2. CASE x # o
      <4>1. x \in Live /\ x \notin OldClient(t)
        BY <1>3, <2>1, <3>2
      <4>2. (\E u \in Tasks : x = mClient[u] /\ x # NoObj) \/ \E k \in Entries : x = cliList[k]
        BY <4>1 DEF OwnInv, OwnersExact
      <4> QED BY <1>2, <1>5, <1>7, <4>1, <4>2 DEF OldClient
    <3> QED BY <3>1, <3>2
  <2>2. ASSUME NEW u \in Tasks, mClient'[u] # NoObj PROVE mClient'[u] \in Live'
    BY <1>3, <1>5, <1>6, <2>2 DEF OwnInv, OwnersExact, OldClient
  <2>3. ASSUME NEW k \in Entries PROVE cliList'[k] \in Live'
    BY <1>3, <1>7, <2>3 DEF OwnInv, OwnersExact, OldClient
  <2> QED BY <1>2, <2>1, <2>2, <2>3
<1>11. OwnersExact'
  BY <1>2, <1>5, <1>7, <1>8, <1>9, <1>10 DEF OwnInv, OwnersExact
<1> QED
  BY <1>2, <1>11 DEF OwnInv

\* Another client: a new object, and a new entry for it.
LEMMA PushBackKeeps ==
  ASSUME OwnInv, PushBack
  PROVE  OwnInv'
<1>1. PICK o \in Objs \ Live : /\ Construct({}, o)
                               /\ cliList' = Append(cliList, o)
                               /\ UNCHANGED <<mClient, cleared>>
  BY DEF PushBack
<1> DEFINE n == Len(cliList)
<1>2. /\ n \in Nat /\ DOMAIN cliList = 1..n /\ DOMAIN cliList' = 1..(n + 1)
      /\ cliList' \in Seq(Objs) /\ cliList'[n + 1] = o
      /\ \A k \in 1..n : cliList'[k] = cliList[k]
  BY <1>1, AppendProperties DEF OwnInv, Shape
<1>3. n + 1 \notin 1..n /\ 1..(n + 1) = (1..n) \cup {n + 1}
  BY <1>2
<1> HIDE DEF n
<1>4. Entries' = Entries \cup {n + 1} /\ Entries \subseteq 1..n
  BY <1>1, <1>2, <1>3 DEF Entries, OwnInv, Shape
<1>5. Shape' /\ Live' = Live \cup {o}
  BY <1>1, <1>2, <1>3, ConstructedHeap DEF OwnInv, Shape
<1>6. \A k \in Entries : cliList'[k] = cliList[k] /\ cliList[k] \in Live
  BY <1>2, <1>4 DEF OwnInv, OwnersExact
<1>7. \A t \in Tasks : mClient[t] # NoObj => mClient[t] \in Live
  BY DEF OwnInv, OwnersExact
<1>8. o \notin Live /\ o # NoObj /\ mClient' = mClient
  BY <1>1, ObjsAssumption
<1>9. {cliList'[k] : k \in Entries'} = {cliList[k] : k \in Entries} \cup {o}
  BY <1>2, <1>4, <1>6
<1>10. Live' = ({mClient'[u] : u \in Tasks} \ {NoObj}) \cup {cliList'[k] : k \in Entries'}
  BY <1>5, <1>8, <1>9 DEF OwnInv, OwnersExact
<1>11. \A k, l \in Entries' : cliList'[k] = cliList'[l] => k = l
  BY <1>2, <1>4, <1>6, <1>8 DEF OwnInv, OwnersExact
<1>12. \A t \in Tasks, k \in Entries' : mClient'[t] # cliList'[k]
  BY <1>2, <1>4, <1>6, <1>7, <1>8 DEF OwnInv, OwnersExact
<1> QED
  BY <1>5, <1>8, <1>10, <1>11, <1>12 DEF OwnInv, OwnersExact

\* A client that fails is stopped, and stays with its owner.
LEMMA ReadFailsKeeps ==
  ASSUME OwnInv, NEW o \in Objs, o \in Live, ReadFails(o)
  PROVE  OwnInv'
<1> DEFINE stopped == [is |-> "stopped", mClientFd |-> NoFd]
<1>1. stopped \in Block /\ stopped.is # "free"
  BY DEF Block
<1>2. heap' = [heap EXCEPT ![o] = stopped] /\ UNCHANGED <<mClient, cliList, cleared>>
  BY DEF ReadFails
<1> HIDE DEF stopped
<1>3. Shape' /\ Entries' = Entries
  BY <1>1, <1>2 DEF OwnInv, Shape, Entries
<1>4. Live' = Live
  BY <1>1, <1>2 DEF OwnInv, Shape, Live
<1> QED
  BY <1>2, <1>3, <1>4 DEF OwnInv, OwnersExact

\* The timer deletes objects of the list only, and gives up their entries.
LEMMA ClearTimerKeeps ==
  ASSUME OwnInv, CliListClearTimer
  PROVE  OwnInv'
<1> DEFINE S == {cliList[k] : k \in Unavailable}
<1>1. /\ heap' = Deleted(S) /\ cleared' = Unavailable /\ cleared = {}
      /\ UNCHANGED <<mClient, cliList>>
  BY DEF CliListClearTimer
<1>2. Unavailable \subseteq DOMAIN cliList /\ Entries = DOMAIN cliList
      /\ Entries' = Entries \ Unavailable
  BY <1>1 DEF Unavailable, Entries
<1>3. Shape'
  BY <1>1, <1>2, DeletedHeap DEF OwnInv, Shape
<1>4. Live' = Live \ S
  <2>1. \A o \in Objs : heap'[o].is # "free" <=> o \in Live /\ o \notin S
    BY <1>1, DeletedHeap DEF OwnInv, Shape
  <2>2. Live' = {o \in Objs : heap'[o].is # "free"} /\ Live \subseteq Objs
    BY DEF Live
  <2> QED BY <2>1, <2>2
<1>5. {cliList[k] : k \in Entries'} = {cliList[k] : k \in Entries} \ S
  BY <1>2 DEF OwnInv, OwnersExact
<1>6. \A t \in Tasks : mClient[t] \notin S
  BY <1>2 DEF OwnInv, OwnersExact
<1>7. Live' = ({mClient'[u] : u \in Tasks} \ {NoObj}) \cup {cliList'[k] : k \in Entries'}
  BY <1>1, <1>4, <1>5, <1>6 DEF OwnInv, OwnersExact
<1> QED
  BY <1>1, <1>2, <1>3, <1>7 DEF OwnInv, OwnersExact

\* Only available objects are watched, so a read handler that does not run on
\* behalf of a deleted object runs on behalf of one that lives.
WatchInv == \A o \in watched : o \in Objs /\ heap[o].is = "available"

LEMMA ConstructWatched ==
  ASSUME Shape, WatchInv, NEW S, NEW o \in Objs, Construct(S, o)
  PROVE  WatchInv'
<1> DEFINE new == [is |-> "available", mClientFd |-> NoFd]
<1>1. new.is = "available"
  OBVIOUS
<1>2. heap' = [Deleted(S) EXCEPT ![o] = new] /\ watched' = (watched \ S) \cup {o}
  BY DEF Construct
<1> HIDE DEF new
<1>3. \A x \in Objs : heap'[x] = IF x = o THEN new ELSE IF x \in S THEN Free ELSE heap[x]
  BY <1>2 DEF Deleted
<1> QED
  BY <1>1, <1>2, <1>3 DEF WatchInv

\* No object leaks, none is owned twice, none is deleted twice: the owners and
\* the objects that live match, whatever the clients and the timers do.
THEOREM ObjectsOwned == Spec => []OwnersExact
<1> DEFINE Inv == OwnInv /\ WatchInv
<1>1. Init => Inv
  <2> SUFFICES ASSUME Init PROVE Inv
    OBVIOUS
  <2>1. Free \in Block /\ Free.is = "free"
    BY DEF Free, Block
  <2>2. Shape /\ Entries = {}
    BY <2>1 DEF Init, Shape, Entries
  <2>3. Live = {} /\ \A t \in Tasks : mClient[t] = NoObj
    BY <2>1 DEF Init, Live
  <2> QED BY <2>2, <2>3 DEF Init, OwnInv, OwnersExact, WatchInv
<1>2. Inv /\ [Next]_vars => Inv'
  <2> SUFFICES ASSUME OwnInv, WatchInv, [Next]_vars PROVE OwnInv' /\ WatchInv'
    OBVIOUS
  <2> USE DEF OwnInv
  <2>1. ASSUME UNCHANGED objectVars PROVE OwnInv' /\ WatchInv'
    BY <2>1 DEF objectVars, Shape, OwnersExact, Entries, Live, WatchInv
  <2>2. CASE ServerStep /\ UNCHANGED objectVars
    BY <2>1, <2>2
  <2>3. CASE Accept
    <3>1. ASSUME NEW t \in Tasks, StartTaskClient(t) PROVE OwnInv' /\ WatchInv'
      <4>1. PICK o \in Objs : Construct(OldClient(t), o)
        BY <3>1 DEF StartTaskClient
      <4>2. WatchInv'
        BY <4>1, ConstructWatched
      <4> QED BY <3>1, <4>2, StartTaskClientKeeps
    <3>2. ASSUME PushBack PROVE OwnInv' /\ WatchInv'
      <4>1. PICK o \in Objs : Construct({}, o)
        BY <3>2 DEF PushBack
      <4>2. WatchInv'
        BY <4>1, ConstructWatched
      <4> QED BY <3>2, <4>2, PushBackKeeps
    <3>3. CASE Die
      BY <2>1, <3>3 DEF Die
    <3> QED BY <2>3, <3>1, <3>2, <3>3 DEF Accept
  <2>4. CASE AcceptJunk
    BY <2>1, <2>4 DEF AcceptJunk, Die
  <2>5. ASSUME NEW o \in Objs, ReadFails(o) PROVE OwnInv' /\ WatchInv'
    <3>1. o \in Live
      BY <2>5 DEF ReadFails, WatchInv, Live
    <3>2. WatchInv'
      BY <2>5 DEF ReadFails, WatchInv, Shape
    <3> QED BY <2>5, <3>1, <3>2, ReadFailsKeeps
  <2>6. ASSUME NEW o \in Objs, ReadFailsLate(o) PROVE OwnInv' /\ WatchInv'
    BY <2>1, <2>6 DEF ReadFailsLate, UseStale
  <2>7. CASE CliListClearTimer
    <3>1. \A o \in Objs : heap[o].is = "available" => heap'[o] = heap[o]
      BY <2>7 DEF CliListClearTimer, Deleted, Unavailable
    <3>2. WatchInv'
      BY <2>7, <3>1 DEF CliListClearTimer, WatchInv
    <3> QED BY <2>7, <3>2, ClearTimerKeeps
  <2>8. CASE CliListClearTimerAgain
    BY <2>1, <2>8 DEF CliListClearTimerAgain, UseStale
  <2>9. CASE UNCHANGED vars
    BY <2>1, <2>9 DEF vars
  <2> QED
    BY <2>2, <2>3, <2>4, <2>5, <2>6, <2>7, <2>8, <2>9 DEF Next
<1>3. Inv => OwnersExact
  BY DEF OwnInv
<1> QED
  BY <1>1, <1>2, <1>3, PTL DEF Spec

-----------------------------------------------------------------------------
ListenInv ==
  /\ fds \in [Fds -> {"free", "listen"}]
  /\ mServerFd \in Fds \cup {NoFd}
  /\ OneListener

\* stopServer closes the listening socket, if there is one.
LEMMA StoppedFds ==
  ASSUME ListenInv
  PROVE  Stopped = [f \in Fds |-> "free"]
<1>1. \A f \in Fds : fds[f] = "free" \/ f = mServerFd
  BY DEF ListenInv, OneListener
<1>2. CASE mServerFd = NoFd
  <2>1. ~(mServerFd > 0) /\ NoFd \notin Fds
    BY <1>2, FdsAssumption DEF NoFd
  <2> QED BY <1>1, <1>2, <2>1 DEF Stopped, ListenInv
<1>3. CASE mServerFd \in Fds
  <2>1. mServerFd > 0
    BY <1>3, FdsAssumption
  <2> QED BY <1>1, <1>3, <2>1 DEF Stopped, ListenInv
<1> QED
  BY <1>2, <1>3 DEF ListenInv

\* There is at most one listening socket, the one on record, and it is watched,
\* however starts, failures and stops follow one another.
THEOREM ListenerIsOne == Spec => []OneListener
<1>1. NoFd \notin Fds
  BY FdsAssumption DEF NoFd
<1>2. Init => ListenInv
  BY <1>1 DEF Init, ServerInit, ListenInv, OneListener
<1>3. ListenInv /\ [Next]_vars => ListenInv'
  <2> SUFFICES ASSUME ListenInv, [Next]_vars PROVE ListenInv'
    OBVIOUS
  <2>1. ASSUME mServerFd' = NoFd, mServerIo' = NoFd, fds' = Stopped PROVE ListenInv'
    BY <1>1, <2>1, StoppedFds DEF ListenInv, OneListener
  <2>2. ASSUME UNCHANGED <<mServerFd, mServerIo, fds>> PROVE ListenInv'
    BY <2>2 DEF ListenInv, OneListener
  <2>3. CASE StopServer
    BY <2>1, <2>3 DEF StopServer
  <2>4. CASE RestartServer
    <3>1. ASSUME NEW f \in Fds, fds' = [Stopped EXCEPT ![f] = "listen"],
                 mServerFd' = f, mServerIo' = f
          PROVE  ListenInv'
      BY <1>1, <3>1, StoppedFds DEF ListenInv, OneListener
    <3>2. \/ mServerFd' = NoFd /\ mServerIo' = NoFd /\ fds' = Stopped
          \/ \E f \in Fds : /\ fds' = [Stopped EXCEPT ![f] = "listen"]
                             /\ mServerFd' = f /\ mServerIo' = f
      BY <2>4 DEF RestartServer
    <3> QED BY <2>1, <3>1, <3>2
  <2>5. CASE RemoveFile
    BY <2>2, <2>5 DEF RemoveFile
  <2>6. CASE Next /\ ~ServerStep
    <3>1. UNCHANGED <<mServerFd, mServerIo, fds>>
      BY <2>6 DEF Next, Accept, AcceptJunk, ReadFails, ReadFailsLate,
                  CliListClearTimer, CliListClearTimerAgain, serverVars
    <3> QED BY <2>2, <3>1
  <2>7. CASE UNCHANGED vars
    BY <2>2, <2>7 DEF vars, serverVars
  <2> QED
    BY <2>3, <2>4, <2>5, <2>6, <2>7 DEF ServerStep
<1> QED
  BY <1>2, <1>3, PTL DEF Spec, ListenInv
=============================================================================
