-------------------------- MODULE ConnectionProofs --------------------------
(***************************************************************************)
(* The request table of MsgClient for any set of calls, any chunking of    *)
(* the streams and any ring buffer: every node is freed exactly once, and  *)
(* reply, timeout and destructor never run a callback twice.               *)
(***************************************************************************)
EXTENDS Connection, SequenceTheorems, TLAPS

\* The callback of c did not run, or it ran once.
Once(c) == callbacks[c] = <<>> \/ \E res : callbacks[c] = <<res>>

\* What the table needs of the histories: a call that was not made has left
\* no trace, so its request is new to the table when it is sent.
Untouched ==
  \A c \in Calls : reqId[c] = NoId => c \notin Waiting /\ callbacks[c] = <<>>

TableInv ==
  /\ mRequestList \in Seq(Calls)
  /\ mCurReqId \in 0..MaxId
  /\ reqId \in [Calls -> 0..MaxId \cup {NoId}]
  /\ callbacks = [c \in Calls |-> callbacks[c]] /\ \A c \in Calls : Once(c)
  /\ TimersOfTable /\ CallbackOnce /\ Untouched

\* list_del takes one node and nothing else from a list without duplicates.
LEMMA RemoveNode ==
  ASSUME NEW S, NEW s \in Seq(S), IsInjective(s), NEW c \in ToSet(s)
  PROVE  /\ RemoveFirst(s, c) \in Seq(S)
         /\ IsInjective(RemoveFirst(s, c))
         /\ ToSet(RemoveFirst(s, c)) = ToSet(s) \ {c}
<1> DEFINE I == {i \in 1..Len(s) : s[i] = c}
<1>1. PICK k \in 1..Len(s) : s[k] = c
  BY DEF ToSet
<1>2. I = {k}
  BY <1>1 DEF IsInjective
<1>3. Min(I) = k
  BY <1>2 DEF Min
<1>4. RemoveFirst(s, c) = SubSeq(s, 1, k - 1) \o SubSeq(s, k + 1, Len(s))
  <2>1. SelectInSeq(s, LAMBDA v : v = c) = k
    BY <1>2, <1>3 DEF SelectInSeq
  <2>2. RemoveFirst(s, c) = RemoveAt(s, SelectInSeq(s, LAMBDA v : v = c))
    BY <1>1 DEF RemoveFirst
  <2> QED
    BY <2>1, <2>2 DEF RemoveAt
<1> DEFINE r == SubSeq(s, 1, k - 1) \o SubSeq(s, k + 1, Len(s))
<1>5. /\ r \in Seq(S) /\ Len(r) = Len(s) - 1
      /\ \A j \in 1..(Len(s) - 1) : r[j] = IF j < k THEN s[j] ELSE s[j + 1]
  <2> DEFINE a == SubSeq(s, 1, k - 1)
             b == SubSeq(s, k + 1, Len(s))
  <2>1. /\ a \in Seq(S) /\ Len(a) = k - 1
        /\ \A j \in 1..(k - 1) : a[j] = s[j]
    BY SubSeqProperties
  <2>2. /\ b \in Seq(S) /\ Len(b) = Len(s) - k
        /\ \A j \in 1..(Len(s) - k) : b[j] = s[k + j]
    <3>1. /\ b \in Seq(S)
          /\ Len(b) = IF k + 1 <= Len(s) THEN Len(s) - (k + 1) + 1 ELSE 0
          /\ \A j \in 1..(Len(s) - (k + 1) + 1) : b[j] = s[k + 1 + j - 1]
      BY SubSeqProperties
    <3> QED
      BY <3>1
  <2> HIDE DEF a, b
  <2>3. k \in Nat /\ k >= 1 /\ k <= Len(s) /\ Len(s) \in Nat
    OBVIOUS
  <2>4. /\ a \o b \in Seq(S)
        /\ Len(a \o b) = Len(a) + Len(b)
        /\ \A j \in 1..(Len(a) + Len(b)) :
              (a \o b)[j] = IF j <= Len(a) THEN a[j] ELSE b[j - Len(a)]
    BY <2>1, <2>2, ConcatProperties
  <2>5. Len(a) + Len(b) = Len(s) - 1
    BY <2>1, <2>2, <2>3
  <2>6. ASSUME NEW j \in 1..(Len(s) - 1)
        PROVE  (a \o b)[j] = IF j < k THEN s[j] ELSE s[j + 1]
    <3>1. CASE j < k
      <4>1. j \in 1..(k - 1)
        BY <2>3, <3>1
      <4> QED
        BY <2>1, <2>3, <2>4, <2>5, <3>1, <4>1
    <3>2. CASE ~(j < k)
      <4>1. j - (k - 1) \in 1..(Len(s) - k) /\ ~(j <= k - 1)
        BY <2>3, <3>2
      <4>2. b[j - (k - 1)] = s[k + (j - (k - 1))] /\ k + (j - (k - 1)) = j + 1
        BY <2>2, <2>3, <4>1
      <4> QED
        BY <2>1, <2>3, <2>4, <2>5, <3>2, <4>1, <4>2
    <3> QED
      BY <3>1, <3>2
  <2>7. r = a \o b
    BY DEF a, b
  <2> QED
    BY <2>4, <2>5, <2>6, <2>7
<1> HIDE DEF r
<1>6. IsInjective(r)
  <2>1. DOMAIN r = 1..(Len(s) - 1) /\ DOMAIN s = 1..Len(s) /\ Len(s) \in Nat
    BY <1>5
  <2>2. ASSUME NEW i \in 1..(Len(s) - 1), NEW j \in 1..(Len(s) - 1), r[i] = r[j]
        PROVE  i = j
    <3> DEFINE at(x) == IF x < k THEN x ELSE x + 1
    <3>1. r[i] = s[at(i)] /\ r[j] = s[at(j)]
      BY <1>5
    <3>2. at(i) \in 1..Len(s) /\ at(j) \in 1..Len(s)
      BY <2>1
    <3>3. \A x, y \in 1..Len(s) : s[x] = s[y] => x = y
      BY <2>1 DEF IsInjective
    <3>4. at(i) = at(j)
      <4> HIDE DEF at
      <4> QED
        BY <2>2, <3>1, <3>2, <3>3
    <3> QED
      BY <2>1, <3>4
  <2> QED
    BY <2>1, <2>2 DEF IsInjective
<1>7. ToSet(r) = ToSet(s) \ {c}
  <2>1. ASSUME NEW x \in ToSet(r) PROVE x \in ToSet(s) /\ x # c
    <3>1. Len(s) \in Nat /\ DOMAIN r = 1..(Len(s) - 1) /\ DOMAIN s = 1..Len(s)
      BY <1>5
    <3>2. PICK j \in 1..(Len(s) - 1) : r[j] = x
      BY <3>1 DEF ToSet
    <3>3. PICK i \in 1..Len(s) : i # k /\ s[i] = x
      <4>1. CASE j < k
        BY <1>5, <3>1, <3>2, <4>1
      <4>2. CASE ~(j < k)
        <5>1. j + 1 \in 1..Len(s) /\ j + 1 # k
          BY <3>1, <4>2
        <5> QED
          BY <1>5, <3>2, <4>2, <5>1
      <4> QED
        BY <4>1, <4>2
    <3>4. x \in ToSet(s)
      BY <3>1, <3>3 DEF ToSet
    <3>5. x # c
      BY <1>1, <3>1, <3>3 DEF IsInjective
    <3> QED
      BY <3>4, <3>5
  <2>2. ASSUME NEW x \in ToSet(s), x # c PROVE x \in ToSet(r)
    <3>1. PICK i \in 1..Len(s) : s[i] = x
      BY DEF ToSet
    <3>2. CASE i < k
      <4>1. i \in 1..(Len(s) - 1) /\ r[i] = x
        BY <1>5, <3>1, <3>2
      <4> QED
        BY <1>5, <4>1 DEF ToSet
    <3>3. CASE i > k
      <4>1. i - 1 \in 1..(Len(s) - 1) /\ r[i - 1] = x
        BY <1>5, <3>1, <3>3
      <4> QED
        BY <1>5, <4>1 DEF ToSet
    <3> QED
      BY <1>1, <2>2, <3>1, <3>2, <3>3
  <2> QED
    BY <2>1, <2>2
<1> QED
  BY <1>4, <1>5, <1>6, <1>7 DEF r

\* list_add puts one new node in front.
LEMMA AddNode ==
  ASSUME NEW S, NEW s \in Seq(S), IsInjective(s), NEW c \in S, c \notin ToSet(s)
  PROVE  /\ <<c>> \o s \in Seq(S)
         /\ IsInjective(<<c>> \o s)
         /\ ToSet(<<c>> \o s) = ToSet(s) \cup {c}
<1> DEFINE r == <<c>> \o s
<1>1. /\ r \in Seq(S) /\ Len(r) = Len(s) + 1
      /\ r[1] = c /\ \A i \in 2..Len(r) : r[i] = s[i - 1]
  BY ConcatProperties
<1>2. /\ Len(s) \in Nat /\ DOMAIN r = 1..(Len(s) + 1) /\ DOMAIN s = 1..Len(s)
  BY <1>1
<1> HIDE DEF r
<1>3. \A i \in 2..(Len(s) + 1) : i - 1 \in DOMAIN s /\ r[i] = s[i - 1] /\ r[i] # c
  BY <1>1, <1>2 DEF ToSet
<1>4. IsInjective(r)
  <2> SUFFICES ASSUME NEW i \in 1..(Len(s) + 1), NEW j \in 1..(Len(s) + 1), r[i] = r[j]
               PROVE  i = j
    BY <1>2 DEF IsInjective
  <2>1. CASE i = 1 \/ j = 1
    BY <1>1, <1>2, <1>3, <2>1
  <2>2. CASE i # 1 /\ j # 1
    <3>1. i \in 2..(Len(s) + 1) /\ j \in 2..(Len(s) + 1)
      BY <1>2, <2>2
    <3>2. s[i - 1] = s[j - 1] /\ i - 1 \in DOMAIN s /\ j - 1 \in DOMAIN s
      BY <1>3, <3>1
    <3>3. i - 1 = j - 1
      BY <3>2 DEF IsInjective
    <3> QED
      BY <3>1, <3>3
  <2> QED
    BY <2>1, <2>2
<1>5. ToSet(r) = ToSet(s) \cup {c}
  <2>1. ASSUME NEW i \in DOMAIN s PROVE s[i] \in ToSet(r)
    <3>1. i + 1 \in 2..(Len(s) + 1) /\ (i + 1) - 1 = i
      BY <1>2
    <3>2. r[i + 1] = s[i] /\ i + 1 \in DOMAIN r
      BY <1>2, <1>3, <3>1
    <3> QED
      BY <3>2 DEF ToSet
  <2>2. c \in ToSet(r)
    BY <1>1, <1>2 DEF ToSet
  <2>3. ASSUME NEW i \in DOMAIN r PROVE r[i] \in ToSet(s) \cup {c}
    BY <1>1, <1>2, <1>3 DEF ToSet
  <2> QED
    BY <2>1, <2>2, <2>3 DEF ToSet
<1> QED
  BY <1>1, <1>4, <1>5 DEF r

\* Initially the table is empty.
LEMMA InitTable == Init => TableInv
<1> SUFFICES ASSUME Init PROVE TableInv
  OBVIOUS
<1> USE DEF Init, ClientInit
<1>1. mRequestList \in Seq(Calls) /\ Waiting = {} /\ IsInjective(mRequestList)
  BY DEF Waiting, ToSet, IsInjective
<1>2. callbacks = [c \in Calls |-> callbacks[c]] /\ \A c \in Calls : Once(c)
  BY DEF Once
<1> QED
  BY <1>1, <1>2, IdsAssumption DEF TableInv, TimersOfTable, CallbackOnce, Untouched

\* A request joins the table with its timer, or not at all; its call is new.
LEMMA SendRequestTable ==
  ASSUME TableInv, NEW c \in Calls, SendRequest(c) PROVE TableInv'
<1> USE DEF TableInv, TimersOfTable, CallbackOnce, Untouched
<1>0. /\ c \notin Waiting /\ callbacks[c] = <<>> /\ reqId[c] = NoId
      /\ UNCHANGED <<callbacks, clientOpen>> /\ clientOpen
      /\ \A d \in Calls : d # c => reqId'[d] = reqId[d]
  BY DEF SendRequest
<1>a. mCurReqId' \in 0..MaxId /\ reqId' = [reqId EXCEPT ![c] = mCurReqId'] /\ reqId'[c] # NoId
  BY IdsAssumption DEF SendRequest, GetNextReqId
<1>b. callbacks' = [d \in Calls |-> callbacks'[d]] /\ \A d \in Calls : Once(d)'
  BY <1>0 DEF Once
<1>1. CASE UNCHANGED <<mRequestList, timers>>
  BY <1>0, <1>a, <1>b, <1>1 DEF Waiting
<1>2. CASE mRequestList' = <<c>> \o mRequestList /\ timers' = timers \cup {c}
  <2>1. /\ mRequestList' \in Seq(Calls) /\ IsInjective(mRequestList')
        /\ Waiting' = Waiting \cup {c}
    BY <1>0, <1>2, AddNode DEF Waiting
  <2> QED
    BY <1>0, <1>a, <1>b, <1>2, <2>1
<1> QED
  BY <1>1, <1>2 DEF SendRequest, Register

\* What Append does to the log of a callback that has not run.
LEMMA AppendToEmpty == ASSUME NEW res PROVE Append(<<>>, res) = <<res>>
  OBVIOUS

\* A node leaves the table with its timer, and at most one callback ran for it.
LEMMA DropTable ==
  ASSUME TableInv, NEW c \in Waiting, Drop(c),
         UNCHANGED <<mCurReqId, reqId, clientOpen>>,
         UNCHANGED callbacks \/ \E code, call : CallBack(c, code, call)
  PROVE  TableInv'
<1> USE DEF TableInv, TimersOfTable, CallbackOnce, Untouched
<1>1. c \in Calls
  BY DEF Waiting, ToSet
<1>2. /\ mRequestList' \in Seq(Calls) /\ IsInjective(mRequestList')
      /\ Waiting' = Waiting \ {c} /\ timers' = timers \ {c}
  BY RemoveNode DEF Waiting, Drop
<1>3. /\ callbacks' = [d \in Calls |-> callbacks'[d]]
      /\ \A d \in Calls : d # c => callbacks'[d] = callbacks[d]
      /\ callbacks'[c] = <<>> \/ \E res : callbacks'[c] = <<res>>
  <2>1. CASE UNCHANGED callbacks
    BY <1>1, <2>1
  <2>2. ASSUME NEW code, NEW call, CallBack(c, code, call)
        PROVE  /\ callbacks' = [d \in Calls |-> callbacks'[d]]
               /\ \A d \in Calls : d # c => callbacks'[d] = callbacks[d]
               /\ callbacks'[c] = <<>> \/ \E res : callbacks'[c] = <<res>>
    <3> DEFINE res == [code |-> code, call |-> call]
    <3>1. callbacks[c] = <<>>
      BY <1>1
    <3>2. UNCHANGED callbacks \/ callbacks' = [callbacks EXCEPT ![c] = Append(callbacks[c], res)]
      BY <2>2 DEF CallBack
    <3> HIDE DEF res
    <3>3. Append(callbacks[c], res) = <<res>>
      BY <3>1, AppendToEmpty
    <3>4. UNCHANGED callbacks \/ callbacks' = [callbacks EXCEPT ![c] = <<res>>]
      BY <3>2, <3>3
    <3> QED
      BY <1>1, <3>1, <3>4
  <2> QED
    BY <2>1, <2>2
<1>4. \A d \in Calls : Once(d)' /\ Len(callbacks'[d]) <= 1
  <2> SUFFICES ASSUME NEW d \in Calls PROVE Once(d)' /\ Len(callbacks'[d]) <= 1
    OBVIOUS
  <2>1. CASE d = c
    <3>1. CASE callbacks'[c] = <<>>
      <4>1. Once(c)'
        BY <3>1 DEF Once
      <4>2. Len(callbacks'[c]) = 0
        BY <3>1
      <4> QED
        BY <2>1, <4>1, <4>2
    <3>2. ASSUME NEW res, callbacks'[c] = <<res>> PROVE Once(d)' /\ Len(callbacks'[d]) <= 1
      <4>1. Once(c)'
        BY <3>2 DEF Once
      <4>2. Len(<<res>>) = 1
        OBVIOUS
      <4> QED
        BY <2>1, <3>2, <4>1, <4>2
    <3> QED
      BY <1>3, <3>1, <3>2
  <2>2. CASE d # c
    BY <1>3, <2>2 DEF Once
  <2> QED
    BY <2>1, <2>2
<1>5. \A d \in Waiting' : d # c /\ d \in Waiting
  BY <1>2
<1> QED
  BY <1>1, <1>2, <1>3, <1>4, <1>5

\* A reply takes at most one node from the table, whatever it says.
LEMMA ClientReadTable == ASSUME TableInv, ClientRead PROVE TableInv'
<1>1. PICK m, r :
        \/ ParseClientData(m, r)
        \/ UNCHANGED <<mRequestList, timers, callbacks>>
  BY DEF ClientRead
<1>2. UNCHANGED <<mCurReqId, reqId, clientOpen>>
  BY DEF ClientRead
<1>3. CASE UNCHANGED <<mRequestList, timers, callbacks>>
  BY <1>2, <1>3 DEF TableInv, TimersOfTable, CallbackOnce, Untouched, Waiting, Once
<1>4. CASE ~UNCHANGED <<mRequestList, timers, callbacks>>
  <2>1. PICK i \in DOMAIN mRequestList :
          /\ Drop(mRequestList[i])
          /\ \/ UNCHANGED callbacks
             \/ CallBack(mRequestList[i], r.code, r.call)
    BY <1>1, <1>4 DEF ParseClientData, Matching
  <2>2. mRequestList[i] \in Waiting
    BY DEF Waiting, ToSet
  <2> QED
    BY <1>2, <2>1, <2>2, DropTable
<1> QED
  BY <1>3, <1>4

\* The table invariant is inductive.
LEMMA NextTable == TableInv /\ [Next]_vars => TableInv'
<1> SUFFICES ASSUME TableInv, [Next]_vars PROVE TableInv'
  OBVIOUS
<1>1. ASSUME NEW c \in Calls, SendRequest(c) PROVE TableInv'
  BY <1>1, SendRequestTable
<1>2. ASSUME NEW c \in Calls, RequestTimeout(c) PROVE TableInv'
  <2>1. c \in Waiting
    BY <1>2 DEF RequestTimeout, TableInv, TimersOfTable
  <2> QED
    BY <1>2, <2>1, DropTable DEF RequestTimeout, streamVars
<1>3. ASSUME ClientRead PROVE TableInv'
  BY <1>3, ClientReadTable
<1>4. ASSUME ClientDestroy PROVE TableInv'
  BY <1>4, EmptySeq DEF ClientDestroy, DropAll, TableInv, TimersOfTable, CallbackOnce,
     Untouched, Waiting, Once, ToSet, IsInjective
<1>5. ASSUME UNCHANGED <<clientVars, clientOpen>> PROVE TableInv'
  BY <1>5 DEF clientVars, TableInv, TimersOfTable, CallbackOnce, Untouched, Waiting, Once
<1>6. ServerRead \/ ServerEof => UNCHANGED clientOpen
  BY DEF ServerRead, ServerEof
<1> QED
  BY <1>1, <1>2, <1>3, <1>4, <1>5, <1>6 DEF Next, vars, streamVars

\* The table invariant holds in every reachable state.
LEMMA TableInvariance == Spec => []TableInv
  BY InitTable, NextTable, PTL DEF Spec

\* The armed timers are exactly those of the nodes in the table: no timer ever
\* fires on a node that has been freed.
THEOREM NoDanglingTimer == Spec => []TimersOfTable
<1>1. TableInv => TimersOfTable
  BY DEF TableInv
<1> QED
  BY <1>1, TableInvariance, PTL

\* Reply, timeout and destructor run the callback of a call at most once.
THEOREM AtMostOnce == Spec => []CallbackOnce
<1>1. TableInv => CallbackOnce
  BY DEF TableInv
<1> QED
  BY <1>1, TableInvariance, PTL

\* No callback runs after the destructor.
THEOREM QuietAfterwards == Spec => QuietAfterDestroy
<1>1. TableInv /\ [Next]_vars => [~clientOpen => UNCHANGED callbacks]_vars
  <2> SUFFICES ASSUME TableInv, Next, ~clientOpen PROVE UNCHANGED callbacks
    OBVIOUS
  <2>1. timers = {}
    BY DEF TableInv, TimersOfTable
  <2>2. ASSUME NEW c \in Calls, SendRequest(c) \/ RequestTimeout(c) PROVE UNCHANGED callbacks
    BY <2>1, <2>2 DEF SendRequest, RequestTimeout
  <2>3. ASSUME ClientRead \/ ClientDestroy PROVE UNCHANGED callbacks
    BY <2>3 DEF ClientRead, ClientDestroy
  <2> QED
    BY <2>2, <2>3 DEF Next, clientVars
<1> QED
  BY <1>1, TableInvariance, PTL DEF Spec, QuietAfterDestroy
=============================================================================
