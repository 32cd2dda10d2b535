---------------------------- MODULE ConfigProofs ----------------------------
(***************************************************************************)
(* The parser for documents of any length, with memory running out         *)
(* anywhere: tasks keep the order of the file, and a failure leaves nothing.*)
(***************************************************************************)
EXTENDS Config, TLAPS

Node == [id : Nat, name : {EmptyName}]

\* In the loop: the first i entries were in order, and their nodes make up
\* tmpList, the last one in front, and the heap.
LoopInv ==
  /\ i \in 0..Len(doc.tasks)
  /\ tmpList \in Seq(Node) /\ Len(tmpList) = i
  /\ \A k \in 1..i : tmpList[k].id = i + 1 - k
  /\ heap = 1..i
  /\ config = Zeroed
  /\ \A k \in 1..i : doc.tasks[k].ok
  /\ doc.json /\ doc.header

Inv ==
  /\ doc \in Documents
  /\ pc \in {"open", "parse", "tasks", "done"}
  /\ pc \in {"open", "parse"} => i = 0 /\ tmpList = <<>> /\ heap = {} /\ config = Zeroed
  /\ pc = "tasks" => LoopInv
  /\ FileOrder /\ AllOrNothing

\* The list in s_global_config is tmpList backwards, with the same nodes.
LEMMA MovedOrder ==
  ASSUME NEW list \in Seq(Node)
  PROVE  /\ Moved(list) \in Seq(Node) /\ Len(Moved(list)) = Len(list)
         /\ \A k \in 1..Len(list) : Moved(list)[k] = list[Len(list) - k + 1]
  BY DEF Moved, Reverse

\* When all entries were read, their nodes become the configuration.
LEMMA SetInv ==
  ASSUME LoopInv, i = Len(doc.tasks), SetGlobalConfig, doc' = doc, doc \in Documents
  PROVE  Inv'
<1> USE DEF LoopInv, SetGlobalConfig, Done
<1> DEFINE list == Moved(tmpList)
<1>1. /\ list \in Seq(Node) /\ Len(list) = i
      /\ \A k \in 1..i : list[k] = tmpList[i - k + 1]
  BY MovedOrder
<1>2. \A k \in 1..i : list[k].id = k
  <2>1. i \in Nat
    OBVIOUS
  <2>2. \A k \in 1..i : i - k + 1 \in 1..i /\ i + 1 - (i - k + 1) = k
    BY <2>1
  <2> HIDE DEF list
  <2>3. ASSUME NEW k \in 1..i PROVE list[k].id = k
    <3>1. list[k] = tmpList[i - k + 1]
      BY <1>1
    <3>2. \A l \in 1..i : tmpList[l].id = i + 1 - l
      OBVIOUS
    <3>3. tmpList[i - k + 1].id = i + 1 - (i - k + 1)
      BY <2>2, <3>2
    <3> QED
      BY <2>2, <3>1, <3>3
  <2> QED
    BY <2>3
<1> HIDE DEF list
<1>3. config'.list = list /\ heap' = 1..i /\ pc' = "done" /\ ret' = 0
  BY DEF list
<1>4. FileOrder'
  BY <1>1, <1>2, <1>3 DEF FileOrder
<1>5. Nodes(list) = 1..i
  <2>1. Nodes(list) = {list[k].id : k \in 1..i}
    BY <1>1 DEF Nodes, ToSet
  <2> QED
    BY <1>2, <2>1
<1>6. AllOrNothing'
  BY <1>3, <1>5 DEF AllOrNothing
<1> QED
  BY <1>3, <1>4, <1>6 DEF Inv

\* A failure frees the nodes made so far and leaves the configuration zeroed.
LEMMA FailInv ==
  ASSUME NEW n \in Nat, tmpList \in Seq(Node), Len(tmpList) = n, heap = 1..n,
         \A k \in 1..n : tmpList[k].id = n + 1 - k,
         config = Zeroed, config' = config, GotoError, doc' = doc, doc \in Documents
  PROVE  Inv'
<1>1. Nodes(tmpList) = heap
  <2>1. Nodes(tmpList) = {tmpList[k].id : k \in 1..n}
    BY DEF Nodes, ToSet
  <2>2. \A j \in 1..n : n + 1 - j \in 1..n /\ tmpList[n + 1 - j].id = j
    OBVIOUS
  <2> QED
    BY <2>1, <2>2
<1>2. heap' = {} /\ pc' = "done" /\ ret' = -1 /\ config' = Zeroed
  BY <1>1 DEF GotoError, Done
<1>3. Nodes(Zeroed.list) = {}
  BY DEF Nodes, ToSet, Zeroed
<1> QED
  BY <1>2, <1>3 DEF Inv, FileOrder, AllOrNothing

LEMMA InitInv == Init => Inv
  BY DEF Init, Inv, FileOrder, AllOrNothing

LEMMA StepInv == Inv /\ [Next]_vars => Inv'
<1> SUFFICES ASSUME Inv, [Next]_vars PROVE Inv'
  OBVIOUS
<1>0. Len(doc.tasks) \in Nat
  BY DocumentsAssumption DEF Inv
<1>1. CASE UNCHANGED vars
  BY <1>1 DEF vars, Inv, LoopInv, FileOrder, AllOrNothing
<1>2. CASE ReadFile
  <2>1. Nodes(Zeroed.list) = {}
    BY DEF Nodes, ToSet, Zeroed
  <2> QED
    BY <1>2, <2>1 DEF ReadFile, Done, Inv, FileOrder, AllOrNothing
<1>3. CASE ParseHeader
  <2>1. i = 0 /\ tmpList = <<>> /\ heap = {} /\ config = Zeroed /\ doc' = doc
    BY <1>3 DEF ParseHeader, Inv
  <2>2. doc.json /\ doc.header => LoopInv
    BY <1>0, <2>1 DEF LoopInv
  <2>3. CASE GotoError /\ UNCHANGED config
    BY <2>1, <2>3, FailInv DEF Inv
  <2>4. CASE SetGlobalConfig /\ doc.tasks = <<>> /\ doc.json /\ doc.header
    BY <2>1, <2>2, <2>4, SetInv DEF Inv
  <2>5. CASE /\ pc' = "tasks" /\ UNCHANGED <<heap, tmpList, config, ret>>
             /\ doc.json /\ doc.header
    BY <1>3, <2>1, <2>2, <2>5 DEF ParseHeader, Inv, LoopInv, FileOrder, AllOrNothing
  <2>6. CASE Done(-1) /\ UNCHANGED <<heap, tmpList, config>>
    <3>1. Nodes(Zeroed.list) = {}
      BY DEF Nodes, ToSet, Zeroed
    <3> QED
      BY <2>1, <2>6, <3>1 DEF Done, Inv, FileOrder, AllOrNothing
  <2> QED
    BY <1>3, <2>3, <2>4, <2>5, <2>6 DEF ParseHeader
<1>4. CASE ParseTask
  <2>1. LoopInv /\ doc' = doc /\ config' = config /\ i < Len(doc.tasks) /\ pc = "tasks"
    BY <1>4 DEF ParseTask, Inv
  <2>2. CASE GotoError
    BY <1>0, <2>1, <2>2, FailInv DEF LoopInv, Inv
  <2>3. CASE ~GotoError
    <3> DEFINE node == [id |-> i + 1, name |-> EmptyName]
    <3>1. /\ doc.tasks[i + 1].ok /\ heap' = heap \cup {i + 1}
          /\ tmpList' = <<node>> \o tmpList /\ i' = i + 1 /\ UNCHANGED <<pc, ret>>
      BY <1>4, <2>3 DEF ParseTask, ListAdd, StoredName
    <3>2. node \in Node /\ node.id = i + 1
      BY <1>0, <2>1 DEF LoopInv, Node
    <3> HIDE DEF node
    <3>3. i' \in 0..Len(doc'.tasks) /\ heap' = 1..i'
      BY <1>0, <2>1, <3>1 DEF LoopInv
    <3>4. tmpList' \in Seq(Node) /\ Len(tmpList') = i'
      BY <1>0, <2>1, <3>1, <3>2 DEF LoopInv
    <3>5. \A k \in 1..i' : tmpList'[k].id = i' + 1 - k
      BY <1>0, <2>1, <3>1, <3>2 DEF LoopInv
    <3>6. \A k \in 1..i' : doc'.tasks[k].ok
      BY <1>0, <2>1, <3>1 DEF LoopInv
    <3> QED
      BY <2>1, <3>1, <3>3, <3>4, <3>5, <3>6
      DEF Inv, LoopInv, FileOrder, AllOrNothing
  <2> QED
    BY <2>2, <2>3
<1>5. CASE ParseEnd
  BY <1>5, SetInv DEF ParseEnd, Inv
<1> QED
  BY <1>1, <1>2, <1>3, <1>4, <1>5 DEF Next

LEMMA Invariance == Spec => []Inv
  BY InitInv, StepInv, PTL DEF Spec

\* task_core_init starts the tasks in the order in which the file lists them.
THEOREM OrderKept == Spec => []FileOrder
  BY Invariance, PTL DEF Inv

\* A malformed file or a failed malloc leaves no configuration and no node.
THEOREM NothingHalfDone == Spec => []AllOrNothing
  BY Invariance, PTL DEF Inv
=============================================================================
