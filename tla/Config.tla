------------------------------- MODULE Config -------------------------------
(***************************************************************************)
(* task_config.cpp: taskd reads its configuration file once, before        *)
(* anything else, and task_core_init then visits its tasks in the order of *)
(* the list that is left in s_global_config.  Every malloc may fail.       *)
(*                                                                         *)
(* A document is what cJSON makes of the file.  An entry of "tasks" is ok  *)
(* if each of its four fields is there with the right type; which one is   *)
(* not makes no difference to the parser.  The type of "tasks" itself is   *)
(* not looked at: its entries are its children, of which a number or a     *)
(* string has none.                                                        *)
(***************************************************************************)
EXTENDS Integers, SequencesExt

CONSTANTS
  Documents,    \* the documents a file may hold
  EmptyName     \* the name ""

\* json: could it be parsed; header: are maxTasks and queryInterval there and
\* numbers, and is there something under "tasks"; tasks: its children.
ASSUME DocumentsAssumption ==
  \A d \in Documents :
    /\ d.json \in BOOLEAN /\ d.header \in BOOLEAN /\ d.maxTasks \in Nat
    /\ d.tasks \in Seq([name : {e.name : e \in ToSet(d.tasks)}, ok : BOOLEAN])

VARIABLES
  doc,        \* the document in the file
  pc,         \* "open", "parse", "tasks", "done"
  i,          \* entries dealt with
  tmpList,    \* parse_config_file's list, from its head
  config,     \* s_global_config: maxTasks and the list, from its head
  heap,       \* the nodes allocated and not freed
  opened,     \* is the FILE open
  ret         \* what task_config_init returns

vars == <<doc, pc, i, tmpList, config, heap, opened, ret>>

Zeroed == [maxTasks |-> 0, list |-> <<>>]

\* task_config_init begins: s_global_config is zeroed, its list empty.
Init ==
  /\ doc \in Documents
  /\ pc = "open" /\ i = 0 /\ ret = 0
  /\ tmpList = <<>> /\ heap = {}
  /\ config = Zeroed
  /\ opened = FALSE

Nodes(list) == {n.id : n \in ToSet(list)}

Done(result) == pc' = "done" /\ ret' = result

-----------------------------------------------------------------------------
\* task_config_init up to the parser: the file is not there, there is no memory
\* for its text (the FILE stays open), a read fails, or all of it is read.
ReadFile ==
  /\ pc = "open"
  /\ \/ Done(-1) /\ opened' \in BOOLEAN
     \/ pc' = "parse" /\ opened' = FALSE /\ UNCHANGED ret
  /\ UNCHANGED <<doc, i, tmpList, config, heap>>

\* list_add puts a node in front of the list.
ListAdd(node, list) == <<node>> \o list

\* The nodes of a list, taken off its head and put in front of an empty list
\* one by one.
Moved_Tail(list) == list
Moved(list)      == Reverse(list)

\* set_global_config.  The list it frees first is empty: there is one call.
SetGlobalConfig ==
  /\ config' = [maxTasks |-> doc.maxTasks, list |-> Moved(tmpList)]
  /\ UNCHANGED heap
  /\ tmpList' = <<>>
  /\ Done(0)

\* ERROR: what has been built is freed.
GotoError_KeepNodes == Done(-1) /\ UNCHANGED <<heap, tmpList>>
GotoError ==
  /\ Done(-1)
  /\ heap' = heap \ Nodes(tmpList)
  /\ tmpList' = <<>>

\* The text is no JSON (or there is no memory for it); a key of the header is
\* missing, or one of the two numbers is none; "tasks" has no children; or the
\* loop begins.
ParseHeader ==
  /\ pc = "parse"
  /\ \/ Done(-1) /\ UNCHANGED <<heap, tmpList, config>>
     \/ /\ doc.json /\ ~doc.header
        /\ GotoError
        /\ UNCHANGED config
     \/ /\ doc.json /\ doc.header /\ doc.tasks = <<>>
        /\ SetGlobalConfig
     \/ /\ doc.json /\ doc.header /\ doc.tasks # <<>>
        /\ pc' = "tasks"
        /\ UNCHANGED <<heap, tmpList, config, ret>>
  /\ UNCHANGED <<doc, i, opened>>

\* What the new node holds as its name, path and param: strncmp compares where
\* strncpy was meant (and it->string is the key), so the zeroed node stays.
StoredName(entry) == EmptyName

\* One round of the loop: a node, its fields; any failure ends in ERROR.
ParseTask ==
  /\ pc = "tasks" /\ i < Len(doc.tasks)
  /\ LET entry == doc.tasks[i + 1]
         node  == [id |-> i + 1, name |-> StoredName(entry)] IN
       \/ /\ GotoError       \* no memory
          /\ UNCHANGED i
       \/ /\ entry.ok
          /\ heap' = heap \cup {node.id}
          /\ tmpList' = ListAdd(node, tmpList)
          /\ i' = i + 1
          /\ UNCHANGED <<pc, ret>>
       \/ /\ ~entry.ok       \* the node is in the list already, and freed with it
          /\ GotoError
          /\ UNCHANGED i
  /\ UNCHANGED <<doc, config, opened>>

ParseEnd ==
  /\ pc = "tasks" /\ i = Len(doc.tasks)
  /\ SetGlobalConfig
  /\ UNCHANGED <<doc, i, opened>>

Next == ReadFile \/ ParseHeader \/ ParseTask \/ ParseEnd

Spec == Init /\ [][Next]_vars

-----------------------------------------------------------------------------
\* foreach_task visits the tasks in the order of the file, each once: every task
\* is put in front twice, so the two reversals cancel out.
FileOrder ==
  pc = "done" /\ ret = 0 =>
    /\ Len(config.list) = Len(doc.tasks)
    /\ \A k \in DOMAIN config.list : config.list[k].id = k

\* A file whose header or one of whose entries is malformed, or memory that runs
\* out half way, leaves no configuration and no node behind; otherwise exactly the
\* nodes listed stay.
AllOrNothing ==
  pc = "done" =>
    /\ heap = Nodes(config.list)
    /\ ret = 0 => doc.json /\ doc.header /\ \A k \in DOMAIN doc.tasks : doc.tasks[k].ok
    /\ ret # 0 => config = Zeroed

=============================================================================
