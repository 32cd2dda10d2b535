-------------------------------- MODULE Cli --------------------------------
(***************************************************************************)
(* task_cli.cpp: main of taskcli reads its options and then connects to    *)
(* the daemon and sends one request.  An argument is named for what main   *)
(* makes of it: "pid0" is -p with no number, "other" an unknown option.    *)
(***************************************************************************)
EXTENDS Sequences, SequencesExt

CONSTANT MaxArgs    \* bound: arguments of one run

Arguments == {"l", "p", "pid0", "n", "a", "badaction", "other"}

VARIABLES
  args,       \* arguments getopt has not returned yet
  ch,         \* what getopt has returned
  data,       \* which of s_data's fields were given: "list", "pid", "name", "action"
  pc          \* "getopt", "switch", "connect", "exit", "crash"; or the request it
              \* waits for

vars == <<args, ch, data, pc>>

Requests == {"QUERY_ALL", "QUERY_TASK", "TASK_ACTION"}

Init ==
  /\ args \in BoundedSeq(Arguments, MaxArgs)
  /\ ch = "none" /\ data = {}
  /\ pc = "getopt"

\* getopt returns -1 when there is no option left, as often as it is called.
GetOpt ==
  /\ pc = "getopt"
  /\ pc' = "switch"
  /\ IF args = <<>> THEN ch' = "-1" /\ UNCHANGED args
     ELSE ch' = Head(args) /\ args' = Tail(args)
  /\ UNCHANGED data

Field == [l |-> "list", p |-> "pid", n |-> "name", a |-> "action"]

\* The condition of the loop is getopt's result itself: any but 0 goes on.
LoopGoesOn == ch # "0"

Switch ==
  /\ pc = "switch" /\ LoopGoesOn
  /\ \/ /\ ch \in DOMAIN Field
        /\ data' = data \cup {Field[ch]} /\ pc' = "getopt"
     \/ /\ ch \in {"pid0", "badaction"}     \* usage
        /\ pc' = "exit" /\ UNCHANGED data
     \/ /\ ch \in {"other", "-1"}           \* no case of the switch
        /\ pc' = "getopt" /\ UNCHANGED data
  /\ UNCHANGED <<args, ch>>

LoopEnds ==
  /\ pc = "switch" /\ ~LoopGoesOn
  /\ pc' = "connect"
  /\ UNCHANGED <<args, ch, data>>

\* inst_init_cb: the request the options ask for.  connect_server may fail.
InstInit ==
  /\ pc = "connect"
  /\ \/ pc' = "exit"
     \/ pc' = IF "list" \notin data THEN "TASK_ACTION"
              ELSE IF data \cap {"pid", "name"} # {} THEN "QUERY_TASK"
              ELSE "QUERY_ALL"
  /\ UNCHANGED <<args, ch, data>>

\* The callback of a query exits, and so does the end of the connection.  What is
\* registered for an action is the number of the action, 1 to 3, which is called as
\* a function; without -a it is 0 and nobody is told.
Answered ==
  /\ pc \in Requests
  /\ \/ pc' = "exit"
     \/ pc = "TASK_ACTION" /\ "action" \in data /\ pc' = "crash"
  /\ UNCHANGED <<args, ch, data>>

Main == GetOpt \/ Switch \/ LoopEnds \/ InstInit
Next == Main \/ Answered

\* main and the first callback of its event loop run on by themselves.
Spec == Init /\ [][Next]_vars /\ WF_vars(Main)

\* A claim of the code's own texts which the code does not keep.
\* task_cli.cpp:24, "-l: list tasks": with that option taskcli connects and asks,
\* or says what is wrong with its arguments.
Asks == "list" \in data ~> pc \in Requests \cup {"exit"}
=============================================================================
