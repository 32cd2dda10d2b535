---------------------------- MODULE MCConnection ----------------------------
(* Small instances of Connection.                                          *)
EXTENDS Connection

CONSTANTS c1, c2, c3, c4, known

Request(type, pid, name) == [type |-> type, pid |-> pid, name |-> name]

\* An action, a list and the query of a task by its pid.
Mixed == c1 :> Request("TASK_ACTION", 7, NoName) @@ c2 :> Request("QUERY_ALL", 0, NoName)
           @@ c3 :> Request("QUERY_TASK", 7, EmptyName)

\* A heartbeat, a list, the query of a task by its name, and an action.
OneOfEach == c1 :> Request("HEARTBEAT", 7, NoName) @@ c2 :> Request("QUERY_ALL", 0, NoName)
               @@ c3 :> Request("QUERY_TASK", 0, known) @@ c4 :> Request("TASK_ACTION", 7, NoName)
=============================================================================
