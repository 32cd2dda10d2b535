------------------------------ MODULE Protocol ------------------------------
(***************************************************************************)
(* The JSON messages of task_msg.cpp: which keys each side writes and which*)
(* it asks for.  The "data" object of a request is a function from its     *)
(* keys to values; of a reply only the kind of "data" and its keys matter. *)
(* Keys are written in lower case: cJSON_GetObjectItem ignores case.       *)
(***************************************************************************)
EXTENDS Naturals

CONSTANTS
  KnownPids, KnownNames,   \* pids and names of the tasks in taskList
  NoName,                  \* a NULL name argument
  EmptyName,               \* the name ""
  ListLen                  \* pieces in the JSON of a list of the tasks

ASSUME ListAssumption == ListLen \in Nat \ {0}

Types == {"HEARTBEAT", "QUERY_ALL", "QUERY_TASK", "TASK_ACTION"}

\* sendReqHearbeat, sendReqQueryAllTask, sendReqQuerySingleTask and
\* sendReqTaskAction: what request r carries as "data".
RequestData(r) ==
  CASE r.type = "HEARTBEAT"   -> [pid |-> r.pid, heartbeat |-> "seconds"]
    [] r.type = "QUERY_ALL"   -> << >>
    [] r.type = "QUERY_TASK"  -> IF r.name = NoName THEN [pid |-> r.pid]
                                 ELSE [pid |-> r.pid, name |-> r.name]
    [] r.type = "TASK_ACTION" -> [pid |-> r.pid, action |-> "number"]

\* The search of processGetSingleTask and processTaskAction.
Search(pid, name) ==
  IF (IF pid # 0 THEN pid \in KnownPids ELSE name \in KnownNames)
  THEN "SUCC" ELSE "NOT_FOUND"

(***************************************************************************)
(* The process...Req methods of MsgServer.  A query that has a pid ignores *)
(* its name (tsReq is zeroed, so it searches for ""); an action has no     *)
(* name.  The misspelt key of the heartbeat is also the one an action needs.*)
(***************************************************************************)
ErrCode(r) ==
  LET data == RequestData(r)
      Has(keys) == keys \subseteq DOMAIN data IN
  CASE r.type = "HEARTBEAT"   -> IF Has({"pid", "hearbeat"}) THEN "SUCC" ELSE "PARSE"
    [] r.type = "QUERY_ALL"   -> "SUCC"
    [] r.type = "QUERY_TASK"  -> IF Has({"pid"}) THEN Search(data.pid, EmptyName)
                                 ELSE IF Has({"name"}) THEN Search(0, data.name)
                                 ELSE "PARSE"
    [] r.type = "TASK_ACTION" -> IF Has({"pid", "hearbeat"}) THEN Search(data.pid, EmptyName)
                                 ELSE "PARSE"

\* Any of them may also run out of memory, and then so may createFailMsg.
Codes(r) == {ErrCode(r), "MEM"}

\* The "data" of the reply, when the code is SUCC.
ReplyData(type) ==
  CASE type = "HEARTBEAT"   -> [kind |-> "object", keys |-> {"pid", "heartbeat"}]
    [] type = "QUERY_ALL"   -> [kind |-> "array",  keys |-> {}]
    [] type = "QUERY_TASK"  -> [kind |-> "object",
                                keys |-> {"pid", "name", "param", "status", "heartbeat"}]
    [] type = "TASK_ACTION" -> [kind |-> "none",   keys |-> {}]

ReplyLen(type, code) == IF type = "QUERY_ALL" /\ code = "SUCC" THEN ListLen ELSE 1

\* The process...Rsp methods of MsgClient: is data what they expect?  If not
\* they return -1 without calling the callback.
Accepts(type, data) ==
  CASE type = "HEARTBEAT"   -> data.kind = "object" /\ {"pid", "heatbeat"} \subseteq data.keys
    [] type = "QUERY_ALL"   -> data.kind = "raw"
    [] type = "QUERY_TASK"  -> /\ data.kind = "object"
                               /\ {"pid", "name", "param", "status", "heartbeat"}
                                    \subseteq data.keys
    [] type = "TASK_ACTION" -> TRUE

\* processRspData: an error code goes to the callback whatever the type.
CallsBack_SuccOnly(type, code, data) == code = "SUCC" /\ Accepts(type, data)
CallsBack(type, code, data)          == code # "SUCC" \/ Accepts(type, data)
=============================================================================
