\* No tool at all: a task restarted by its timer has a heartbeat in the socket.
CONSTANTS
  t1 = t1  t2 = t2  n1 = n1  n2 = n2  tool = tool
  NoTask = NoTask
  Tasks = {t1, t2}
  Pids <- TwoPids
  MaxForeign = 0
  JunkStatus = {"U"}
  JunkPids = {0}
  MaxForkFails = 0
  Config <- TwoTasks
  Names = {n1, n2}
  NameOf <- TwoNames
  Tools = {}
  ObjectFaults = FALSE
SPECIFICATION DaemonSpec
PROPERTIES DaemonSurvives
CHECK_DEADLOCK FALSE
