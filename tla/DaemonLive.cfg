\* Liveness of the daemon under load.
CONSTANTS
  t1 = t1  t2 = t2  n1 = n1  n2 = n2  tool = tool
  NoTask = NoTask
  Tasks = {t1, t2}
  Pids <- TwoPids
  MaxForeign = 0
  JunkStatus = {"U"}
  JunkPids = {0}
  MaxForkFails = 1
  Config <- TwoTasks
  Names = {n1, n2}
  NameOf <- TwoNames
  Tools = {tool}
  ObjectFaults = TRUE
SPECIFICATION DaemonFairSpec
PROPERTY Served
CHECK_DEADLOCK FALSE
