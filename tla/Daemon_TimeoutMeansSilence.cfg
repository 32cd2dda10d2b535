\* A heartbeat arrives before the timer fires.
CONSTANTS
  t1 = t1  t2 = t2  n1 = n1  n2 = n2  tool = tool
  NoTask = NoTask
  Tasks = {t1, t2}
  Pids <- TwoPids
  MaxForeign = 0
  JunkStatus = {"U"}
  JunkPids = {0}
  MaxForkFails = 0
  Config <- TwoTasks
  Names = {n1, n2}
  NameOf <- TwoNames
  Tools = {tool}
  ObjectFaults = FALSE
SPECIFICATION DaemonSpec
PROPERTIES TimeoutMeansSilence
CHECK_DEADLOCK FALSE
