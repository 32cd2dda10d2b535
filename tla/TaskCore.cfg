\* Two tasks, failing forks, junk objects, one unrelated process; safety and liveness.
CONSTANTS
  t1 = t1  t2 = t2  n1 = n1  n2 = n2
  Tasks = {t1, t2}
  NoTask = NoTask
  Pids <- ThreePids
  MaxForeign = 1
  JunkStatus = {"U", "R", "junk"}
  JunkPids <- JunkAll
  MaxForkFails = 2
  Config <- TwoTasks
  Names = {n1, n2}
  NameOf <- TwoNames
SPECIFICATION FairSpec
INVARIANTS TypeOK NoLeakedChild Supervised CleanOwnership CleanSignals WaitsForKilled
PROPERTIES HandlersSurvive ImplementsSupervisor StopReturns Revived
CHECK_DEADLOCK FALSE
