\* A claim the code does not keep.
CONSTANTS
  t1 = t1  t2 = t2  n1 = n1  n2 = n2
  NoTask = NoTask
  Tasks = {t1, t2}
  Pids <- ThreePids
  MaxForeign = 0
  JunkStatus = {"U"}
  JunkPids <- JunkNone
  MaxForkFails = 1
  Config <- TwoTasks
  Names = {n1, n2}
  NameOf <- TwoNames
SPECIFICATION Spec
INVARIANT OnlyOwnProcess
CHECK_DEADLOCK FALSE
