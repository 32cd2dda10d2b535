\* Two tasks and up to three other clients; junk pointers.
CONSTANTS
  t1 = t1  t2 = t2  o1 = o1  o2 = o2  o3 = o3  o4 = o4
  Fds <- SmallFds
  MaxFails = 1
  Tasks = {t1, t2}
  Objs = {o1, o2, o3, o4}
  NoObj = NoObj
  Junk = {"null", "junk"}
  MaxClients = 3
SPECIFICATION Spec
SYMMETRY Symmetry
INVARIANTS OneListener OwnersExact
CHECK_DEADLOCK FALSE
