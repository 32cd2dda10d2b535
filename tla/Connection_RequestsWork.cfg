\* One request of each kind, of a task that there is.
CONSTANTS
  c1 = c1  c2 = c2  c3 = c3  c4 = c4  known = known
  Calls = {c1, c2, c3, c4}
  RequestOf <- OneOfEach
  MaxId = 3
  JunkIds = {2}
  NoId = NoId
  NoCallback = {}
  KnownPids = {7}
  KnownNames = {known}
  NoName = NoName
  EmptyName = EmptyName
  ListLen = 2
  ReadMax = 3
  Capacity = 3
SPECIFICATION Spec
INVARIANT RequestsWork
CHECK_DEADLOCK FALSE
