\* Three requests, reads that cut and join messages, a ring buffer of three pieces;
\* safety and liveness.
CONSTANTS
  c1 = c1  c2 = c2  c3 = c3  c4 = c4  known = known
  Calls = {c1, c2, c3}
  RequestOf <- Mixed
  MaxId = 3
  JunkIds = {2}
  NoId = NoId
  NoCallback = {c1}
  KnownPids = {7}
  KnownNames = {known}
  NoName = NoName
  EmptyName = EmptyName
  ListLen = 2
  ReadMax = 3
  Capacity = 3
SPECIFICATION FairSpec
INVARIANTS TypeOK TimersOfTable CallbackOnce OwnAnswer InStep
PROPERTIES QuietAfterDestroy ImplementsRpc TableDrains TaskCallsEnd
CHECK_DEADLOCK FALSE
