\* Two descriptors, six queued events, any number of closes and failures; random
\* numbers of five bits.
CONSTANTS
  Fds <- SmallFds
  SigPipe = {"dies", "ignored"}
  MaxUnread = 3
  MaxEvents = 6
  RAND_MAX = 31
SPECIFICATION FairSpec
INVARIANTS OneConnection NeverAbandoned
 
CHECK_DEADLOCK FALSE
