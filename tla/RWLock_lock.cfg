SPECIFICATION FairSpec
CONSTANTS
  NoThread = NoThread
  Threads = {t1, t2, t3}
  MaxReads = 2
  MaxDepth = 2
  Mixed = TRUE
INVARIANTS
  MutualExclusion
  IInv
PROPERTIES
  ClaimedWriterEnters
  ImplementsLock
CHECK_DEADLOCK FALSE
