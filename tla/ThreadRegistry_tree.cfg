SPECIFICATION FairSpec
CHECK_DEADLOCK FALSE
CONSTANTS
  Root = Root
  Threads = {t1, t2, t3}
  Nesting = "free"
  MaxExecs = 2
  MaxFails = 1
INVARIANTS
  RegistryInvariant
  NothingFreedUnderThreads
PROPERTIES
  FlatExecFinishes
