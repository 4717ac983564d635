SPECIFICATION MemSpec
CONSTANTS
  Threads = {}
  Objects = {b1, b2, b3, b4}
  Invalid = Invalid
  InitCap = 2
  MaxCap = 4
  GrowUnderGet = TRUE
SYMMETRY Symmetry
INVARIANTS
  TableInvariant
  RegistryMatchesHandles
  ReachableSurvives
PROPERTIES
  SweepIsComplete
  ImplementsHandleMap
