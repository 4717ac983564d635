SPECIFICATION WalkSpec
CONSTANTS
  k1 = k1
  k2 = k2
  k3 = k3
  Keys = {k1, k2, k3}
  Values = {v1}
  StaticKeys = {k3}
  Hash <- Hashes
  InitCap = 2
  MaxCap = 8
  MaxSeen = 2
  Empty = Empty
  Tombstone = Tombstone
  NoValue = NoValue
  None = None
  Freed = Freed
INVARIANTS
  TableInvariant
  UndisturbedWalkIsComplete
PROPERTIES
  ImplementsOrderedMap
