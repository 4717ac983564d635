SPECIFICATION Spec
CONSTANTS
  Threads = {p1}
  Strings = {s1, s2}
  Null = Null
  Junk = Junk
  InitCap = 2
  MaxIdx = 4
  MaxCap = 4
  MaxRefs = 1
  Modulus = 16
SYMMETRY Symmetry
INVARIANTS
  StorageInvariant
  WalksSeeTheList
PROPERTIES
  ImplementsList
