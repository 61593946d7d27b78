SPECIFICATION Spec
CONSTANTS
  s1 = s1
  s2 = s2
  a1 = a1
  a2 = a2
  a3 = a3
  Sources = {s1, s2}
  Addresses = {a1, a2, a3}
  Tiles <- ThreeTiles
  MemoryCapacity = 2
  RowCapacity = 2
  MinimalPurge = 1
  LeastRecentlyUsed = TRUE
  MaxTime = 3
SYMMETRY Symmetry
INVARIANTS WithinCapacity NoCancelledImageCached
PROPERTIES LoadedIsStored
CHECK_DEADLOCK FALSE
