SPECIFICATION Spec
CONSTANTS
  s1 = s1
  s2 = s2
  a1 = a1
  a2 = a2
  Sources = {s1, s2}
  Addresses = {a1, a2}
  Tiles <- TwoTiles
  MemoryCapacity = 2
  RowCapacity = 0
  MinimalPurge = 1
  LeastRecentlyUsed = FALSE
  MaxTime = 4
SYMMETRY Symmetry
INVARIANT RowsAreOwn
CHECK_DEADLOCK FALSE
