CONSTANTS
  MaxZoom = 4
  Unit = 1
  Objects = {"home", "neighbour", "middle", "pole", "way"}
  BoundsOf <- MCBounds
  ExpandLimit = 2
  Adders = {1}
  SearchAreas <- MCAreas
SPECIFICATION Spec
INVARIANTS
  OnePlace
  LeafWithinLimit
  SearchMissesOnlyMoved
CHECK_DEADLOCK FALSE
