CONSTANTS
  MaxZoom = 2
  Unit = 1
  Overspills = {1, 2}
  Questions <- AllRects
  Holes <- TwoHoles
  AddedTiles <- MCAddedTiles
SPECIFICATION Spec
INVARIANTS
  TilesCover
  RestIsDifference
  TreeIsReduced
  AnswersAsTheSet
PROPERTY ImplementsCover
CHECK_DEADLOCK FALSE
