SPECIFICATION Spec
CONSTANTS
  Files <- MapFiles
  Tiles <- WorldTiles
  FinestZoom = 4
  MaximumBufferSize = 7
  PointerMax = 63
  LongMaxima = {15, 127}
INVARIANTS PoiTagsAreOwn
CHECK_DEADLOCK FALSE
