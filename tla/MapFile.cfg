SPECIFICATION Spec
CONSTANTS
  Files <- MapFiles
  Tiles <- WorldTiles
  FinestZoom = 4
  MaximumBufferSize = 7
  PointerMax = 63
  LongMaxima = {15, 127}
INVARIANTS OnlyWhatTheTileShows SoundBlocksAreReported BackgroundIsWater
CHECK_DEADLOCK FALSE
