CONSTANTS
  WorldSide = 128
  MinTileZoom = 1
  MaxTileZoom = 3
  TileDepth = 0
  MaxSpan = 4
  TilePixels = 4
  MinMpp = 2
  MaxMpp = 18
  FirstScreen <- First
  Steps <- Pans
  Factors = {2, 4, 8, 16}
  Pivots <- Corner
  Cached <- MiddleTiles
  Centers <- BeyondTheEnd
  Frames <- Sizes
  NotLoadedStates = {"proxy"}
  MaxGestures = 3
  Overscroll = 0
SPECIFICATION Spec
INVARIANTS
  TiledAfterSetZoom
CHECK_DEADLOCK FALSE
