CONSTANTS
  MaxZoom = 1
  Unit = 2
  MaxSimultaneousConnections = 2
  Capacity = 1
  Documents <- Answers
  Loads <- Scroll
  MaxLoads = 3
SPECIFICATION Spec
INVARIANTS
  ConnectionLimit
  NoTileTwice
  NothingForgotten
  NoIdleSlot
  LoadedIsHandedOver
CHECK_DEADLOCK FALSE
