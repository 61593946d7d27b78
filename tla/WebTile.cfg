CONSTANTS
  Retries = 2
  MayNotStart = TRUE
  MaxStarted = 4
  Statuses <- AllStatuses
SPECIFICATION FairSpec
INVARIANTS OneAtATime RetrievedOnce OnlyImagesAreLoaded NoSilentFailure
PROPERTIES TileIsRetrieved
CHECK_DEADLOCK FALSE
