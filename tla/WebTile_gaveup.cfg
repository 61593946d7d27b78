CONSTANTS
  Retries = 1
  MayNotStart = FALSE
  MaxStarted = 6
  Statuses <- AllStatuses
SPECIFICATION Spec
PROPERTIES NoMoreRetries
CHECK_DEADLOCK FALSE
