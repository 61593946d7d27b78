CONSTANTS
  MaxLength = 3
  MaxProduced = 9
  NotFound = 99
  open = open
  close = close
  key = key
  semi = semi
  space = space
  Malformed = Malformed
  EOF = EOF
  Error = Error
  Nil = Nil
  NoAction = NoAction
  Token <- MCToken
  Inputs <- OpenTexts
  ErrorOffsets <- SkippingOffsets
  MayReject = TRUE
  Replacement <- ErrorsDropped
  PushesArrays = TRUE
  FinishToken = semi
  StateNum = {0, 1, 2, 3, 4, 5, 6, 7, 8}
  ActionTable <- BlockActions
  GotoTable <- BlockGotos
  Rule <- MCRule
  Object <- BlockObjects
  Result <- BlockResult
  Recovery <- AnyRecovery
SPECIFICATION FairSpec
INVARIANTS TypeOK Fifo ConditionMatchesContents PeekedTokenStays EndIsFinal
PROPERTIES StreamIsClosed
CHECK_DEADLOCK FALSE
