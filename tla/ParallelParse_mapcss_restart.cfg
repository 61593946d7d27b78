CONSTANTS
  MaxLength = 3
  MaxProduced = 9
  NotFound = 99
  open = open
  close = close
  key = key
  semi = semi
  space = space
  Malformed = Malformed
  EOF = EOF
  Error = Error
  Nil = Nil
  NoAction = NoAction
  Token <- MCToken
  Inputs <- MCInputs
  ErrorOffsets <- OSPMapCSSOffsets
  MayReject = FALSE
  Replacement <- MCReplacement
  PushesArrays = TRUE
  FinishToken = Nil
  StateNum = {0, 1, 2, 3, 4, 5, 6, 7, 8}
  ActionTable <- BlockActions
  GotoTable <- BlockGotos
  Rule <- MCRule
  Object <- BlockObjects
  Result <- BlockResult
  Recovery <- OSPMapCSSRecovery
SPECIFICATION Spec
PROPERTIES ErrorsAreSkipped
CHECK_DEADLOCK FALSE
