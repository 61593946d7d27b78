CONSTANTS
  MaxLength = 2
  MaxProduced = 9
  NotFound = 99
  open = open
  close = close
  key = key
  semi = semi
  space = space
  Malformed = Malformed
  EOF = EOF
  Error = Error
  Nil = Nil
  NoAction = NoAction
  Token <- MCToken
  Inputs <- BlockTexts
  ErrorOffsets <- NoOffsets
  MayReject = FALSE
  Replacement <- MCReplacement
  PushesArrays = FALSE
  FinishToken = Nil
  StateNum = {0, 1, 2, 3, 4, 5, 6, 7, 8}
  ActionTable <- BlockActions
  GotoTable <- BlockGotos
  Rule <- MCRule
  Object <- BlockObjects
  Result <- BlockResult
  Recovery <- DefaultRecovery
SPECIFICATION Spec
INVARIANTS PeekNeverBlocks
CHECK_DEADLOCK FALSE
