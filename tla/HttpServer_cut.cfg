SPECIFICATION Spec
CONSTANTS
  Request <- MCRequest
  HasPipe = TRUE
  MaxConn = 2
  MaxSignal = 2
  MaxTokens = 2
INVARIANTS
  NothingAfterCut
