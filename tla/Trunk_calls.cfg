SPECIFICATION Spec
CONSTANTS
  BatchNs = {2}
  BatchCap = 2
  BatchMax = 2
  GemmCovers = FALSE
  MaxTotal = 4
  Id <- MCId
  Vocab <- MCVocab
  Layers = 2
  Recurrent = {1}
  MaxCtx = 3
  BatchOps = TRUE
  SplitMin = 3
  MaxSplits = 2
  Forced = 0
  Dense = 2
  Failing = TRUE
  Stale = Stale
  Inputs <- MCInputs
INVARIANTS
  TypeOK
  TrunkInv
  InStep
  FreshAnswer
PROPERTIES
  RowsBelowKept
