SPECIFICATION Spec
CONSTANTS
  BatchNs = {2, 3, 4, 8, 16}
  BatchCap = 16
  BatchMax = 24
  GemmCovers = FALSE
  MaxTotal = 60
INVARIANTS
  PlanCovers
  PlanIsBest
  LargerFirst
