SPECIFICATION Spec
CONSTANTS
  Token = {0, 1, 2}
  Eog = {2}
  EogDrafts = {"batched"}
  Model <- MCModel
  Greedy <- MCGreedy
  Prompt <- MCPrompt
  Mode = {"batched"}
  DraftLen = {2, 5}
  NPredict = {0, 4, 9}
  Ctx = 7
  GovEpoch = 2
  GovCool = 1
  GovNum = 3
  GovDen = 5
  Stale = Stale
INVARIANTS
  EogNeverStreamed
