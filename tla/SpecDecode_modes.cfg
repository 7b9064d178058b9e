SPECIFICATION FairSpec
CONSTANTS
  Token = {0, 1, 2}
  Eog = {2}
  EogDrafts = {"serial"}
  Model <- MCModel
  Greedy <- MCGreedy
  Prompt <- MCPrompt
  Mode = {"plain", "score", "serial", "batched"}
  DraftLen = {1, 2, 3, 5}
  NPredict = {0, 4, 9}
  Ctx = 7
  GovEpoch = 2
  GovCool = 1
  GovNum = 3
  GovDen = 5
  Stale = Stale
INVARIANTS
  TypeOK
  DecodeInv
  TrunkInStep
  HeadInStep
  RoundFits
  CommittedIsGreedy
  GovernorSane
  EogNeverStreamed
PROPERTIES
  IsPlainGreedy
  Terminates
