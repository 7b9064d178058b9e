SPECIFICATION Spec
CONSTANTS
  Token <- MCToken
  Eog <- MCEog
  Piece <- MCPiece
  Request <- MCRequest
  Ctx = 5
  LeftBehind <- MCLeftBehind
INVARIANTS
  TypeOK
  GenInv
  FreshRow
  NeverRetracted
  NoStopSent
  WholeCharacters
  FinishReason
  TokensFit
  Prompt
