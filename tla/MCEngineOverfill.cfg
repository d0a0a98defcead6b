SPECIFICATION EngineSpec
CONSTANTS
  Id = {1, 2, 3, 4}
  NoId = NoId
  c1 = c1
  c2 = c2
  Other = B
  Client = {c1, c2}
  Incoming <- TwoPiecesIncoming
  Tick = {1}
  Symbol = {A}
  Traded = A
  Submission <- TwoPieces
  VwapSubmission <- BuyTwo
INVARIANTS
  VwapNotOverfilled
CHECK_DEADLOCK FALSE
