SPECIFICATION FairEngineSpec
CONSTANTS
  Id = {1, 2, 3, 4}
  NoId = NoId
  c1 = c1
  c2 = c2
  Other = B
  Client = {c1, c2}
  Incoming <- MixedIncoming
  Tick = {1}
  Symbol = {A, B}
  Traded = A
  Submission <- Mixed
  VwapSubmission <- BothSymbols
INVARIANTS
  EngineTypeOK
  MatchingIsScheduled
  CancelledVwapLeavesNothing
  OrdersHaveOwners
  VwapKeepsItsTask
PROPERTIES
  VwapOrdersGoForward
  CrossedGetsMatched
CHECK_DEADLOCK FALSE
