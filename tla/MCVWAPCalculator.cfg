SPECIFICATION Spec
CONSTANTS
  OrderId = {o1, o2}
  Submission <- OneEach
  Moment <- HalfSeconds
  Second = 2
  TradePrice <- Prices
  TradeVolume = {1200}
  MaxVolume = 3600
  Contribution = {2}
SYMMETRY Symmetry
INVARIANTS
  TypeOK
  
  LastTurnAsksAll
  TurnsAreDue
  RollingIsConsistent
PROPERTIES
  ChildrenAreSpaced
CHECK_DEADLOCK FALSE
