SPECIFICATION Spec
CONSTANTS
  Id = {i1, i2, i3, i4}
  NoId = NoId
  NoLimit = NoLimit
  c1 = c1
  c2 = c2
  Client = {c1, c2}
  Incoming <- LimitAndMarketOrders
  Tick = {1}
SYMMETRY Symmetry
INVARIANTS
  FillsAreRecorded
  SharesBalance
PROPERTIES
  PriceTimePriority
  NoneVanishes
