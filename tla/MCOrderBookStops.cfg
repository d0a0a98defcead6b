SPECIFICATION Spec
CONSTANTS
  Id = {i1, i2, i3, i4}
  NoId = NoId
  NoLimit = NoLimit
  c1 = c1
  c2 = c2
  Client = {c1, c2}
  Incoming <- StopsOfTwo
  Tick = {1}
SYMMETRY IdSymmetry
INVARIANTS
  TypeOK
  BookWellFormed
  StopsAreDormant
  TrailingAligned
PROPERTIES
  ImplementsExchange
  ClosedOrdersStay
  TrailingTightens
  PassSkipsNoStop
  IterationsConsume
