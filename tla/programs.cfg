SPECIFICATION AllSpec
CONSTANTS
  Client = {c1, c2}
  Device <- TwoTerminals
  TxFails = FALSE
  MaxV = 1
  Proc = {p1, p2}
  Supported = {p1}
  User = {p1}
  Call <- AllKinds
  MaxPc = 2
  Address <- Edges
  Length = {0, 1, 3, 129}
  Frames = 2
  MaxLine = 4
CHECK_DEADLOCK FALSE
INVARIANTS
  WaiterMatches
  OwnResult
  ServicesStayInside
PROPERTIES
  DoIOReturns
  Resumes
  TrapsEnd
  AccessEnds
