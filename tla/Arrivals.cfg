SPECIFICATION ArrivalSpec
CONSTANTS
  Arriving <- MCArriving
  Kind <- MCKind
  Distances = {4, 9, 18}
  Join = 8
  FreezeAt = 5
  RunwayBuffer = 1
  Ladder <- MCLadder
  MaxShift = 2
  MaxIterations = 4
INVARIANT SlotsAreSeparated
INVARIANT SearchKeepsItsPromises
INVARIANT PriorityIsMeasured
CHECK_DEADLOCK FALSE
