SPECIFICATION Spec
CONSTANTS
  Rows = 3
  Cols = 3
  NoData = NoData
  Raw = Raw
  StraightStep = 5
  DiagStep = 7
  Infinity = 1000
  MaxTravelTime = 40
  Calls <- MCCalls
INVARIANTS BorderMarked ShortestPaths NearestTargets
PROPERTY Termination
CHECK_DEADLOCK FALSE
