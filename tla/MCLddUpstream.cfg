SPECIFICATION Spec
CONSTANTS
  Rows = 2
  Cols = 3
  NoData = NoData
  StraightStep = 10
  DiagStep = 14
  MaxDepth = 6
  Calls <- MCCalls
INVARIANTS OverflowsOnLoops SlopeLengthExact CatchmentExact
CHECK_DEADLOCK FALSE
