SPECIFICATION Spec
CONSTANTS
  Rows = 3
  Cols = 3
  NoData = NoData
  StraightStep = 10
  DiagStep = 14
  MaxResistance = 45
  Huge = 100000
  Calls <- MCCalls
INVARIANTS ScratchRestored SumsExact
CHECK_DEADLOCK FALSE
