SPECIFICATION Spec
CONSTANTS
  Rows = 2
  Cols = 3
  NoData = NoData
  StraightStep = 5
  DiagStep = 7
  Calls <- MCCalls
INVARIANTS TypeOK ThrowsOnUnsound FluxExact StationsExact DistancesExact
PROPERTY Termination
CHECK_DEADLOCK FALSE
