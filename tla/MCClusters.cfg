SPECIFICATION Spec
CONSTANTS
  Rows = 3
  Cols = 3
  NoData = NoData
  Unset = Unset
  Rasters <- MCRasters
  ValueToSum <- MCValueToSum
INVARIANTS TypeOK NoOverflow AdjacentAlike ResultsExact
PROPERTY Termination
CHECK_DEADLOCK FALSE
