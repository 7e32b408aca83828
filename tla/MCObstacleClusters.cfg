SPECIFICATION ObstacleSpec
CONSTANTS
  Rows = 3
  Cols = 3
  NoData = NoData
  Unset = Unset
  Calls <- MCCalls
INVARIANTS ClustersExact ObstacleCellsJoin
CHECK_DEADLOCK FALSE
