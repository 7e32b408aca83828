SPECIFICATION RepairSpec
CONSTANTS
  Rows = 2
  Cols = 3
  Maps <- MCMaps
INVARIANTS SoundFlowsKept FlowsOutRefused
CHECK_DEADLOCK FALSE
