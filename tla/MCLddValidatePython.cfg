SPECIFICATION Spec
CONSTANTS
  Rows = 2
  Cols = 2
  Threads = {main, worker}
  Main = main
  Nobody = nobody
  Python = TRUE
  Ldds <- MCLdds
PROPERTY Termination
CHECK_DEADLOCK FALSE
