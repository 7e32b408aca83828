SPECIFICATION Spec
CONSTANTS
  Rows = 2
  Cols = 2
  Threads = {main, worker}
  Main = main
  Nobody = nobody
  Python = FALSE
  Ldds <- MCLdds
INVARIANTS TypeOK VerdictsExact ReportsExact
PROPERTY Termination
CHECK_DEADLOCK FALSE
