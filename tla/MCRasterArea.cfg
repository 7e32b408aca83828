SPECIFICATION AreaSpec
CONSTANTS
    Null = Null
    Unset = Unset
    Images <- MCImages
    Rows = 3
    Cols = 4
    Calls <- MCCalls
INVARIANTS InsideWindow VisitsExactly FiltersExact
PROPERTIES Terminates
CHECK_DEADLOCK FALSE
