SPECIFICATION Spec
CONSTANTS
    NaN = NaN
    None = None
    Modulus = 4
    FloatMax = 1000000
    MaxCells = 2
    FloatElements <- MCFloatElements
    Numbers <- MCNumbers
VIEW RasterAlone
INVARIANTS
    OperatorsContagious ComparisonsAgree AlgorithmsAgree ZonesExact TotalsConserved
PROPERTIES
    KeepsPromise
CHECK_DEADLOCK FALSE
