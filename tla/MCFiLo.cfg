SPECIFICATION RingSpec
CONSTANTS
  NumRows = 2
  NumCols = 2
  a = a
  b = b
  Blank = Blank
  Elem <- MCElem
INVARIANT RingOK
PROPERTY ImplementsFifo
