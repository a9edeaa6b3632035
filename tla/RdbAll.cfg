CONSTANTS
  NumKeys = 2
  d1 = d1
  d2 = d2
  Data = {d1, d2}
  Neg = Neg
  NoRec = NoRec
  MaxNodes = 2
  MaxFiles = 4
  MinToMerge = 2
  MaxId = 3
  WindowAnywhere = TRUE
  BigFiles = TRUE
  ForceInDump = TRUE
SPECIFICATION Spec
INVARIANT QuietReads
CHECK_DEADLOCK FALSE
SYMMETRY MCSymmetry
