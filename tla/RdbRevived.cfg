CONSTANTS
  NumKeys = 1
  d1 = d1
  d2 = d2
  Data = {d1}
  Neg = Neg
  NoRec = NoRec
  MaxNodes = 1
  MaxFiles = 6
  MinToMerge = 3
  MaxId = 7
  WindowAnywhere = TRUE
  BigFiles = FALSE
  ForceInDump = FALSE
SPECIFICATION Spec
INVARIANT DeletesHold
