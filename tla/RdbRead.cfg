CONSTANTS
  NumKeys = 1
  d1 = d1
  d2 = d2
  Data = {d1, d2}
  Neg = Neg
  NoRec = NoRec
  MaxNodes = 1
  MaxFiles = 5
  MinToMerge = 3
  MaxId = 5
  WindowAnywhere = FALSE
  BigFiles = FALSE
  ForceInDump = FALSE
SYMMETRY MCSymmetry
SPECIFICATION ReadSpec
INVARIANTS ReadTypeOK AnswerFresh
