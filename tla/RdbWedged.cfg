CONSTANTS
  NumKeys = 1
  d1 = d1
  d2 = d2
  Data = {d1}
  Neg = Neg
  NoRec = NoRec
  MaxNodes = 1
  MaxFiles = 5
  MinToMerge = 2
  MaxId = 7
  WindowAnywhere = FALSE
  BigFiles = FALSE
  ForceInDump = TRUE
SPECIFICATION FairSpec
PROPERTY FilesGetMerged
CHECK_DEADLOCK FALSE
