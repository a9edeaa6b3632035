CONSTANTS
  NumKeys = 1
  Data = {d1, d2}
  Neg = Neg
  NoRec = NoRec
  MinToMerge = 2
  MaxFiles = 6
  MaxId = 7
  MaxCrashes = 1
  AnyTime = TRUE
SPECIFICATION Spec
INVARIANT KilledMergeLosesNothing
CHECK_DEADLOCK FALSE
