CONSTANTS
  NumKeys = 2
  Data = {d1, d2}
  Neg = Neg
  NoRec = NoRec
  MinToMerge = 3
  MaxFiles = 5
  MaxId = 5
  MaxCrashes = 2
  AnyTime = FALSE
  LastKey = 2
  Payload = {d1}
  NegRec = NegRec
  None = None
  DiskFails = FALSE
SPECIFICATION RestartSpec
INVARIANTS RestartTypeOK ReadsSurvive RestartKeepsSaved
PROPERTIES KilledMergeEnds WritesComeBack
CHECK_DEADLOCK FALSE
