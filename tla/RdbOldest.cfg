CONSTANTS
  NumKeys = 1
  d1 = d1
  d2 = d2
  Data = {d1, d2}
  Neg = Neg
  NoRec = NoRec
  MaxNodes = 1
  MaxFiles = 5
  MinToMerge = 2
  MaxId = 7
  WindowAnywhere = FALSE
  BigFiles = FALSE
  ForceInDump = FALSE
SPECIFICATION FairSpec
INVARIANTS TypeOK PutsVisible DeletesHold
PROPERTIES ImplementsKeyStore RoomAgain FilesGetMerged
