CONSTANTS
  MemSize = 5
  NumNodes = 3
  Size <- MCSize
SPECIFICATION Spec
INVARIANT NoNodeLeftBehind
