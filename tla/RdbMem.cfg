CONSTANTS
  MemSize = 5
  NumNodes = 3
  Size <- MCSize
SPECIFICATION Spec
INVARIANTS TypeOK NodesOwned NodesDisjoint
PROPERTY MovesOutOfPrimary
