SPECIFICATION HostsSpec
CONSTANTS
  NumDgrams = 6
  ByteBits = 2
  AckWindow = 2
  Strays = FALSE
  ReqDgrams = 2
  RepDgrams = 2
  Window = 1
  MaxRuns = 2
  ServerLast = TRUE
  N = 3
  Slots <- MCSlots
  Twins = {t1, t2}
  MaxRecs = 4
  BufSize = 2
  MaxMcasts = 1
  MaxExits = 2
INVARIANTS HostsTypeOK BitsSound ReplyOfOneCall HandledWhole ReplyFindsHost NothingAfterCallback GroupAllServed AddsKept SentInOrder NewestWins
PROPERTIES ImplementsCall EndedWhenRead HandlerKeepsSlot HandledOnceWhileWaited SlotsComeFree MulticastEnds AllArrive
CHECK_DEADLOCK FALSE
