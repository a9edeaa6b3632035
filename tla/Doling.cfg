SPECIFICATION DolingFairSpec
CONSTANTS
  NumIps = 2
  Url <- MCUrl
  MaxPerIp = 1
  MaxEvents = 2
INVARIANTS DolingTypeOK DoleTableExact SpideredByOne NoIpForgotten
PROPERTIES EveryDueSpidered
CHECK_DEADLOCK FALSE
