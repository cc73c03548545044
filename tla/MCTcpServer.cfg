SPECIFICATION FairSpec
CONSTANTS
  Conn <- Peers
  MAX_CLIENTS = 2
  QueueSize = 1
  MaxReplace = 1
  None <- NoOne
INVARIANTS
  TableMatchesSockets
  RecvDoesNotBlock
  MisdeliveryNeedsClose
PROPERTIES
  PendingAnswered
  FirstSlotReleased
CHECK_DEADLOCK FALSE
