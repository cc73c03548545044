SPECIFICATION Spec
CONSTANTS
  Conn <- Peers
  MAX_CLIENTS = 2
  QueueSize = 1
  MaxReplace = 0
  None <- NoOne
INVARIANT
  ReplyReachesAsker
CHECK_DEADLOCK FALSE
