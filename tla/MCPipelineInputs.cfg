SPECIFICATION Spec
CONSTANTS
  Source <- EveryInput
  Endpoint = {}
  QueueSize = 2
  MaxPacket = 3
  MaxExecutor = 1
INVARIANTS
  HeapAccounted
PROPERTIES
  CommandsInOrder
CHECK_DEADLOCK FALSE
