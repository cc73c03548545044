SPECIFICATION FairSpec
CONSTANTS
  Source <- ContendingInputs
  Endpoint = {"httpd"}
  QueueSize = 1
  MaxPacket = 2
  MaxExecutor = 2
INVARIANTS
  SingleOwner
  SingleConsumer
PROPERTIES
  AcceptedTaken
  ChannelSpec
CHECK_DEADLOCK FALSE
