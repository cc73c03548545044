SPECIFICATION Spec
CONSTANTS
  Digits <- Ends
  Extensions <- Moves
  Positions <- HandyPositions
  Setups <- Servos
  Garbage <- StackWords
  TransQueueDepth = 1
  MinDuration = 3
  MaxTime = 4
  MaxCommand = 2
INVARIANTS
  PositionWithinCommands
  PulseInRange
  HandyHeard
PROPERTIES
  NoJump
CHECK_DEADLOCK FALSE
