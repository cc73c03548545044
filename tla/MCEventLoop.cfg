SPECIFICATION Spec
CONSTANTS
  Sock = {s1, s2}
  QueueSize = 2
  MaxChange = 2
  MaxReconfigure = 1
SYMMETRY Symmetry
CONSTRAINT Focus
INVARIANTS
  ListMatchesSessions
  ClientsKnowUsb
  LedTellsUsb
  ServedWhenReachable
CHECK_DEADLOCK FALSE
