SPECIFICATION FairSpec
CONSTANTS
  MaxExecutor = 2
  EventQueueSize = 1
INVARIANTS
  OneTicker
  SharedSetForCurrent
PROPERTIES
  DrivenAgain
  ReplacementEnds
  LoopGoesOn
CHECK_DEADLOCK FALSE
