SPECIFICATION FairSpec
CONSTANTS
  MaxExecutor = 2
  Motors = 1
  MaxFrames <- FewFrames
INVARIANTS
  LocksHeld
  NoStrayTask
  FramesCounted
PROPERTIES
  CanExchangeEnds
  InstalledDrives
  FeedbackStored
CHECK_DEADLOCK FALSE
