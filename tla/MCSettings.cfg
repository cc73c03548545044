SPECIFICATION FairSpec
CONSTANTS
  w1 = w1
  w2 = w2
  shortPassword = shortPassword
  NoWifiOrExecutor = NoWifiOrExecutor
  None <- MCNone
  NoFile = NoFile
  Torn = Torn
  Setting <- MCSetting
  Default <- MCDefault
  Refused <- MCRefused
  Endpoint = {"httpd", "nimble"}
  MaxWrite = 3
  MaxFault = 2
INVARIANTS
  Applied
  DamageNeedsFault
PROPERTIES
  BootsUnlessUnbootable
CHECK_DEADLOCK FALSE
