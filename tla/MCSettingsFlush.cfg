SPECIFICATION Spec
CONSTANTS
  w1 = w1
  w2 = w2
  shortPassword = shortPassword
  NoWifiOrExecutor = NoWifiOrExecutor
  None <- MCNone
  NoFile = NoFile
  Torn = Torn
  Setting <- MCSetting
  Default <- MCDefault
  Refused <- MCRefused
  Endpoint = {"httpd"}
  MaxWrite = 1
  MaxFault = 1
INVARIANTS
  WriteErrorReported
CHECK_DEADLOCK FALSE
