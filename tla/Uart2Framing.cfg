SPECIFICATION Uart2Spec
CONSTANTS
  UART2_BUF_SIZE = 4
  MaxInput = 7
INVARIANT
  FramingIgnoresReads
CHECK_DEADLOCK FALSE
