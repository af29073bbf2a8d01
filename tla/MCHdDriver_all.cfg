SPECIFICATION FairHdSpec
CONSTANTS
  ANY = ANY
  INTERRUPT = INTERRUPT
  NO_TASK = NO_TASK
  HARD_INT = HARD_INT
  NoType = NoType
  FS = FS
  HD = HD
  SYS = SYS
  x = x
  y = y
  Proc <- MCProc
  IntTask <- MCIntTask
  Type <- MCType
  Value <- MCValue
  Buffer <- MCBuffer
  COUNTS = 2
  MaxCnt = 3
  NrTables = 2
  NrSects = 3
  HD_TIMEOUT = 5
  MILLI = 3
  HZ = 1
  WORD = 16
  MAX_TICKS = 4
INVARIANTS
  HdQuiet
PROPERTIES
  TransferExact
  RequestsAnswered
CHECK_DEADLOCK FALSE
