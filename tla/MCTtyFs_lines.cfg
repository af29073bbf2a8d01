SPECIFICATION FairTtySpec
CONSTANTS
  ANY = ANY
  INTERRUPT = INTERRUPT
  NO_TASK = NO_TASK
  HARD_INT = HARD_INT
  NoType = NoType
  FS = FS
  TTY = TTY
  a = a
  b = b
  Proc <- MCProc
  IntTask <- MCIntTask
  Type <- MCType
  NR_CONSOLES = 2
  StdTty <- MCStdTty1
  Typed <- MCTyped
  TtyUser <- MCOne
  FileUser <- MCOther
  MaxCnt = 2
  KB_IN_BYTES = 1
  TTY_IN_BYTES = 1
INVARIANTS
  TtyNoPanic
  ReaderWaits
  EchoIsRead
PROPERTIES
  KeysTaken
  ReadsResume
CHECK_DEADLOCK FALSE
