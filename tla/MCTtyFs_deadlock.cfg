SPECIFICATION TtySpec
CONSTANTS
  ANY = ANY
  INTERRUPT = INTERRUPT
  NO_TASK = NO_TASK
  HARD_INT = HARD_INT
  NoType = NoType
  FS = FS
  TTY = TTY
  a = a
  b = b
  Proc <- MCProc
  IntTask <- MCIntTask
  Type <- MCType
  NR_CONSOLES = 2
  StdTty <- MCStdTty
  Typed <- MCTyped
  TtyUser <- MCBoth
  FileUser <- MCNone
  MaxCnt = 2
  KB_IN_BYTES = 1
  TTY_IN_BYTES = 1
INVARIANTS
  NoSystemDeadlock
CHECK_DEADLOCK FALSE
