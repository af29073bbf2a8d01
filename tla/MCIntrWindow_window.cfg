SPECIFICATION WindowSpec
CONSTANTS
  hd = hd
  fs = fs
  mm = mm
  DEV_READ = DEV_READ
  ANY = ANY
  INTERRUPT = INTERRUPT
  NO_TASK = NO_TASK
  HARD_INT = HARD_INT
  NoType = NoType
  Proc <- MCThree
  IntTask <- MCOneDriver
  Type <- MCOneType
INVARIANTS
  BlocksUnmarked
