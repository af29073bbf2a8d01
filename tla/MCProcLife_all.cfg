SPECIFICATION FairLifeSpec
CONSTANTS
  ANY = ANY
  INTERRUPT = INTERRUPT
  NO_TASK = NO_TASK
  HARD_INT = HARD_INT
  NoType = NoType
  FS = 3
  MM = 4
  INIT_PID = 5
  KillFloor = 12
  IntTask <- MCNoTask
  Proc <- MCProc
  Slot <- MCSlot
  Calls <- MCCommands
  BuddyRounds = 3
  Type <- MCType
  BUDDY_SIZE = 16
  Sizes <- MCSizes
INVARIANTS
  NoPanic
  CallerAccounted
  AnswersMatched
  TreeBelowInit
  BlocksDisjoint
PROPERTIES
  CallsReturn
CONSTRAINT
  MCUntilAstray
CHECK_DEADLOCK FALSE
