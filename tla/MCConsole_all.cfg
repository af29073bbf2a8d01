SPECIFICATION FairConsoleSpec
CONSTANTS
  NR_CONSOLES = 2
  SCR_WIDTH = 2
  SCR_ROWS = 3
  CON_ROWS = 7
  Used <- MCUsed
  Gap = 0
  MaxLine = 4
INVARIANTS
  NoConAssert
  MonitorFollows
  ViewInOrder
PROPERTIES
  OutCharEnds
CHECK_DEADLOCK FALSE
