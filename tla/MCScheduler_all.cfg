SPECIFICATION FairSchedSpec
CONSTANTS
  NR = 4
  NrSched = 2
  MM = 0
  IntTask <- MCIntTask
  Spinner <- MCTestA1
  NrTasks = 1
  FirstSlot = 2
  MinPriority = 1
  DefaultPriority = 1
  Priority <- MCTwoPris
  Policy <- MCRRorPri
  MaxTicks = 5
INVARIANTS
  RunsReady
PROPERTIES
  EveryoneRuns
  PriorityServed
