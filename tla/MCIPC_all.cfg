SPECIFICATION Spec
CONSTANTS
  tty = tty
  hd = hd
  fs = fs
  mm = mm
  usr = usr
  DEV_READ = DEV_READ
  DEV_WRITE = DEV_WRITE
  ANY = ANY
  INTERRUPT = INTERRUPT
  NO_TASK = NO_TASK
  HARD_INT = HARD_INT
  NoType = NoType
  Proc <- MCFour
  IntTask <- MCOneDriver
  Type <- MCOneType
INVARIANTS
  QueueExact
  EntryConsistent
  NoMissedMatch
  SendersAcyclic
  NoAssertFails
PROPERTIES
  CallsMatched
  ServerServesAll
  ImplementsRendezvous
