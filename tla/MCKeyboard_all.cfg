SPECIFICATION KeyboardSpec
CONSTANTS
  Keys <- MCKeys
  KB_IN_BYTES = 8
  MaxEvents = 4
INVARIANTS
  KeysExact
  ModifiersFollow
  NoEndlessWait
CHECK_DEADLOCK FALSE
