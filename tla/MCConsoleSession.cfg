SPECIFICATION FairSession
CONSTANTS
  w1 = w1
  w2 = w2
  Io = {w1, w2}
  MaxLines = 2
  Chunks <- MCChunks
  MaxChunks = 1
  Spare = 1
  MaxHandlers = 5
INVARIANTS
  NoMissedWakeup
  LateUseNeedsSharedFlag
  CommandLines
PROPERTIES
  CommandsEndProgram
CHECK_DEADLOCK FALSE
