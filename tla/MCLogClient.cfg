SPECIFICATION FairSpec
CONSTANTS
  Pushers = {"p1", "p2"}
  MaxPush = 2
  Retry = 2
  Big <- MCBig
  MayFail = TRUE
INVARIANTS
  TypeOK
  OneWriteAtATime
  NotForgotten
PROPERTIES
  ImplementsQueue
  StopReturns
CHECK_DEADLOCK FALSE
