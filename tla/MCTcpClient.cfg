SPECIFICATION FairSpec
CONSTANTS
  m1 = m1
  m2 = m2
  m3 = m3
  Msg <- MCMsg
  Size <- MCSize
  MaxSend = 4
INVARIANTS
  TypeOK
  SingleWrite
  FramesIntact
  FifoWhileShallow
PROPERTIES
  ImplementsStream
  EventuallyDrained
CHECK_DEADLOCK FALSE
