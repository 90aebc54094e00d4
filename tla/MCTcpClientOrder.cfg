SPECIFICATION Spec
CONSTANTS
  m1 = m1
  m2 = m2
  m3 = m3
  Msg <- MCMsg
  Size <- MCSize
  MaxSend = 3
INVARIANT MessagesInOrder
CHECK_DEADLOCK FALSE
