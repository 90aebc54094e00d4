SPECIFICATION FairReaderSpec
CONSTANTS
  Protocols = {"oscar", "etf", "stream", "telnet"}
  InBuffer <- MCInBuffer
  SizeT = 1000
  Packets = 2
  Bodies = {0, 1, 2}
INVARIANTS
  FramingInvariant
PROPERTIES
  SentIsPassed
CHECK_DEADLOCK FALSE
