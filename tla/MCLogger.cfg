SPECIFICATION FairSpec
CONSTANTS
  client = client
  local = local
  console = console
  store = store
  diary = diary
  m1 = m1
  m2 = m2
  Thread <- MCThread
  Cases <- MCCases
  Sink <- MCSink
  Channel <- MCChannel
  Consoles <- MCConsoles
  OnDemand <- MCOnDemand
  File = {"A", "B"}
  Muxer = {m1, m2}
  DelayMs = 1
  Second = 2
  MaxTime = 1
INVARIANTS
  LoggerInvariant
  InOrderUnlessLate
  OneWriterUnlessOverlap
  OwnFileUnlessClosed
PROPERTIES
  StopHandsOver
CHECK_DEADLOCK FALSE
