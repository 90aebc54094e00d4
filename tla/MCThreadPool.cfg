SPECIFICATION FairSpec
CONSTANTS
  io = io
  mux = mux
  write = write
  setup = setup
  Long <- MCLong
  Short <- MCShort
  Children <- MCChildren
  Available = 2
  MaxWorkers = 4
INVARIANTS
  PoolInvariant
  SleepOnlyWhenIdle
PROPERTIES
  UnitsStart
  StopCompletesUnlessRaced
CHECK_DEADLOCK FALSE
