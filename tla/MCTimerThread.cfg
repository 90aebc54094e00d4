SPECIFICATION TimerFairSpec
CONSTANTS
  clock = clock
  once = once
  Job <- MCJob
  Delay <- MCDelay
  Period <- MCPeriod
  Repeats <- MCRepeats
  MaxTime = 4
INVARIANTS
  AgendaInvariant
PROPERTIES
  ThreadAnswers
CHECK_DEADLOCK FALSE
