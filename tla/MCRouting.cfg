SPECIFICATION FairRoutingSpec
CONSTANTS
  t1 = t1
  t2 = t2
  Threads = {t1, t2}
  ActorEntries <- MCActors
  ChannelEntries <- MCChannels
  MaxMessages = 2
INVARIANTS
  WiringInvariant
  PassedAsRead
PROPERTIES
  EmissionsEnd
CHECK_DEADLOCK FALSE
