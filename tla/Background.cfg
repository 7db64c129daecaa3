SPECIFICATION MCSpec
CONSTANTS
  None = None
  Topics <- TwoTopics
  GroupTopics = {1}
  Messages <- MCMessages
  Permits = 1
  ErrCap = 1
  QueueCap = 1
  Workers = 1
  MaxReadErrors = 1
  MaxNumber = 4
  MaxRewinds = 1
  MaxLaunches = 2
  Limits = {0, 2}
  EmptyBlocks = {2}
  Ancients = {0, 3}
  Threads = 2
  retryTimes = 1
  MaxBlock = 2
  MaxSends = 3
INVARIANTS
  GossipConsistent
  IndexConsistent
PROPERTIES
  StopStops
  
CHECK_DEADLOCK FALSE
