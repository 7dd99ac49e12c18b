CONSTANTS
  CONNECT_MAXIMUM_RETRY = 5
  QueueSize = 2
  MaxPosted = 3
  MaxStops = 0
SPECIFICATION FairSpec
CHECK_DEADLOCK FALSE
PROPERTY KeepsTrying
