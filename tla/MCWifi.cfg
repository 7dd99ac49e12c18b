CONSTANTS
  CONNECT_MAXIMUM_RETRY = 5
  QueueSize = 2
  MaxPosted = 3
  MaxStops = 2
SPECIFICATION FairSpec
CHECK_DEADLOCK FALSE
INVARIANTS TypeOK MirrorsLink NoRetryOmitted
PROPERTY GotIpStartsConsole
