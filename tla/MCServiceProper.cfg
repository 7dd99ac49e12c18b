CONSTANTS
  Clients <- MCClients
  Uses <- ProperUses
  QueueSize = 3
  MaxStarts = 2
  MaxEvents = 8
  NULL = NULL
SPECIFICATION FairSpec
CHECK_DEADLOCK FALSE
INVARIANTS OneTaskServes NoMisuse NoEventLost TerminationCleansUp
PROPERTIES EventsHandled OverflowReboots StopKills
