CONSTANTS
  Clients <- MCClients
  Uses <- AnyUses
  QueueSize = 2
  MaxStarts = 2
  MaxEvents = 3
  NULL = NULL
SPECIFICATION Spec
CHECK_DEADLOCK FALSE
INVARIANTS TypeOK NoEventTwice
