CONSTANTS
  Clients <- MCClients
  Uses <- RestartUses
  QueueSize = 2
  MaxStarts = 2
  MaxEvents = 0
  NULL = NULL
SPECIFICATION Spec
CHECK_DEADLOCK FALSE
INVARIANT RestartSurvives
