CONSTANTS
  Clients <- MCClients
  Polite <- MCPolite
  Requests <- MCRequests
  Typed <- MCTyped
  CMD_ARGS_MAX_LENGTH = 2
  ReadSize = 8
  Backlog = 1
  Settings <- MCSettings
  NULL = NULL
SPECIFICATION FairSpec
CHECK_DEADLOCK FALSE
INVARIANTS TypeOK ParsesFields PrintsFit
PROPERTIES ImplementsCommandServer SessionsUndisturbed WaitingServed AskedIsAnswered
