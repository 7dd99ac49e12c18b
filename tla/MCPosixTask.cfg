CONSTANTS
  MAX_TASKS = 2
  MaxThreads = 3
  Addresses = {1, 2, 3}
  Malloc <- MCMalloc
  NULL = NULL
SPECIFICATION FairSpec
CHECK_DEADLOCK FALSE
INVARIANTS TypeOK NoDanglingEntry SelfFound DeletesItself
PROPERTY DeletedEnds
