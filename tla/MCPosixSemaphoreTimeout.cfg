CONSTANTS
  Takers = {t1}
  Givers = {g1}
  ONE_SEC = 3
  Timeouts <- MCTimeouts
  MaxClock = 5
  NULL = NULL
SPECIFICATION Spec
CHECK_DEADLOCK FALSE
PROPERTY TimeoutIsWaited
