SPECIFICATION Spec
CONSTANTS
  Producers = {p1}
  Consumers = {c1}
  Messages = {m1, m2}
  Size = 2
  ONE_SEC = 4
  Timeouts <- MCTimeouts
  NULL = NULL
INVARIANT EmptyReceiveWaits
