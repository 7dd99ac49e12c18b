SPECIFICATION FairSpec
CONSTANTS
  Producers = {p1, p2}
  Consumers = {c1}
  Messages = {m1, m2}
  Size = 2
  ONE_SEC = 4
  Timeouts <- MCTimeouts
  NULL = NULL
INVARIANT TypeOK
INVARIANT MutexOwned
INVARIANT RingConsistent
INVARIANT NoLostWakeup
PROPERTY ImplementsBoundedQueue
PROPERTY CallsReturn
