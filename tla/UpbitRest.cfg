SPECIFICATION FairSpec
CONSTANTS
  Procs = {p1, p2, p3}
  Groups = {order}
  MinInterval <- Intervals
  RetryCount = 1
  RetryDelay = 1
  Nobody = nobody
  MaxNow = 5
  MaxReboots = 1
INVARIANTS
  TypeOK
  SleepBounded
PROPERTIES
  IntervalKept
  LockReleased
