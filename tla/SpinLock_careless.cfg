CONSTANTS
  t1 = t1
  t2 = t2
  a = a
  b = b
  NoLock = NoLock
  Threads = {t1, t2}
  Locks = {a, b}
  Careless = {t2}
  MaxEntered = 3
SPECIFICATION FairSpec
INVARIANT Excludes
PROPERTIES NeverReentered GoesIn
CHECK_DEADLOCK FALSE
