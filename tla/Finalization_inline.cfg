CONSTANTS
  t1 = t1
  t2 = t2
  Threads = {t1, t2}
  N = 4
  HasFinalizer = {1, 2, 3}
  CanRefer <- Fields
SPECIFICATION FairSpec
INVARIANTS HeldIsKept DanglingBehindFinalizer
PROPERTIES LivesOnce QueuedIsRun
