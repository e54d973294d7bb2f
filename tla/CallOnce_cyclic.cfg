CONSTANTS
  t1 = t1
  t2 = t2
  t3 = t3
  A = A
  B = B
  C = C
  NoThread = NoThread
  Threads = {t1, t2}
  Classes = {A, B, C}
  Uses <- CyclicUses
  MayFail = {A, C}
SPECIFICATION Spec
SYMMETRY Symm
INVARIANT WaitHasCause
PROPERTY ImplementsOnce
CHECK_DEADLOCK FALSE
