CONSTANTS
  t1 = t1
  t2 = t2
  t3 = t3
  A = A
  B = B
  C = C
  NoThread = NoThread
  Threads = {t1, t2, t3}
  Classes = {A, B}
  Uses <- ChainUses
  MayFail = {}
SPECIFICATION FairSpec
INVARIANTS InitialisedWhenUsed OneActivation SomeoneRuns
PROPERTY CallsReturn
