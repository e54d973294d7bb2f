CONSTANTS
  m1 = m1
  m2 = m2
  o1 = o1
  o2 = o2
  Mutators = {m1, m2}
  Main = m1
  Objects = {o1, o2}
SPECIFICATION FairSpec
INVARIANT NoneOverlooked
PROPERTIES QueuedIsFinalized ExitFromSleep
