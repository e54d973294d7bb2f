SPECIFICATION Spec
CONSTANTS
  SignedMax = 15
  Narrow = {1, 3, 7, 127}
  Sources = {7, 127}
  Mantissas = {3, 6}
  Halves = 600
  Word = 2
  ItemSets <- Variables
  Segments <- DataSegments
INVARIANTS
  SumExact
  MulExact
  ConvIntExact
  ConvRealExact
  RangesRight
  WordsScanned
\* a behaviour is one call
CHECK_DEADLOCK FALSE
