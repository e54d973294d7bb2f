SPECIFICATION GeneratorSpec
CONSTANTS
  MaxDepth = 3
  Declarations <- MCDeclarations
  InterfaceSlots <- MCSlots
  Graphs <- MCGraphs
INVARIANTS QueriesEnd MostDerived InterfaceBound DeclaredFirst
\* a behaviour is one chain or one merge
CHECK_DEADLOCK FALSE
