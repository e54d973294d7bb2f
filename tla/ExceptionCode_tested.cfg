CONSTANTS
  E1 = E1
  E2 = E2
  E3 = E3
  E4 = E4
  Null = Null
  Other = Other
  Exceptions = {E1, E2, E3, E4}
  Methods <- Tested
SPECIFICATION Spec
INVARIANTS SameInstruction HandlerSeesException
PROPERTY NoFinallySkipped
