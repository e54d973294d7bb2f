CONSTANTS
  Methods <- MCMethods
  Types <- MCTypes
  DeclType <- MCDeclType
  IsVirtual <- MCVirtual
  IsStatic <- MCStatic
  Cctor <- MCCctor
  Declared <- MCDeclared
  Finalizer <- MCFinalizer
  Bases <- MCBases
  Derived <- MCDerived
  BoxedType <- MCBoxedType
  Replace <- MCReplace
  Impl <- MCImpl
  NoMethod = "none"
  StringType = "string"
  Entry = "main"
  Programs <- AllPrograms
SPECIFICATION Spec
CHECK_DEADLOCK FALSE
INVARIANTS NothingMissing CallsBound NothingUnneeded FinalizersRight
PROPERTY Ends
