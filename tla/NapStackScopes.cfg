SPECIFICATION Spec
CONSTANTS
  Blocks = {"main", "cf", "ch", "f", "for", "body", "if", "cz", "h", "ifh"}
  MainBlock = "main"
  Kind <- KindOf
  Father <- FatherOf
  Callee <- CalleeOf
  Vars = {"g", "x", "i", "y", "z", "w", "u"}
  NoVar = "novar"
  ScopeOf <- Scope
  ReturnVar <- Returns
  Target <- Targets
  MaxArgs = 1
  StackSize = 20
INVARIANTS
  MarkersInPlace
  DefinedHasInstantiation
  ReturnedArrayFound
PROPERTIES
  RollbackIsExact
  LexicalScoping
