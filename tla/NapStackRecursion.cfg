SPECIFICATION Spec
CONSTANTS
  Blocks = {"main", "cf", "ch", "f", "for", "body", "if", "cz", "h", "ifh"}
  MainBlock = "main"
  Kind <- KindOf
  Father <- RecFatherOf
  Callee <- RecCalleeOf
  Vars = {"g", "x", "i", "y", "z", "w", "u"}
  NoVar = "novar"
  ScopeOf <- Scope
  ReturnVar <- NoArrays
  Target <- NoArrays
  MaxArgs = 1
  StackSize = 20
INVARIANTS
  DefinedHasInstantiation
CHECK_DEADLOCK FALSE
