SPECIFICATION Spec
CONSTANTS
  Procs = {"main", "f", "g"}
  Main = "main"
  AsmProcs <- OnlyG
  Sites = {"m", "a", "b", "c"}
  Caller <- MCCaller
  Callee <- MCCallee
  AsmOps = {"popall", "leave"}
  RegKinds = {"byte", "real"}
  Values = {0, 1}
  MaxSp = 0
  DeepestRecursion = 3
  CfMod = 16
  Garbage <- MCGarbage
INVARIANTS
  IndicesInBounds
  ReturnAddressesIntact
PROPERTIES
  CallsReturnTransparently
CHECK_DEADLOCK FALSE
