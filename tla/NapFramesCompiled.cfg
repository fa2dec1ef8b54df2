SPECIFICATION Spec
CONSTANTS
  Procs = {"main", "f", "g"}
  Main = "main"
  AsmProcs <- NoProcs
  Sites = {"m", "a", "b", "c"}
  Caller <- MCCaller
  Callee <- MCCallee
  AsmOps = {}
  RegKinds = {"byte"}
  Values = {0, 1}
  MaxSp = 1
  DeepestRecursion = 4
  CfMod = 16
  Garbage <- MCGarbage
INVARIANTS
  TypeOK
  BpIsFrameBase
CHECK_DEADLOCK FALSE
