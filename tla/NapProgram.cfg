SPECIFICATION Spec
CONSTANTS
  Procs = {"main", "f", "g"}
  Main = "main"
  Params <- ParamsOfProcs
  Refs <- RefsOfProcs
  Returns <- ReturnsOf
  Assigns <- AssignsOf
  Callees <- CalleesOf
  Globals = {"z"}
  NoGlobal = "none"
  Values = {0, 1}
  NoValue = 9
  DeepestRecursion = 3
  StackSize = 17
  MaxSteps = 2
  MaxNesting = 2
  Garbage = {0, 1}
INVARIANTS
  NoOverrun
PROPERTIES
  Terminates
  ImplementsProcedures
CHECK_DEADLOCK FALSE
