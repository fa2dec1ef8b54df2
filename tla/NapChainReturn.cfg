SPECIFICATION Spec
CONSTANTS
  MaxMachines = 2
  MaxFrames = 1
  MaxSp = 0
  Results = {1}
  NoResult = 0
  Below = 77
INVARIANTS
  RunsCode
CHECK_DEADLOCK FALSE
