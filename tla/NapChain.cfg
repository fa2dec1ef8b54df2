SPECIFICATION Spec
CONSTANTS
  MaxMachines = 3
  MaxFrames = 2
  MaxSp = 0
  Results = {1, 2}
  NoResult = 0
  Below = 77
INVARIANTS
  RunningMachinesLive
  IdleRootHasNoFrames
PROPERTIES
  CallsLeaveParent
  ResultArrives
  FailureTravels
CHECK_DEADLOCK FALSE
