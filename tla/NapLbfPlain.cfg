SPECIFICATION Spec
CONSTANTS
  Conditions <- PlainConditions
  Values = {0, 2, 3}
  Undefined = 99
  MaxDepth = 2
INVARIANTS
  JumpFollowsCondition
  FlagIsFresh
