SPECIFICATION Spec
CONSTANTS
  Strings <- MCStrings
  Arrays <- MCArrays
  Parameter = "p"
  Registers <- MCRegisters
  Marks <- MCMarks
  Literals <- MCLiterals
  Sizes <- MCSizes
  MaxLength = 2
  MaxStack = 5
INVARIANTS
  NoFault
  OneOwner
  LengthsFit
  CleanupIsExact
CHECK_DEADLOCK FALSE
