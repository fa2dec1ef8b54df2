SPECIFICATION Spec
CONSTANTS
  Labels = {"l"}
  Methods <- FourMethods
  ParentMethods = {"f"}
  Strings = {"s"}
  Marks = {"b", "c"}
  Variables = {"x", "y"}
  Literals <- Literal
  Numbers <- AllNumbers
  Bits <- SmallBits
  Earlier = {0, 3}
  MaxItems = 3
INVARIANTS
  OperandsResolve
  MarksInList
  NumbersSurvive
  FunctionsFound
PROPERTIES
  LoadEnds
CHECK_DEADLOCK FALSE
