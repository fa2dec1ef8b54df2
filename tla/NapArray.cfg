SPECIFICATION Spec
CONSTANTS
  Shapes <- AllShapes
  Values = {0, 1}
  Junk = 99
  Nested <- MCNested
  Indices <- MCIndices
  MaxScopes = 2
  MaxWrites <- MCWrites
  MaxDims = 8
INVARIANTS
  DimensionsAgree
  ErrorsJustified
  AccessInMemory
  CellsAreDistinct
PROPERTIES
  BadIndicesWriteNothing
CHECK_DEADLOCK FALSE
