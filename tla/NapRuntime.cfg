SPECIFICATION Spec
CONSTANTS
  Runtimes = {r1, r2}
  Addresses = {a1, a2, a3}
  Scripts = {p, q, x}
  Bad = {x}
  None = none
  TableSize = 1
  MaxBins = 2
  MaxChunks = 2
  MaxLost = 1
  MaxScripts = 2
  MaxDepth = 2
SYMMETRY Symmetry
INVARIANTS
  BinsStay
  CompilersGo
  MachinesKnown
  RunsTheScript
  TableHolds
  NoBadCode
CHECK_DEADLOCK FALSE
