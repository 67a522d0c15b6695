SPECIFICATION Spec
CONSTANTS
  Root = Root
  Cells = {Root, c1, c2}
  Visitors = {v1, v2}
  None = None
  MaxStores = 5
  MaxCycles = 3
SYMMETRY Symmetry
INVARIANTS
  NoLiveCellFreed
  OldToNewIsRemembered
  AssertionsHold
CHECK_DEADLOCK FALSE
