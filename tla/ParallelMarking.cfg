SPECIFICATION Spec
CONSTANTS
  Helpers = {h1, h2}
  Collector = Collector
  Mutator = Mutator
  r = r
  a = a
  b = b
  o = o
  Cells = {r, a, b, o}
  Roots = {r}
  Children <- ChildrenOf
  Outgrowth <- OutgrowthOf
  MaxCycles = 2
  MaxTimeouts = 1
CHECK_DEADLOCK FALSE
INVARIANTS
  MarkingComplete
  AssertionsHold
  TaskEndsBeforeReturn
PROPERTIES
  CollectionEnds
