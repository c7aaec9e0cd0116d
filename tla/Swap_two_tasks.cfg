SPECIFICATION Spec
CONSTANTS
  Tasks = {t1, t2}
  NumPages = 3
  Values = {new}
  Unwritten = fresh
  MaxBlocks = 12
INVARIANT FaultsAreServed
PROPERTY ImplementsMemory
