SPECIFICATION Spec
CONSTANTS
  Tasks = {t1}
  NumPages = 4
  Values = {new}
  Unwritten = fresh
  MaxBlocks = 12
INVARIANT FaultsAreServed
