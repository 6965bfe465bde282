CONSTANTS
  LeafMax = 2
  InternalMax = 4
  Keys = {1, 2, 3, 4, 5, 6}
  Values = {v1, v2}
  NoValue = NoValue
  MaxPages = 6
  Duplicates = FALSE
  Reopens = FALSE
SPECIFICATION Spec
INVARIANTS ProperUse Finds InOrder ArraysInsert
PROPERTY ImplementsKeyIndex
CHECK_DEADLOCK FALSE
