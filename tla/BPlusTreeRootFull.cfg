CONSTANTS
  LeafMax = 2
  InternalMax = 1
  Keys = {1, 2, 3, 4}
  Values = {v1, v2}
  NoValue = NoValue
  MaxPages = 6
  Duplicates = FALSE
  Reopens = FALSE
SPECIFICATION Spec
PROPERTY StoredStaysFound
CHECK_DEADLOCK FALSE
