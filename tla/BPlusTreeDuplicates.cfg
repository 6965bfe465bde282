CONSTANTS
  LeafMax = 2
  InternalMax = 3
  Keys = {1, 2, 3, 4}
  Values = {v1, v2}
  NoValue = NoValue
  MaxPages = 6
  Duplicates = TRUE
  Reopens = FALSE
SPECIFICATION Spec
PROPERTY DuplicateRefused
CHECK_DEADLOCK FALSE
