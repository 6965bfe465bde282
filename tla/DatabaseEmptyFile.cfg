CONSTANTS
  PoolSize = 3
  MaxPages = 8
  NoFrame = NoFrame
  ZeroBody = ZeroBody
  LeafMax = 1
  InternalMax = 3
  Keys = {1, 2, 3}
  Nothing = Nothing
  EmptyFile = TRUE
  Duplicates = FALSE
  MovedRootToo = FALSE
SPECIFICATION Spec
PROPERTY CallsReturn
