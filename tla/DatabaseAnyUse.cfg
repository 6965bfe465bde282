CONSTANTS
  PoolSize = 3
  MaxPages = 8
  NoFrame = NoFrame
  ZeroBody = ZeroBody
  LeafMax = 1
  InternalMax = 1
  Keys = {1, 2, 3}
  Nothing = Nothing
  EmptyFile = TRUE
  Duplicates = TRUE
  MovedRootToo = TRUE
SPECIFICATION Spec
INVARIANTS AnswersSound
