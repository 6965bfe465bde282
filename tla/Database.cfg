CONSTANTS
  PoolSize = 2
  MaxPages = 8
  NoFrame = NoFrame
  ZeroBody = ZeroBody
  LeafMax = 1
  InternalMax = 3
  Keys = {1, 2, 3}
  Nothing = Nothing
  EmptyFile = FALSE
  Duplicates = FALSE
  MovedRootToo = FALSE
SPECIFICATION Spec
INVARIANTS IndInv KeysInPlace NothingPinned NoNullUsed AnswersRight
PROPERTIES UsesPoolWell CallsReturn
