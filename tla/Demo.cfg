CONSTANTS
  PoolSize = 20
  MaxPages = 60
  NoFrame = NoFrame
  ZeroBody = ZeroBody
  LeafMax = 250
  InternalMax = 250
  Keys = {101, 102, 103, 201, 202, 301, 302, 999}
  Nothing = Nothing
  EmptyFile = TRUE
  Duplicates = TRUE
  MovedRootToo = TRUE
SPECIFICATION DemoSpec
INVARIANT PreviousDataFound
