CONSTANTS
  PoolSize = 1
  MaxPages = 2
  NoFrame = NoFrame
  ZeroBody = ZeroBody
  Threads = {t1, t2}
SPECIFICATION Spec
INVARIANT PointersStay
