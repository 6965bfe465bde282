CONSTANTS
  PoolSize = 2
  MaxPages = 3
  MaxPins = 2
  NoFrame = NoFrame
  ZeroBody = ZeroBody
  Body = {b1, b2}
  Absent = Absent
  ProbeEmptyFile = FALSE
SPECIFICATION Spec
INVARIANTS TypeOK PinnedStay FramesAccounted DirtyIsFound LivePagesSafe FileHonest IndInv WrittenOrBlank
PROPERTY ImplementsPageStore
