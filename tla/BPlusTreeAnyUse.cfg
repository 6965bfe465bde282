CONSTANTS
  LeafMax = 2
  InternalMax = 1
  Keys = {1, 2, 3}
  Values = {v1, v2}
  NoValue = NoValue
  MaxPages = 5
  Duplicates = TRUE
  Reopens = TRUE
SPECIFICATION Spec
INVARIANTS IndInv LeavesSorted TwoLevels NothingVanishes SoundLookup
CHECK_DEADLOCK FALSE
