CONSTANTS
  LeafMax = 4
  InternalMax = 1
  Keys = {1, 2, 3, 4, 5}
  Values = {1, 2}
SPECIFICATION Spec
INVARIANTS Sorted LookupRight IndInv Splits
PROPERTIES InsertsEntry ImplementsLeafTable LoopsEnd
