CONSTANTS
  PageSize = 44
  Sizes = {0, 1, 2, 3, 5, 9, 12, 23, 24, 27, 28, 29, 65530}
  Lengths = {0, 1, 4, 20, 21, 65527, 65528, 65529, 65536, 65556}
  Students = {0, 1, 3, 5, 16384, 65536}
  Unknown = Unknown
SPECIFICATION ObjectSpec
INVARIANTS RecordsIntact DirectoryIntact FreeSpaceExact IndInv RoundTrip SerializedInBuffer
