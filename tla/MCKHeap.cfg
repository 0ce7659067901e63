CONSTANTS
  Page = 4
  NPages = 5
  ChunkPages = 2
  Sizes = {1, 4, 5, 7}
  MaxCalls = 10
  Fuel = 42
SPECIFICATION Spec
INVARIANTS
  HeapInv
PROPERTIES
  HangsOnLeftMerge
  KeepsPromise
CHECK_DEADLOCK FALSE
