CONSTANTS
  Units = 4
  Direct = 2
  Window = 2
  Table = 4
  BUFFER_HASH_SIZE = 1
  PerBucket = 12
  Image <- MCImage
  Regular = {3, 4, 9, 13}
  Opens <- MCOpens
  Begins <- MCBegins
  Files = {1, 2}
  Reads = {1, 4, 6}
  Writes = {1, 6}
  Offsets = {12}
  Bad = {4}
  Ticks = {1}
  MaxCalls = 7
SPECIFICATION Spec
PROPERTIES
  ReadsItsFile
  WritesOnlyAppend
  WindowKeepsFiles
  EvictionMisfiles
CHECK_DEADLOCK FALSE
