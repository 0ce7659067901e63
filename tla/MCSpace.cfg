CONSTANTS
  init = init
  t1 = t1
  none = none
  NONE = none
  Tasks <- MCTasks
  First = init
  NFrames = 25
  ByteBits = 4
  PAGE_SIZE = 2
  FreeMemStart = 6
  Entries = 3
  KernelTable = 1
  Layouts <- MCLayouts
  Programs <- MCPrograms
  Texts <- MCTexts
  StackPages = 1
  Misread = {11}
  MaxHeap = 5
  BootHeap = 2
  HeapRuns = {1, 2}
  Faults <- MCFaults
SPECIFICATION Spec
INVARIANTS
  SpaceTypeOK
  
  NoLeak
  OnlyRam
  FrameZeroTaken
  KernelMapped
PROPERTIES
  FailedExecUndone
  ForkCopies
  OthersKept
  LoadsLand
CHECK_DEADLOCK FALSE
