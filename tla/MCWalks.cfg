CONSTANTS
  h1 = h1
  h2 = h2
  idle = idle
  n1 = n1
  n2 = n2
  n3 = n3
  n4 = n4
  n5 = n5
  n6 = n6
  n7 = n7
  Heads <- MCHeads
  Nodes <- MCNodes
  ready_task_queue <- h1
  sleep_task_queue <- h2
  dirty_blocks <- h1
  Boot <- MCBoot
  MaxTicks = 2
  Blocks <- MCBlocks
  Loose <- MCLoose
SYMMETRY MCSymmetry
SPECIFICATION WalksSpec
INVARIANTS
  Linked
  EverySleeperOnce
  SyncSkips
  WrittenOrWaiting
