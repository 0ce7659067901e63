CONSTANTS
  idle = idle
  init = init
  t1 = t1
  t2 = t2
  m1 = m1
  m2 = m2
  s1 = s1
  null = null
  Tasks <- MCTasks4
  Idle = idle
  First = init
  Mutexes = {m1, m2}
  Sems = {s1}
  SemInit <- MCSemInit
  TASK_SLICE = 2
  NULL = null
  MaxSleep = 2
  MaxCount = 1
  MaxNest = 2
SPECIFICATION Spec
SYMMETRY MCSymmetry
INVARIANTS
  TypeOK
  QueueInv
  CurrentInv
  LockInv
  SemInv
PROPERTIES
  HandoffInOrder
  ImplementsSync
