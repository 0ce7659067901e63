CONSTANTS
  idle = idle
  init = init
  t1 = t1
  t2 = t2
  m1 = m1
  m2 = m2
  s1 = s1
  null = null
  Tasks <- MCTasks3
  Idle = idle
  First = init
  Mutexes = {}
  Sems = {s1}
  SemInit <- MCSemInit
  TASK_SLICE = 1
  NULL = null
  MaxSleep = 1
  MaxCount = 0
  MaxNest = 0
SPECIFICATION FairSpec
PROPERTIES
  ZombieReclaimed
