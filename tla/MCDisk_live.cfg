CONSTANTS
  idle = idle
  init = init
  t1 = t1
  t2 = t2
  disk_mutex = disk_mutex
  disk_sem = disk_sem
  null = null
  Tasks <- MCTasks3
  Idle = idle
  First = init
  Mutexes = {disk_mutex}
  Sems = {disk_sem}
  SemInit <- MCSemInit
  TASK_SLICE = 1
  NULL = null
  MaxSleep = 0
  MaxCount = 4
  MaxNest = 2
  mutex = disk_mutex
  sem = disk_sem
  Preemptible = {init}
  MaxSectors = 2
  MayFail = FALSE
SPECIFICATION DiskFairSpec
PROPERTIES
  DiskDone
