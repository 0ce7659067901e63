CONSTANTS
  Tasks = {t1, t2, t3}
  Initial = t1
  NoTask = NoTask
  NFds = 2
  NFiles = 2
  MaxCalls = 6
SPECIFICATION Spec
INVARIANTS
  RefsMatch
  CloseBeforeReuse
PROPERTIES
  CallsReturn
CHECK_DEADLOCK FALSE
