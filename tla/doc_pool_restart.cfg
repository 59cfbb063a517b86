CONSTANTS
  NumThreads = 2
  Tasks = {t1}
  Waitable = {}
  Throwing = {}
  NoTask = NoTask
SPECIFICATION Spec
INVARIANTS NeverTerminates
CHECK_DEADLOCK FALSE
