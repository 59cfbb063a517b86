CONSTANTS
  NumThreads = 2
  Tasks = {t1, t2, t3}
  Waitable = {t1, t2}
  Throwing = {t2, t3}
  NoTask = NoTask
SPECIFICATION Spec
INVARIANTS TypeOK RunsInOrder DestroyedDrained
PROPERTIES DueTasksRun WaitEnds DestructorReturns
\* The owner may block for ever on a task it submitted to a stopped pool.
CHECK_DEADLOCK FALSE
