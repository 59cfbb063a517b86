CONSTANTS
  NumThreads = 2
  Symbols = {x, y}
  Orders = {addOrder}
  MaxLives = 1
  MaxTasks = 3
  AlignedDeletes = FALSE
  NoTask = NoTask
SPECIFICATION Spec
INVARIANTS HandlerConfined
CHECK_DEADLOCK FALSE
