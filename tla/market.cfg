CONSTANTS
  NumThreads = 2
  Symbols = {x, y, z}
  Orders = {addOrder, cancelOrder}
  MaxLives = 2
  MaxTasks = 5
  AlignedDeletes = TRUE
  NoTask = NoTask
SPECIFICATION Spec
INVARIANTS TypeOK HandlerConfined ToStringComplete DestructorServes
PROPERTIES ImplementsAsyncMarket RequestsServed
\* The market ends when the caller destroys it.
CHECK_DEADLOCK FALSE
