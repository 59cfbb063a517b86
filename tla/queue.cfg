CONSTANTS
  Threads = {a, b, c}
  NoThread = NoThread
  MaxCalls = 2
  MaxSpurious = 1
SPECIFICATION Spec
INVARIANTS TakenInOrder NoLostWakeup
PROPERTY ElementEndsWait
CHECK_DEADLOCK FALSE
