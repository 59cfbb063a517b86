CONSTANTS
  Ids = {a, b, c}
  UINT64_MAX = 15
  UINT32_MAX = 7
  Submissions <- LimitMenu
  CancelQuantities = {1}
  ExecuteQuantities = {1}
  ExecutePrices = {2}
  ReplacePrices = {2}
  ClientsOverCancel = FALSE
  NoOrder = NoOrder
SPECIFICATION Spec
INVARIANTS VolumeExact Uncrossed RestingOrdersLive FeedMirrorsBook
PROPERTIES TimePriority PriceTimePriority CallReturns ImplementsPriorityBook
