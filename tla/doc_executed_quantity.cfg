CONSTANTS
  Ids = {a, b, c}
  UINT64_MAX = 15
  UINT32_MAX = 7
  Submissions <- CancelMenu
  CancelQuantities = {1}
  ExecuteQuantities = {1}
  ExecutePrices = {}
  ReplacePrices = {}
  ClientsOverCancel = FALSE
  NoOrder = NoOrder
SPECIFICATION Spec
INVARIANT ExecutedWithinQuantity
