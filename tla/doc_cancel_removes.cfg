CONSTANTS
  Ids = {a, b, c}
  UINT64_MAX = 15
  UINT32_MAX = 7
  Submissions <- CancelMenu
  CancelQuantities = {1, 2}
  ExecuteQuantities = {}
  ExecutePrices = {}
  ReplacePrices = {}
  ClientsOverCancel = TRUE
  NoOrder = NoOrder
SPECIFICATION Spec
PROPERTY OverCancelRemoves
