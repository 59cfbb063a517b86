CONSTANTS
  Ids = {a, b, c}
  UINT64_MAX = 15
  UINT32_MAX = 7
  Submissions <- FokMenu
  CancelQuantities = {}
  ExecuteQuantities = {}
  ExecutePrices = {}
  ReplacePrices = {}
  ClientsOverCancel = FALSE
  NoOrder = NoOrder
SPECIFICATION Spec
INVARIANT FillOrKill
