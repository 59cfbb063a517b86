CONSTANTS
  Ids = {a, b, c, d}
  UINT64_MAX = 15
  UINT32_MAX = 7
  Submissions <- StopMenu
  CancelQuantities = {}
  ExecuteQuantities = {1}
  ExecutePrices = {3}
  ReplacePrices = {2}
  ClientsOverCancel = FALSE
  NoOrder = NoOrder
SPECIFICATION Spec
INVARIANTS IndexConsistent StopsUntriggered QuantityAccounted FeedMirrorsBook
SYMMETRY IdSymmetry
