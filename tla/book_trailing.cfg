CONSTANTS
  Ids = {a, b, c}
  UINT64_MAX = 7
  UINT32_MAX = 5
  Submissions <- TrailMenu
  CancelQuantities = {}
  ExecuteQuantities = {1}
  ExecutePrices = {1, 2, 4, 5}
  ReplacePrices = {}
  ClientsOverCancel = FALSE
  NoOrder = NoOrder
SPECIFICATION Spec
INVARIANTS BookTypeOK VolumeExact IndexConsistent TrailWithin StopsUntriggered
PROPERTIES TimePriority
SYMMETRY IdSymmetry
