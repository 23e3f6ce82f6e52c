SPECIFICATION Spec
CONSTANTS
  Orders = {o1}
  Skus = {s1}
  Workers = {w1, w2}
  ZeroTotal = {}
  StockMoves = TRUE
  Demand <- OneUnitEach
  Partitions = {o1}
  PartitionOf <- OwnPartitions
  MaxStock = 1
  MaxRebalances = 1
  MaxFaults = 2
  MaxLate = 1
  MaxDuplicates = 1
INVARIANTS
  OneDecision
  RowAgreesWithOrder
  NothingSkipped
  ConfirmedIsBacked
SYMMETRY WorkerSymmetry
CHECK_DEADLOCK FALSE
