SPECIFICATION Spec
CONSTANTS
  Orders = {o1, o2}
  Skus = {s1}
  Workers = {w1}
  ZeroTotal = {}
  StockMoves = FALSE
  Demand <- OneUnitEach
  Partitions = {o1, o2}
  PartitionOf <- OwnPartitions
  MaxStock = 1
  MaxRebalances = 0
  MaxFaults = 2
  MaxLate = 0
  MaxDuplicates = 0
INVARIANTS
  CancelledHoldsNoStock
CHECK_DEADLOCK FALSE
