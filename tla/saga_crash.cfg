SPECIFICATION FairSpec
CONSTANTS
  Orders = {o1, o2}
  Skus = {s1}
  Workers = {w1}
  ZeroTotal = {o2}
  StockMoves = TRUE
  Demand <- OneUnitEach
  Partitions = {o1, o2}
  PartitionOf <- OwnPartitions
  MaxStock = 1
  MaxRebalances = 0
  MaxFaults = 1
  MaxLate = 0
  MaxDuplicates = 1
INVARIANTS
  TypeOK
  ConfirmedIsPaidAndCommitted
  ClosedHoldsNoStock
  ClosedIsNotCharged
PROPERTIES
  SagaMovesForward
  EveryPublishedOrderDecided
  PartitionDrained
CHECK_DEADLOCK FALSE
