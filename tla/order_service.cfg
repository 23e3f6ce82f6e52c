SPECIFICATION FairSpec
CONSTANTS
  Orders = {o1, o2}
  Keys = {k1}
  Bodies <- SmallBodies
  NoOrder = NoOrder
  Half = 8
  Workers = {w1}
  Partitions = {o1, o2}
  PartitionOf <- OwnPartitions
  MaxRebalances = 1
  Relays = {r1, r2}
  BatchSize = 2
  MaxRelayFailures = 1
  MaxStops = 1
INVARIANTS
  TypeOK
  OneOrderPerKey
  TotalIsExactInRange
  ReadsAreTrue
  MarkedIsPublished
  CaughtUpIsCurrent
PROPERTIES
  EveryOrderShown
CHECK_DEADLOCK FALSE
