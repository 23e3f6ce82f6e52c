SPECIFICATION MCSpec
CONSTANTS
  w1 = w1
  p1 = p1
  Orders = {o1}
  Unparsable = Unparsable
  Workers = {w1}
  Partitions = {p1}
  PartitionOf <- OnePartition
  MaxRebalances = 0
  Clerks = {c1}
  MaxEvents = 1
  MaxFailures = 1
  Mailers = {m1}
  MailPartitions = {p1}
  MailPartitionOf <- OnePartition
  MaxMailRebalances = 0
  MaxMailStops = 0
  MaxFaults = 1
INVARIANT CreatedIsAnnounced
CHECK_DEADLOCK FALSE
