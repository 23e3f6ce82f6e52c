SPECIFICATION MCSpec
CONSTANTS
  w1 = w1
  p1 = p1
  Orders = {o1}
  Unparsable = Unparsable
  Workers = {w1, w2}
  Partitions = {p1}
  PartitionOf <- OnePartition
  MaxRebalances = 1
  Clerks = {c1, c2}
  MaxEvents = 2
  MaxFailures = 1
  Mailers = {m1}
  MailPartitions = {p1}
  MailPartitionOf <- OnePartition
  MaxMailRebalances = 1
  MaxMailStops = 1
  MaxFaults = 1
SYMMETRY ClerkSymmetry
INVARIANTS
  TypeOK
  ShipmentEventsBacked
  MovesAnnouncedOnce
  CreatedAnnouncedWhileOpen
  NotifiedAtMostOnce
  LossesAreFailures
PROPERTIES
  ConfirmedShips
CHECK_DEADLOCK FALSE
