SPECIFICATION Spec
CONSTANTS
  o1 = o1
  o2 = o2
  s1 = s1
  s2 = s2
  Orders = {o1, o2}
  Skus = {s1, s2}
  Handlers = {h1, h2}
  Demand <- SingleDemand
  GoRank <- Ascending
  DbRank <- Ascending
  MaxAttempts = 2
  Overlap = TRUE
  MaxCorrections = 0
  MaxStock = 2
INVARIANTS
  ReservedIsHeld
