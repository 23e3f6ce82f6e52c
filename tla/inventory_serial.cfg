SPECIFICATION Spec
CONSTANTS
  o1 = o1
  o2 = o2
  s1 = s1
  s2 = s2
  Orders = {o1, o2}
  Skus = {s1, s2}
  Handlers = {h1, h2}
  Demand <- SharedDemand
  GoRank <- Ascending
  DbRank <- Ascending
  MaxAttempts = 2
  Overlap = FALSE
  MaxCorrections = 1
  MaxStock = 2
INVARIANTS
  TypeOK
  ReservedIsHeld
  NoLostUpdate
  NoLockCycle
PROPERTIES
  ImplementsLedger
SYMMETRY HandlerSymmetry
