SPECIFICATION Spec
CONSTANTS
  Orders = {o1}
  Handlers = {h1}
  Sweepers = {s1}
  Webhooks <- AllEvents
  Settlements = {"SETTLED"}
  MaxCopies = 2
  MaxCrashes = 0
INVARIANTS
  NoReemission
CHECK_DEADLOCK FALSE
