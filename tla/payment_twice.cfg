SPECIFICATION Spec
CONSTANTS
  Orders = {o1}
  Handlers = {h1, h2}
  Sweepers = {s1}
  Webhooks = {}
  Settlements = {"SETTLED"}
  MaxCopies = 1
  MaxCrashes = 0
INVARIANTS
  ChargedOnce
CHECK_DEADLOCK FALSE
