SPECIFICATION FairSpec
CONSTANTS
  Orders = {o1}
  Handlers = {h1, h2}
  Sweepers = {s1}
  Webhooks <- AllEvents
  Settlements = {"SETTLED", "FAILED"}
  MaxCopies = 1
  MaxCrashes = 1
INVARIANTS
  TypeOK
  AnswersAgree
  RecordedTookEffect
PROPERTIES
  ImplementsDesk
  CapturedIsReconciled
SYMMETRY HandlerSymmetry
CHECK_DEADLOCK FALSE
