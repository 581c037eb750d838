SPECIFICATION Spec
CONSTANTS
  Callers = {c1, c2}
  MaxAttempts = 3
  MaxGeneration = 3
  MaxTick = 2
INVARIANTS
  OneCallOut
  SupplierKeepsContext
  DiagnosticFollowsBase
PROPERTIES
  Promise
  CallsReturn
CHECK_DEADLOCK FALSE
