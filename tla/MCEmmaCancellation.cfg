SPECIFICATION Spec
CONSTANTS
  Callers = {c1, c2}
  MaxAttempts = 2
  MaxGeneration = 1
  MaxTick = 1
PROPERTIES
  CancelledIsNotCommitted
CHECK_DEADLOCK FALSE
