SPECIFICATION Spec
CONSTANTS
  Paths = {"smartlogger", "sdongle"}
  Units = {1, 2}
  Allowed = {1}
  ChildUnit = 1
  LastGroup = 2
  MaxAttempts = 2
  MaxPages = 2
  MaxGeneration = 3
  MaxCycle = 2
INVARIANTS
  OneConnection
  IdentityIsBound
  RefusedNeverSent
PROPERTY RefreshReturns
CHECK_DEADLOCK FALSE
