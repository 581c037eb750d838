SPECIFICATION Spec
CONSTANTS
  Paths = {"smartlogger", "sdongle"}
  Units = {1}
  Allowed = {1}
  ChildUnit = 1
  LastGroup = 2
  MaxAttempts = 1
  MaxPages = 2
  MaxGeneration = 1
  MaxCycle = 5
INVARIANTS
  EmittedReadingIsOwned
  CurrentIsFresh
  BackoffIsExact
CHECK_DEADLOCK FALSE
