SPECIFICATION Spec
CONSTANTS
  Paths = {"smartlogger", "sdongle"}
  Units = {1}
  Allowed = {1}
  ChildUnit = 1
  LastGroup = 1
  MaxAttempts = 1
  MaxPages = 2
  MaxGeneration = 3
  MaxCycle = 1
PROPERTY FencedSendsNothing
CHECK_DEADLOCK FALSE
