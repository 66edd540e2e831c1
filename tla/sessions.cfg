CONSTANTS
  Names = {"x", "y", "z"}
  AxisNames = {"x", "y"}
  Numbers = {1, 2}
  Junk = {1, 7}
  Clients = {"c1", "c2"}
  Whole = TRUE
  AcceptMayFail = TRUE
  Modes <- MCModes
  Scripts <- MCScripts
SPECIFICATION Spec
INVARIANTS TypeOK ConsoleShutDuringInit NoMutualWait
PROPERTIES ImplementsRequestReply Finishes
CHECK_DEADLOCK FALSE
