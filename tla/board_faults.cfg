SPECIFICATION Spec
CONSTANTS
  MaxChannel = 2
  Axes <- TwoAxes
  Slot <- MCSlot
  Num <- MCUnit
  Den <- MCUnit
  Travel <- MCTravel
  InitialConfig <- MCNarrow
  Initialize = FALSE
  UserValues = {1}
  RawValues = {1}
  Faults = {"refused", "short", "blank"}
  Junk = {}
  Ops = {"ma", "mr", "savexml", "rawmove", "rawlower"}
INVARIANTS
  MoveOutcome
  ErrorIsCurrent
PROPERTIES
  Answered
CHECK_DEADLOCK FALSE
