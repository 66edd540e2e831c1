SPECIFICATION ServerSpec
CONSTANTS
  MaxChannel = 2
  Axes <- TwoAxes
  Slot <- MCSlot
  Num <- MCUnit
  Den <- MCUnit
  Travel <- MCTravel
  InitialConfig <- MCConfig
  Initialize = FALSE
  UserValues = {0, 1}
  RawValues = {}
  Faults = {}
  Junk = {}
  Ops = {"ma", "zero", "savexml"}
  Careful = FALSE
INVARIANTS
  SavedIsCurrent
