SPECIFICATION ServerSpec
CONSTANTS
  MaxChannel = 2
  Axes <- TwoAxes
  Slot <- MCSlot
  Num <- MCUnit
  Den <- MCUnit
  Travel <- MCTravel
  InitialConfig <- MCConfig
  Initialize = TRUE
  UserValues = {0, 1}
  RawValues = {1}
  Faults = {}
  Junk = {}
  Ops = {"ma", "zero", "initialzero", "savexml", "rawmoveto", "rawupper"}
  Careful = TRUE
INVARIANTS
  ServerTypeOK
  Calibrated
  OriginKept
  SavedIsCurrent
  FileComplete
