SPECIFICATION Spec
CONSTANTS
  MaxChannel = 2
  Axes <- TwoAxes
  Slot <- MCSlot
  Num <- MCNum
  Den <- MCDen
  Travel <- MCTravel
  InitialConfig <- MCConfigOffset
  Initialize = FALSE
  UserValues <- MCUserValues
  RawValues = {}
  Faults = {}
  Junk = {1}
  Ops = {"mr"}
PROPERTIES
  RelativeMoveAdvances
