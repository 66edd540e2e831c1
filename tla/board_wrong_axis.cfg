SPECIFICATION Spec
CONSTANTS
  MaxChannel = 2
  Axes <- TwoAxes
  Slot <- MCSlot
  Num <- MCNum
  Den <- MCDen
  Travel <- MCTravel
  InitialConfig <- MCConfig
  Initialize = FALSE
  UserValues <- MCUserValues
  RawValues = {}
  Faults = {"refused"}
  Junk = {1}
  Ops = {"sa", "ma"}
INVARIANTS
  AbsoluteMoveLands
