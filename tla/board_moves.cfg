SPECIFICATION Spec
CONSTANTS
  MaxChannel = 2
  Axes <- TwoAxes
  Slot <- MCSlot
  Num <- MCNum
  Den <- MCDen
  Travel <- MCTravel
  InitialConfig <- MCConfig
  Initialize = FALSE
  UserValues <- MCTwoValues
  RawValues = {2}
  Faults = {}
  Junk = {1}
  Ops = {"sa", "ma", "mr", "pp", "rawselect", "rawmove", "rawmoveto", "rawchannels", "rawposition"}
INVARIANTS
  TypeOK
  MoveHitsAxis
  SelectionKept
  AbsoluteMoveLands
PROPERTIES
  RelativeMoveAdvances
