SPECIFICATION Spec
CONSTANTS
  MaxChannel = 2
  Axes <- TwoAxes
  Slot <- MCSlot
  Num <- MCNum
  Den <- MCDen
  Travel <- MCTravel
  InitialConfig <- MCConfig
  Initialize = TRUE
  UserValues <- MCTwoValues
  RawValues = {2}
  Faults = {}
  Junk = {1}
  Ops = {"ma", "zero", "initialzero", "jog", "unjog", "rawupper", "rawchannels"}
INVARIANTS
  AbsoluteMoveLands
  LimitsInForce
  WithinLimits
  OffsetsAgree
  PrintedLimitsHold
PROPERTIES
  ZeroReadsZero
