SPECIFICATION Spec
CONSTANTS
  Commands = {mr, ch, qp}
  None = None
  MaxPieces = 4
  Size = 4
  Steady = TRUE
INVARIANTS
  LineQuiet
PROPERTIES
  ImplementsRPC
