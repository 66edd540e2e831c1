SPECIFICATION Spec
CONSTANTS
  NumAxes = 2
  Positions <- MCPositions
  Updaters <- TwoUpdaters
  Batchers <- TwoBatchers
  BatchFile <- MCBatchFile
  MaxEvents = 3
INVARIANTS
  TypeOK
  RepliesMatch
  JogAgrees
  CommandsOutsideJog
  NoCircularWait
PROPERTIES
  FieldsFollow
  HandlersReturn
CHECK_DEADLOCK FALSE
