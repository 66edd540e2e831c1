SPECIFICATION Spec
CONSTANTS
  Table <- defaultparams
  Commands <- MCCommands
  MaxCommands = 2
  Modes = {"batch", "cmd", "interactive"}
  Refused <- MCAllControls
INVARIANTS
  TypeOK
  EnergyCorrected
  DefaultsLoaded
PROPERTY Finishes
CHECK_DEADLOCK FALSE
