SPECIFICATION Spec
CONSTANTS
  Table <- defaultparams
  Commands <- MCCommands
  MaxCommands = 1
  Modes = {"batch", "cmd", "interactive"}
  Refused = {}
INVARIANT EnergyWithDefaults
CHECK_DEADLOCK FALSE
