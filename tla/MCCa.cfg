CONSTANTS
  IrqModes = {TRUE, FALSE}
  MaxCams = 3
  MaxResets = 2
  MaxWrites = 2
SPECIFICATION Spec
INVARIANTS RunningIsReset
PROPERTIES Settles
