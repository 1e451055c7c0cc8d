CONSTANTS
  slot_count = 2
  Connections = {1, 2}
  RXSIZE = 3
  Wraps = FALSE
  MaxFrags = 2
  MaxMsgs = 3
SPECIFICATION Spec
INVARIANTS ReadConditionHolds
