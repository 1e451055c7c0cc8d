CONSTANTS
  slot_count = 2
  Connections = {1, 2}
  RXSIZE = 3
  Wraps = TRUE
  MaxFrags = 2
  MaxMsgs = 2
SPECIFICATION Spec
INVARIANTS TypeOK WholeMessages
PROPERTIES OnceInOrder
