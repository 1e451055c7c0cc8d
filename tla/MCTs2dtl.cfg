CONSTANTS
  RINGSIZ = 6
  TS2D_BUFFERS = 3
  MaxFills = 7
  MaxStarts = 2
SPECIFICATION FairSpec
INVARIANTS TypeOK InStep RingBalanced NoDmaRace SlotsDistinct DeliveredInOrder
PROPERTY InterruptDelivers
CHECK_DEADLOCK FALSE
