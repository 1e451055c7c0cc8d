CONSTANTS
  RINGSIZ = 6
  TS2D_BUFFERS = 3
  MaxFills = 4
  MaxStarts = 2
SPECIFICATION Spec
INVARIANT SetIndexValid
CHECK_DEADLOCK FALSE
