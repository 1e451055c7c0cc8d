CONSTANTS
  Vectors = {47, 48}
  Handled = {47, 48}
  Others = {40}
  MaxEdges = 2
SPECIFICATION FairSpec
INVARIANTS TypeOK SafeDispatch NoSpuriousCall
PROPERTY EdgeDispatched
CHECK_DEADLOCK FALSE
