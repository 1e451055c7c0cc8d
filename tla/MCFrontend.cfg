CONSTANTS
  Callers = {c1}
  MAX_EVENT = 2
  Removable = TRUE
  MaxThreads = 2
  MaxEvents = 2
SPECIFICATION Spec
CONSTRAINT Sane
INVARIANTS TypeOK SemIsMutex OneThread
PROPERTIES GapsReported Served
CHECK_DEADLOCK FALSE
