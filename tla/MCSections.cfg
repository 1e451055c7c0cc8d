CONSTANTS
  Lens = {3, 12}
  MAXSEC = 12
  PACKET = 12
  Counts = {5, 8}
  CCMOD = 3
  CheckCrc = TRUE
  Guesses = {4, 13}
  MaxSections = 3
SPECIFICATION Spec
INVARIANTS TypeOK IntactIsGiven
PROPERTIES GarbageOnlyWhenSuspect InOrderOnce
