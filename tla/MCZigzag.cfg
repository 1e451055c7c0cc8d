CONSTANTS
  Freqs = {100, 900}
  ValidFreqs <- InRange
  Settings <- Zigzags
  AutoInversion = FALSE
  CanRecover = TRUE
  Reports = {"frequency", "inversion"}
  WRAP = 3
  MaxErrors = 1
  MaxCalls = 3
SPECIFICATION Spec
CONSTRAINT Near
INVARIANTS TypeOK SlowMeansAllTried TunedIsRequested
PROPERTIES FastEnds
