CONSTANTS
  NFilters = 2
  NFeeds = 3
  FILTERNUM = 2
  Pids = {p1, p2}
  MaxPids = 2
  Timeouts = {TRUE}
  Decoders = {FALSE}
  Failures = TRUE
SPECIFICATION Spec
SYMMETRY PidSymmetry
CONSTRAINT StaysSound
VIEW LiveView
INVARIANTS TypeOK FeedsCounted TablesAccountedFor SectionsMatch NoLockup StartedIsFed
