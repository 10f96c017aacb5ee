CONSTANTS
  p1 = p1
  p2 = p2
  Peer = {p1, p2}
  MaxCum = 1
  MaxRuns = 3
  MaxFails = 2
SPECIFICATION FairSpec
INVARIANTS CleanMeansSaved CleanRunPersisted
PROPERTIES DiskMonotone EventuallySaved
CHECK_DEADLOCK FALSE
