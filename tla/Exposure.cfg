CONSTANTS
  FirstThreshold = 4
  Step = 1
  MaxThreshold = 5
  Depth = 2
  Percent = 105
  MaxIssue = 8
  Quotes = {2, 4}
  DefaultRate = 3
  StopPercent = 80
  Deduction = 1
  Samples = 1
  ProbeUnits = 1
  MinSwept = 2
  PrepayUnits = 1
  Slice = 1
  MaxRefresh = 1
  MaxFails = 1
SPECIFICATION FairSpec
INVARIANTS MirrorCovers ExposureBounded SweepAffordable SettledAtEnd
PROPERTY Terminates
