CONSTANTS
  Price <- Prices
  Depth = 2
  Threshold = 4
  Default = 6
  Allowance = 1
  MaxRefresh = 1
  MaxFails = 1
SPECIFICATION FairSpec
INVARIANTS TypeOK MirrorCovers PeakBounded ResidualTruthful
 
