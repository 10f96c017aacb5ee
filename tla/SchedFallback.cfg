CONSTANTS
  i1 = i1
  i2 = i2
  i3 = i3
  x = x
  y = y
  near = near
  far = far
  s1 = s1
  s2 = s2
  Item = {i1, i2, i3}
  Addr = {x, y}
  Bucket = {near, far}
  Storer = {s1}
  AddrOf <- TwoOfOne
  BucketOf <- YFar
  Prefix <- BothNear
  Members <- OneMember
  Rate <- SomeRates
  Window = 2
  Pipeline = 2
  NearEmpty = 2
  MaxRecycles = 1
  MaxSweeps = 2
  FbMax = 1
  DirectOnly = FALSE
  MeasureLambda = FALSE
  StallExit = TRUE
  PutMayFail = FALSE
  WarmPool = TRUE
  Warm = {s1}
  LambdaKnown = {}
  Resumable = {x, y}
SPECIFICATION FairSpec
INVARIANT FailedNotUnderstated
PROPERTIES Delivery Terminates
