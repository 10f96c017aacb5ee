CONSTANTS
  i1 = i1
  i2 = i2
  i3 = i3
  x = x
  y = y
  near = near
  far = far
  s1 = s1
  s2 = s2
  Item = {i1, i2}
  Addr = {x, y}
  Bucket = {near, far}
  Storer = {s1, s2}
  AddrOf <- Distinct
  BucketOf <- AllNear
  Prefix <- BothNear
  Members <- NearMembers
  Rate <- SomeRates
  Window = 2
  Pipeline = 1
  NearEmpty = 2
  MaxRecycles = 1
  MaxSweeps = 1
  FbMax = 1
  DirectOnly = FALSE
  MeasureLambda = TRUE
  StallExit = FALSE
  PutMayFail = TRUE
  WarmPool = TRUE
  Warm = {}
  LambdaKnown = {s1}
  Resumable = {}
SPECIFICATION Spec
INVARIANTS OneHand DispatchConsistent DrainedIsFinal NoSilentDebt ParkedSettled AccountedFor
