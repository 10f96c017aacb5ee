CONSTANTS
  p1 = p1
  p2 = p2
  Peer = {p1, p2}
  Thresholds = {1, 2}
  Latencies = {1}
  MaxPrepaid = 2
  MaxDebt = 2
  MaxAccept = 2
  MaxSpends = 4
  MaxConns = 2
  MaxLives = 2
  MaxFails = 1
SPECIFICATION Spec
SYMMETRY Symmetric
INVARIANT SurplusExact
PROPERTY DiskLearns
