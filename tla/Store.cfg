CONSTANTS
  a = a
  b = b
  c = c
  Chunk = {a, b, c}
  Size <- MCSize
  FlushEvery = 2
  MaxLives = 4
  MaxStoreFails = 2
  MaxClears = 1
SPECIFICATION StoreSpec
INVARIANTS ReadsBack FlushedKept
