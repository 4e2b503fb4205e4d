SPECIFICATION FairSpec
CONSTANTS
  Customers = {c1}
  Readers = {r1, r2}
  Writers = {w1, w2}
  CacheTTL <- TwoTicks
  Lag = 1
  None = None
INVARIANTS
  StalenessBounded
PROPERTIES
  QuietCacheIsFresh
