SPECIFICATION FairSpec
CONSTANTS
  Instances = {i1, i2}
  Backends <- FourSessions
  PoolSize = 2
  MaxDepth = 2
  None = None
INVARIANTS
  TypeOK
  OneLiveSweeper
PROPERTIES
  SweepsEnd
  SweepsGoOn
