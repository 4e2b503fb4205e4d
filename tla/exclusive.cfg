SPECIFICATION ExclusiveSpec
CONSTANTS
  ReqIds = {id1, id2}
  Customers = {"c1"}
  Keys = {k1, k2}
  Bodies = {"small", "large"}
  Kinds <- VmAndIp
  Plan <- SmallAndLarge
  Effective <- ThreeVms
  Limit <- Ample
  BatchSize = 2
  None = None
  Workers = {w1, w2}
  Sweepers = {s1}
  TTL = 1
  MaxExtensions = 0
  Wall = 2
  MaxActive = 0
  IdemKey <- Apart
  RedisConfigured = FALSE
  Calls = {"create", "confirm", "cancel"}
  Horizon = 0
  ExtendBound = 1
INVARIANTS
  CountersMatchHolds
PROPERTIES
  ImplementsLedger
SYMMETRY IdsWorkersAndKeys
