SPECIFICATION Spec
CONSTANTS
  ReqIds = {id1, id2, id3}
  Customers = {"c1"}
  Keys = {k1, k2, k3}
  Bodies = {"small", "large"}
  Kinds <- VmAndIp
  Plan <- SmallAndLarge
  Effective <- TwoVms
  Limit <- Ample
  BatchSize = 2
  None = None
  Workers = {w1, w2}
  Sweepers = {}
  TTL = 1
  MaxExtensions = 0
  Wall = 2
  MaxActive = 0
  IdemKey <- Apart
  RedisConfigured = FALSE
  Calls = {"create", "cancel"}
  Horizon = 0
  ExtendBound = 1
INVARIANTS
  HeldWithinCapacity
SYMMETRY IdsWorkersAndKeys
