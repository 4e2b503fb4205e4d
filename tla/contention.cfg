SPECIFICATION Spec
CONSTANTS
  ReqIds = {id1, id2}
  Customers = {"c1"}
  Keys = {k1, k2}
  Bodies = {"small", "large"}
  Kinds <- VmAndIp
  Plan <- SmallAndLarge
  Effective <- TwoVms
  Limit <- Ample
  BatchSize = 2
  None = None
  Workers = {w1, w2}
  Sweepers = {}
  TTL = 1
  MaxExtensions = 1
  Wall = 2
  MaxActive = 0
  IdemKey <- Apart
  RedisConfigured = TRUE
  Calls = {"create", "confirm", "cancel", "extend"}
  Horizon = 0
  ExtendBound = 1
INVARIANTS
  TypeOK
  CapacityNeverOversold
  NothingOvercounted
PROPERTIES
  ImplementsRequestLife
SYMMETRY IdsWorkersAndKeys
