SPECIFICATION Spec
CONSTANTS
  ReqIds = {id1}
  Customers = {"c1"}
  Keys = {k1}
  Bodies = {"large"}
  Kinds <- VmAndIp
  Plan <- Large
  Effective <- ThreeVms
  Limit <- Ample
  BatchSize = 2
  None = None
  Workers = {w1, w2}
  Sweepers = {}
  TTL = 1
  MaxExtensions = 2
  Wall = 3
  MaxActive = 0
  IdemKey <- Apart
  RedisConfigured = FALSE
  Calls = {"create", "extend"}
  Horizon = 0
  ExtendBound = 3
PROPERTIES
  ExpiryNeverMovesBack
