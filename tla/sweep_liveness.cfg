SPECIFICATION FairSpec
CONSTANTS
  ReqIds = {id1, id2}
  Customers = {"c1"}
  Keys = {k1, k2}
  Bodies = {"small"}
  Kinds <- VmAndIp
  Plan <- Small
  Effective <- ThreeVms
  Limit <- Ample
  BatchSize = 1
  None = None
  Workers = {w1}
  Sweepers = {s1, s2}
  TTL = 1
  MaxExtensions = 0
  Wall = 2
  MaxActive = 0
  IdemKey <- Apart
  RedisConfigured = FALSE
  Calls = {"create"}
  Horizon = 0
  ExtendBound = 1
PROPERTIES
  ReservationsEnd
