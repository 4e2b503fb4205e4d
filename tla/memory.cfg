SPECIFICATION MemorySpec
CONSTANTS
  ReqIds = {id1, id2, id3}
  Customers = {"c1", "c2"}
  Keys = {k1, k2}
  Bodies = {"one", "two"}
  Kinds <- VmAndIp
  PoolId <- VmFirst
  Plan <- VmBodies
  Effective <- FourVms
  Limit <- Tight
  BatchSize = 2
  None = None
  TTL = 1
  MaxExtensions = 1
  Wall = 2
  MaxActive = 2
  IdemKey <- Apart
  MaxTime = 2
INVARIANTS
  CountersCoverHolds
SYMMETRY IdsAndKeys
CHECK_DEADLOCK FALSE
