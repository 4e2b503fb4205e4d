SPECIFICATION TxSpec
CONSTANTS
  ReqIds = {id1, id2}
  Customers = {"c1"}
  Keys = {k1, k2}
  Bodies = {"small", "large"}
  Kinds <- VmAndIp
  Plan <- SmallAndLarge
  Effective <- ThreeVms
  Limit <- Ample
  BatchSize = 1
  None = None
  Procs = {p1, p2, p3}
  PoolOrder <- VmFirst
INVARIANTS
  NoDeadlock
  NeverOversold
PROPERTIES
  TransactionsImplementRequestLife
SYMMETRY Everyone
CHECK_DEADLOCK FALSE
