SPECIFICATION HttpSpec
CONSTANTS
  ReqIds = {id1}
  Customers = {"c1"}
  Keys = {k1}
  Bodies = {"large", "huge"}
  Kinds <- VmAndIp
  Plan <- LargeAndHuge
  Effective <- ThreeVms
  Limit <- Ample
  BatchSize = 2
  None = None
  Workers = {w1, w2}
  Sweepers = {s1}
  TTL = 1
  MaxExtensions = 2
  Wall = 2
  MaxActive = 0
  IdemKey <- Apart
  RedisConfigured = FALSE
  Calls = {"create", "confirm", "cancel", "extend", "get"}
  Horizon = 1
  ExtendBound = 2
INVARIANTS
  HoldsFollowRequest
  RepliesAgree
  ConfirmedIsCompleted
  OutcomesExplained
  ConfirmationsCounted
  AuditFollowsRequest
  ExpiryFollowsExtensions
  ExpiredWasDue
PROPERTIES
  TerminalIsFinal
SYMMETRY IdsAndWorkers
