CONSTANTS
  p1 = p1
  p2 = p2
  t1 = t1
  t2 = t2
  j1 = j1
  Pid = {p1, p2}
  Task = {t1, t2}
  Job = {j1}
  NoPid = NoPid
  NoJob = NoJob
  NoRow = NoRow
  Concurrency = 1
  MaxRetries = 2
  EnableScheduledJob = FALSE
  Modes = {"now", "volatile"}
  Api = {"get", "cancel", "restore", "delete"}
  Env = {"overlap", "expire", "crash", "storeFail"}
  RunCap = 1
  LateCap = 0
SPECIFICATION Spec
SYMMETRY Symm
INVARIANTS TypeOK SlotsUsed RetryBounded
PROPERTIES ClaimRespected
CHECK_DEADLOCK FALSE
