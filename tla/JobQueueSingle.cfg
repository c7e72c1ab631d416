CONSTANTS
  p1 = p1
  p2 = p2
  p3 = p3
  t1 = t1
  t2 = t2
  t3 = t3
  j1 = j1
  j2 = j2
  Pid = {p1, p2, p3}
  Task = {t1, t2, t3}
  Job = {j1, j2}
  NoPid = NoPid
  NoJob = NoJob
  NoRow = NoRow
  Concurrency = 2
  MaxRetries = 2
  EnableScheduledJob = TRUE
  Modes = {"now", "delayed"}
  Api = {"cancel"}
  Env = {"crash", "expire", "loopFail"}
  RunCap = 6
  LateCap = 0
SPECIFICATION Spec
SYMMETRY Symm
INVARIANTS NoOverlap RunBound
PROPERTIES AtLeastOnce RetryMonotone LedgerSpec
CHECK_DEADLOCK FALSE
