CONSTANTS
  p1 = p1
  p2 = p2
  t1 = t1
  t2 = t2
  t3 = t3
  j1 = j1
  j2 = j2
  Pid = {p1, p2}
  Task = {t1, t2, t3}
  Job = {j1, j2}
  NoPid = NoPid
  NoJob = NoJob
  NoRow = NoRow
  Concurrency = 1
  MaxRetries = 2
  EnableScheduledJob = FALSE
  Modes = {"now"}
  Api = {}
  Env = {"overlap", "expire", "crash", "earlyPush"}
  RunCap = 1
  LateCap = 0
SPECIFICATION Spec
SYMMETRY Symm
INVARIANTS ClaimCarried NoOrphan
PROPERTIES ClaimRespected
CHECK_DEADLOCK FALSE
