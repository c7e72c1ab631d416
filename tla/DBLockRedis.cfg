SPECIFICATION FairSpec
CONSTANTS
  p1 = p1
  p2 = p2
  c1 = c1
  c2 = c2
  c3 = c3
  c4 = c4
  Proc = {p1, p2}
  Caller = {c1, c2, c3, c4}
  Home <- TwoPairs
  Guarded = {}
  Free = Free
  Orphan = Orphan
  Adapter = "redis"
  Env = {"crash", "storeFail", "resend", "slow", "leak"}
  Sweeps = 0
INVARIANTS TypeOK LiveExclusion
PROPERTIES EntryKept MutexSpec Served
