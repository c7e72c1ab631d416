SPECIFICATION FairSpec
CONSTANTS
  p1 = p1
  p2 = p2
  c1 = c1
  c2 = c2
  c3 = c3
  c4 = c4
  Proc = {p1, p2}
  Caller = {c1, c2, c3}
  Home <- TwoProcs
  Guarded = {c3}
  Free = Free
  Orphan = Orphan
  Adapter = "sqlite"
  Env = {"crash", "storeFail", "slow", "leak", "overrun"}
  Sweeps = 1
INVARIANTS MarkAnswered
PROPERTIES Served
