SPECIFICATION Spec
CONSTANTS
  p1 = p1
  p2 = p2
  c1 = c1
  c2 = c2
  c3 = c3
  c4 = c4
  Proc = {p1}
  Caller = {c1, c2, c3}
  Home <- OneProc
  Guarded = {}
  Free = Free
  Orphan = Orphan
  Adapter = "sqlite"
  Env = {"leak"}
  Sweeps = 1
INVARIANTS
  LiveExclusion
