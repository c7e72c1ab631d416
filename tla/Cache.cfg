SPECIFICATION FairSpec
CONSTANTS
  w1 = w1
  w2 = w2
  t1 = t1
  t2 = t2
  Worker = {w1, w2}
  Sub = {"page"}
  Task = {t1, t2}
  None = None
  Life = 1
  MaxVersion = 1
  BusCap = 1
  DidCap = 3
  Faults = {"compute", "sql", "crash"}
INVARIANTS TypeOK OneFlight LifeKept Swept
PROPERTIES FreshInTheEnd
CHECK_DEADLOCK FALSE
