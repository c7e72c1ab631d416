SPECIFICATION LiveSpec
CONSTANTS
  c1 = c1
  u1 = u1
  Comps = {c1}
  Callers = {u1}
  Dog = dog
  None = none
  EventCap = 2
PROPERTIES Repaired
CHECK_DEADLOCK FALSE
