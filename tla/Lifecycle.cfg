SPECIFICATION LiveSpec
CONSTANTS
  c1 = c1
  u1 = u1
  Comps = {c1}
  Callers = {u1}
  Dog = dog
  None = none
  EventCap = 3
INVARIANTS TypeOK ZeroDowntime NoStray
PROPERTIES Healed
CHECK_DEADLOCK FALSE
