SPECIFICATION Spec
CONSTANTS
  None = None
  Subs = {s1, s2}
  MaxGen = 1
  Updated = {}
  Deleted = {s1}
  Faults = {}
  MaxFaults = 0
INVARIANT GoneIsRemoved
CHECK_DEADLOCK FALSE
