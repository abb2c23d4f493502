SPECIFICATION FairSpec
CONSTANTS
  None = None
  Subs = {s1, s2}
  MaxGen = 2
  Updated = {s1}
  Deleted = {s1}
  Faults = {"patch", "status", "resolve", "finalizer", "restart", "dispatcher"}
  MaxFaults = 1
INVARIANTS
  SpecIsSet
  FinalizerComesFirst
  QuietIsTrue
PROPERTIES
  EventuallyServed
CHECK_DEADLOCK FALSE
