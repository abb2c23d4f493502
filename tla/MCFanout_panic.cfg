SPECIFICATION Spec
CONSTANTS
  e1 = e1
  s1 = s1
  s2 = s2
  Events = {e1}
  Subs = {s1, s2}
  Config <- MCConfig
  Async = FALSE
  MaxRestarts = 1
INVARIANT FailedIsDeadLettered
