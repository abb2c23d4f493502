SPECIFICATION FairSpec
CONSTANTS
  r1 = r1
  r2 = r2
  r3 = r3
  e1 = e1
  e2 = e2
  i1 = i1
  i2 = i2
  k1 = k1
  None = None
  Requests = {r1, r2, r3}
  Events = {e1, e2}
  Ids = {i1, i2}
  EventOf <- MCEventOf
  IdOf <- MCIdOf
  ColonIds = {}
  Pods = {0}
  Keys = {k1}
  MaxHandlers = 2
INVARIANTS
  RightReply
  EntriesAreReleased
  WaitingIsReachable
PROPERTIES
  HandlersEnd
CHECK_DEADLOCK FALSE
