SPECIFICATION FairSpec
CONSTANTS
  Triggers = {t1}
  Types = {"a", "b"}
  Specs <- MCSpecs
  MaxChanges = 2
  None = None
  DefaultTTL = 2
  TTLs <- MCTTLs
  MaxInt32 = 2
  Sinks = {"sink", "broker"}
  Retry = 1
  MaxEvents = 1
  MaxFaults = 1
INVARIANTS
  TTLIsSpent
  MapIsTrue
PROPERTIES
  LoopsEnd
CHECK_DEADLOCK FALSE
