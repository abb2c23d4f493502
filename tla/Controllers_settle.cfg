SPECIFICATION Spec
CONSTANTS
  None = None
  Foreign = Foreign
  KindsChecked = {"Broker", "Trigger", "Channel", "InMemoryChannel", "Sequence", "Parallel",
                  "PingSource", "ApiServerSource", "ContainerSource", "SinkBinding", "JobSink",
                  "IntegrationSource", "IntegrationSink", "EventTransform", "RequestReply",
                  "EventType", "EventPolicy", "SourceDuck", "NamespaceSugar", "TriggerSugar"}
  MaxDisturbances = 1
  MaxLags = 1
INVARIANTS
  ComesToRest
  StatusIsTrue
  ChildrenAreProvided
  Released
PROPERTIES
  DeletionCreatesNothing
CHECK_DEADLOCK FALSE
