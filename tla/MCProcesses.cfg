SPECIFICATION Spec
CONSTANTS
  None = None
  Parts = {"webhook", "mtping", "apiserver", "jobsink", "authproxy", "clients", "backoff",
           "servers", "filters", "graph", "keys", "routes", "keystore", "channels",
           "adapters", "senders", "tracking", "policies", "certificates",
           "configs", "sources", "types"}
  AdmittedKinds <- MCKinds
  PingKeys = {k1}
  Minute = 3
  AfterSecond = 1
  MaxPingChanges = 3
  Watches = {w1, w2}
  MaxObjectChanges = 2
  JobEvents <- MCJobEvents
  Requests = {r1, r2}
  MaxPosts = 4
  MaxJobFaults = 1
  PolicyNames = {1, 2}
  PolicyVariants <- MCPolicyVariants
  Senders <- MCSenders
  Namespace = "ns"
  Calls = {c1}
  MaxPolicyChanges = 2
  Subscribers = {u1, u2}
  TriggerNames = {t1, t2}
  MaxCertChanges = 4
  MaxDuration = 127
  Day = 10
  Second = 3
  BackoffPeriods = {0, 1, 40, 127, 128, 400}
  RetryAfters <- MCRetryAfters
  MaxAttempts = 8
  MaxOpen = 1
  MaxServerChanges = 2
  FilterSpecs <- MCFilterSpecs
  FilterEvents <- MCFilterEvents
  FilterCalls = {f1, f2}
  MaxSwaps = 2
  Worlds <- MCWorlds
  Listings <- MCListings
  Orders <- MCOrders
  Variable = Variable
  Brace = Brace
  a = a
  ab = ab
  other = other
  Resources = {a, ab, other}
  NamePrefixes <- MCNamePrefixes
  Faults = {"write", "delete"}
  MaxKeyFaults = 2
  MaxReplicas = 2
  MaxScalings = 2
  MaxMoves = 1
  MaxFaults = 1
  MaxDisturbances = 2
  KeyFiles <- MCKeyFiles
  KeyFileOrder <- MCKeyFileOrder
  MaxSecretWrites = 2
  MaxRestarts = 1
  MaxLostEvents = 1
  Channels = {h1, h2}
  SubscriberLists = {l1, l2}
  MaxChannelChanges = 3
  MaxDispatchers = 2
  Levels = {"info", "debug"}
  DefaultLevel = "info"
  MaxPolls = 2
  MaxCMChanges = 2
  MaxStarts = 2
  Sends = {s1, s2}
  Lifetimes = {2, 3, 6}
  Buffer = 3
  MaxDispatch = 2
  MaxTokenFaults = 1
  ViaChannel = {v1}
  Directly = {v2}
  DeliverySpecs <- MCDeliverySpecs
  OwnDelivery <- MCOwnDelivery
  MaxTrackChanges = 1
  MaxInformerFaults = 1
  Protected = {x1, x2}
  EventPolicyNames = {p1}
  PolicyTargets <- MCPolicyTargets
  MaxPolicyEvents = 3
  MaxEncryptionChanges = 4
  MaxCertificateEnds = 2
  ConfigData <- MCConfigData
  MaxConfigChanges = 2
  MaxKills = 1
  SourceCRDs = {d1}
  SourceVersions = {1, 2}
  Replicas = {r1, r2}
  MaxCRDChanges = 2
  MaxControllerFaults = 2
  TypedEvents <- MCTypedEvents
  Goroutines = {g1, g2}
  MaxTypeFaults = 2
  MaxTyped = 3
INVARIANTS
  AdmittedIsStable ProcessesFollow AnswersAreRight StartsAndStops
  EventsInOrder AcceptedIsMounted DecidesWithNewPolicies TokensAreValid
  PoliciesAreKnown EventsAreRegistered
PROPERTIES
  FrozenStays KeysAreKept CleanupKeepsRoutes ReadyWhenServed PartsComeToRest
