------------------------------ MODULE Admission -------------------------------
(***************************************************************************)
(* The versions of EventType and PingSource.  An object is stored in one   *)
(* version (v1beta2 for EventType, v1 for PingSource); a client that uses  *)
(* another version reads and writes through the conversion webhook, which  *)
(* converts to its hub version and from there to the target, and defaults  *)
(* the result.                                                             *)
(*                                                                         *)
(* The attributes of a v1beta3 EventType are a function from their names   *)
(* to their values ("" for none).  A source or schema is None, "empty"     *)
(* (the empty URL, which prints as "") or a URL.                           *)
(***************************************************************************)
EXTENDS ResourceAdmission

Value(url) == IF url \in {None, "empty"} THEN "" ELSE url
ParseURL(value) == IF value = "" THEN None ELSE value

-----------------------------------------------------------------------------
(* EventType v1beta1 and v1beta2 have the same fields.                     *)

EventTypeBase == [type |-> "t", source |-> None, schema |-> None, schemaData |-> "",
                  broker |-> "", ref |-> None, description |-> ""]

EventTypeObjects ==
    Vary(EventTypeBase, "type", {"", "t", "t2"}) \cup Vary(EventTypeBase, "description", {"d"})
    \cup {[EventTypeBase EXCEPT !.source = s, !.schema = x, !.schemaData = y] :
            s \in {None, "empty", "src"}, x \in {None, "xsd"}, y \in {"", "inline"}}
    \cup {[EventTypeBase EXCEPT !.broker = b, !.ref = k] :
            b \in {"", "b"}, k \in {None, Ref("r", ""), Ref("r", "other")}}

EventTypeSetDefaults(o, c) == [o EXCEPT !.ref = IF @ = None THEN @ ELSE KReferenceSetDefaults(@)]

EventTypeV1beta1Validate(o) == o.type # "" /\ o.source # "empty" /\ o.schema # "empty"
EventTypeValidate(r, o, c) == o.type # ""

\* v1beta1 ConvertTo v1beta2: the Broker becomes the reference, if there is none.
V1beta1ToV1beta2(o) ==
    [o EXCEPT !.broker = "",
              !.ref = IF @ = None /\ o.broker # "" THEN Ref(o.broker, "") ELSE @]

\* v1beta1 ConvertFrom v1beta2.
V1beta2ToV1beta1(o) == [o EXCEPT !.broker = ""]

-----------------------------------------------------------------------------
(* EventType v1beta3.                                                      *)

EventTypeV1beta3Objects ==
    {[ref |-> k, description |-> "", attributes |-> a] : k \in {None, Ref("r", "")},
        a \in {[n \in {"type", "source", "specversion", "id"} |-> IF n = "type" THEN "t" ELSE ""],
               [n \in {"type", "source", "schemadata"} |-> IF n = "type" THEN "t" ELSE "src"],
               [n \in {"source"} |-> "src"]}}

V1beta3SetDefaults(o) == [o EXCEPT !.ref = IF @ = None THEN @ ELSE KReferenceSetDefaults(@)]

\* v1beta2 ConvertTo v1beta3.  The reference is copied before a Broker is made
\* into one, and the inline schema has no place.
V1beta2ToV1beta3(o) ==
    [ref |-> o.ref, description |-> o.description,
     attributes |->
       [n \in {"specversion", "id", "type", "source"} \cup
              (IF o.schema = None THEN {} ELSE {"schemadata"}) |->
          CASE n = "type"       -> o.type
            [] n = "source"     -> Value(o.source)
            [] n = "schemadata" -> Value(o.schema)
            [] OTHER            -> ""]]

\* v1beta2 ConvertFrom v1beta3: only three attributes have a field.
V1beta3ToV1beta2(o) ==
    LET At(n) == IF n \in DOMAIN o.attributes THEN o.attributes[n] ELSE "" IN
    [EventTypeBase EXCEPT !.ref = o.ref, !.description = o.description, !.type = At("type"),
                          !.source = ParseURL(At("source")), !.schema = ParseURL(At("schemadata"))]

-----------------------------------------------------------------------------
(* The conversion webhook, with v1beta1 as the hub of EventType.           *)

EventTypeLoad(version, o) ==
    CASE version = "v1beta1" -> EventTypeSetDefaults(V1beta2ToV1beta1(o), None)
      [] version = "v1beta2" -> o
      [] version = "v1beta3" ->
           V1beta3SetDefaults(V1beta2ToV1beta3(V1beta1ToV1beta2(V1beta2ToV1beta1(o))))

EventTypeStore(version, o) ==
    CASE version = "v1beta1" -> EventTypeSetDefaults(V1beta1ToV1beta2(o), None)
      [] version = "v1beta2" -> o
      [] version = "v1beta3" ->
           EventTypeSetDefaults(V1beta1ToV1beta2(V1beta2ToV1beta1(V1beta3ToV1beta2(o))), None)

\* What an EventType announces, in the terms every version has.
Announced(version, o) ==
    IF version = "v1beta3"
    THEN LET At(n) == IF n \in DOMAIN o.attributes THEN o.attributes[n] ELSE ""
         IN  <<At("type"), At("source"), At("schemadata"), o.ref, o.description>>
    ELSE <<o.type, Value(o.source), Value(o.schema), o.ref, o.description>>

-----------------------------------------------------------------------------
(* PingSource: v1beta2 and v1 have the same fields.                        *)

\* Takes the encoded payload for the plain one.
PingSourceV1beta2ToV1NoBase64(o) ==
    [schedule |-> o.schedule, timezone |-> o.timezone, json |-> o.json,
     data |-> o.base64, base64 |-> None, sink |-> o.sink]

PingSourceV1beta2ToV1(o) ==
    [schedule |-> o.schedule, timezone |-> o.timezone, json |-> o.json,
     data |-> o.data, base64 |-> o.base64, sink |-> o.sink]

PingSourceV1ToV1beta2(o) ==
    [schedule |-> o.schedule, timezone |-> o.timezone, json |-> o.json,
     data |-> o.data, base64 |-> o.base64, sink |-> o.sink]

-----------------------------------------------------------------------------
(***************************************************************************)
(* The admission webhook over the life of one object: users create, change *)
(* and delete it through any served version, controllers write its         *)
(* metadata and its status, and an administrator changes the configuration *)
(* the webhook reads.  Every write is defaulted and then validated against *)
(* the stored object, the writes of controllers included.                  *)
(***************************************************************************)

CONSTANT AdmittedKinds

VARIABLES
    kind,    \* the kind of the object
    stored,  \* the object in the API server, in its storage version, or None
    cfg,     \* the configuration the webhook has
    at,      \* the configuration under which the object was last written
    user     \* who wrote it last

vars == <<kind, stored, cfg, at, user>>

-----------------------------------------------------------------------------
(* ourTypes: the operations of each kind.                                  *)

SetDefaults(k, o, c) ==
    CASE k = "Broker"          -> BrokerSetDefaults(o, c)
      [] k = "Trigger"         -> TriggerSetDefaults(o, c)
      [] k = "EventPolicy"     -> EventPolicySetDefaults(o, c)
      [] k = "RequestReply"    -> RequestReplySetDefaults(o, c)
      [] k = "EventType"       -> EventTypeSetDefaults(o, c)
      [] k = "Channel"         -> ChannelSetDefaults(o, c)
      [] k = "InMemoryChannel" -> InMemoryChannelSetDefaults(o, c)
      [] k = "Subscription"    -> SubscriptionSetDefaults(o, c)
      [] k = "Sequence"        -> SequenceSetDefaults(o, c)
      [] k = "Parallel"        -> ParallelSetDefaults(o, c)
      [] k = "ApiServerSource" -> ApiServerSourceSetDefaults(o, c)
      [] k = "ContainerSource" -> ContainerSourceSetDefaults(o, c)
      [] k = "PingSource"      -> PingSourceSetDefaults(o, c)
      [] k = "SinkBinding"     -> SinkBindingSetDefaults(o, c)
      [] k = "JobSink"         -> JobSinkSetDefaults(o, c)
      [] OTHER                 -> o

Validate(k, r, o, c) ==
    CASE k = "Broker"            -> BrokerValidate(r, o, c)
      [] k = "Trigger"           -> TriggerValidate(r, o, c)
      [] k = "EventPolicy"       -> EventPolicyValidate(r, o, c)
      [] k = "EventTransform"    -> EventTransformValidate(r, o, c)
      [] k = "RequestReply"      -> RequestReplyValidate(r, o, c)
      [] k = "EventType"         -> EventTypeValidate(r, o, c)
      [] k = "Channel"           -> ChannelValidate(r, o, c)
      [] k = "InMemoryChannel"   -> InMemoryChannelValidate(r, o, c)
      [] k = "Subscription"      -> SubscriptionValidate(r, o, c)
      [] k = "Sequence"          -> SequenceValidate(r, o, c)
      [] k = "Parallel"          -> ParallelValidate(r, o, c)
      [] k = "ApiServerSource"   -> ApiServerSourceValidate(r, o, c)
      [] k = "ContainerSource"   -> ContainerSourceValidate(r, o, c)
      [] k = "PingSource"        -> PingSourceValidate(r, o, c)
      [] k = "SinkBinding"       -> SinkBindingValidate(r, o, c)
      [] k = "IntegrationSource" -> IntegrationSourceValidate(r, o, c)
      [] k = "IntegrationSink"   -> IntegrationSinkValidate(r, o, c)
      [] k = "JobSink"           -> JobSinkValidate(r, o, c)

Objects(k) ==
    CASE k = "Broker"            -> BrokerObjects
      [] k = "Trigger"           -> TriggerObjects
      [] k = "EventPolicy"       -> EventPolicyObjects
      [] k = "EventTransform"    -> EventTransformObjects
      [] k = "RequestReply"      -> RequestReplyObjects
      [] k = "EventType"         -> EventTypeObjects
      [] k = "Channel"           -> ChannelObjects
      [] k = "InMemoryChannel"   -> InMemoryChannelObjects
      [] k = "Subscription"      -> SubscriptionObjects
      [] k = "Sequence"          -> SequenceObjects
      [] k = "Parallel"          -> ParallelObjects
      [] k = "ApiServerSource"   -> ApiServerSourceObjects
      [] k = "ContainerSource"   -> ContainerSourceObjects
      [] k = "PingSource"        -> PingSourceObjects
      [] k = "SinkBinding"       -> SinkBindingObjects
      [] k = "IntegrationSource" -> IntegrationSourceObjects
      [] k = "IntegrationSink"   -> IntegrationSinkObjects
      [] k = "JobSink"           -> JobSinkObjects

-----------------------------------------------------------------------------
(* The configurations an administrator installs, as far as a kind reads    *)
(* them.                                                                   *)

Config == [features |-> IsEnabled(newDefaults), br |-> [ns |-> None, cluster |-> Cluster],
           ch |-> [ns |-> None, cluster |-> "InMemoryChannel"], dataMaxSize |-> -1,
           replyTimeout |-> "positive"]

Configs(k) ==
    {[Config EXCEPT !.features = IsEnabled(NewFlagsConfigFromMap(data))] : data \in FlagMaps}
    \cup CASE k = "Broker"       -> Vary(Config, "br", BrokerDefaults)
           [] k \in {"Channel", "Sequence", "Parallel"} -> Vary(Config, "ch", ChannelDefaults)
           [] k = "PingSource"   -> Vary(Config, "dataMaxSize", {-7, 4})
           [] k = "RequestReply" -> Vary(Config, "replyTimeout", {"negative"})
           [] OTHER              -> {}

-----------------------------------------------------------------------------
(* One request.  The result is what the API server stores, or None when    *)
(* the request is refused.  EventType v1beta1 and PingSource v1beta2 have  *)
(* admission of their own before they are converted; an EventType v1beta3  *)
(* is not among the webhook's types and is admitted as the v1beta2 it is   *)
(* converted to.                                                           *)

Versions(k) == CASE k = "EventType"  -> {"v1beta1", "v1beta2", "v1beta3"}
                 [] k = "PingSource" -> {"v1", "v1beta2"}
                 [] OTHER            -> {"v1"}

Written(k, v) == IF k = "EventType" /\ v = "v1beta3" THEN EventTypeV1beta3Objects ELSE Objects(k)

Admit(k, v, r, o, c) ==
    CASE k = "EventType" /\ v = "v1beta1" ->
           LET d == EventTypeSetDefaults(o, c)
           IN  IF EventTypeV1beta1Validate(d) THEN EventTypeStore(v, d) ELSE None
      [] k = "EventType" /\ v = "v1beta3" ->
           LET d == EventTypeSetDefaults(EventTypeStore(v, o), c)
           IN  IF EventTypeValidate(r, d, c) THEN d ELSE None
      [] k = "PingSource" /\ v = "v1beta2" ->
           LET d == PingSourceSetDefaults(o, c)
           IN  IF PingSourceValidate(r, d, c) THEN PingSourceV1beta2ToV1(d) ELSE None
      [] OTHER ->
           LET d == SetDefaults(k, o, c)
           IN  IF Validate(k, r, d, c) THEN d ELSE None

\* What a status update through the controllers' client leaves of the spec:
\* the API server takes the stored object in the version of the request and
\* stores it again.  The controllers use v1beta3 for EventType.
AfterStatusUpdate(k, o) ==
    IF k = "EventType" THEN EventTypeStore("v1beta3", EventTypeLoad("v1beta3", o)) ELSE o

ByController(o) == [old |-> o, user |-> "eventing-controller", granted |-> TRUE]

-----------------------------------------------------------------------------
Init ==
    /\ kind \in AdmittedKinds
    /\ stored = None
    /\ cfg \in Configs(kind)
    /\ at = cfg
    /\ user = None

\* A user or the eventing-controller creates the object or replaces it.
Write(v, who, granted) ==
    \E o \in Written(kind, v) :
        LET d == Admit(kind, v, [old |-> stored, user |-> who, granted |-> granted], o, cfg)
        IN  /\ d # None
            /\ stored' = d
            /\ at' = cfg
            /\ user' = who
            /\ UNCHANGED <<kind, cfg>>

\* A controller patches the metadata: a finalizer, a label.
WriteMetadata ==
    /\ stored # None
    /\ LET d == Admit(kind, "v1", ByController(stored), stored, cfg)
       IN  /\ d # None
           /\ stored' = d
    /\ at' = cfg
    /\ user' = "eventing-controller"
    /\ UNCHANGED <<kind, cfg>>

\* A controller writes the status.  The request is validated like any other.
WriteStatus ==
    /\ stored # None
    /\ Admit(kind, "v1", ByController(stored), stored, cfg) # None
    /\ stored' = AfterStatusUpdate(kind, stored)
    /\ user' = "eventing-controller"
    /\ UNCHANGED <<kind, cfg, at>>

Delete ==
    /\ stored # None
    /\ stored' = None
    /\ user' = None
    /\ at' = cfg
    /\ UNCHANGED <<kind, cfg>>

Reconfigure ==
    /\ cfg' \in Configs(kind) \ {cfg}
    /\ UNCHANGED <<kind, stored, at, user>>

Next ==
    \/ \E v \in Versions(kind), who \in {"user", "eventing-controller"}, granted \in BOOLEAN :
         Write(v, who, granted)
    \/ WriteMetadata
    \/ WriteStatus
    \/ Delete
    \/ Reconfigure

Spec == Init /\ [][Next]_vars

-----------------------------------------------------------------------------
(* Properties.                                                             *)

\* The configuration still allows what it allowed when the object was written:
\* no feature was turned off, no limit lowered, no namespace closed.
StillAllows ==
    /\ at.features \subseteq cfg.features
    /\ cfg.dataMaxSize >= 0 => 0 <= at.dataMaxSize /\ at.dataMaxSize <= cfg.dataMaxSize
    /\ determineNamespaceAllowance(cfg.br) => determineNamespaceAllowance(at.br)

\* A Broker admitted while no configuration was to be had.  Its configuration
\* is immutable, so once there is a default every write of it is refused.
Unconfigured == kind = "Broker" /\ stored.config = None

\* Controllers can go on writing the metadata and the status of what was
\* admitted: a later write that changes nothing passes the webhook, whatever
\* the administrator makes of the defaults, as long as the features the object
\* relies on stay.  (Validation runs on every update and compares the defaulted
\* object with the stored one.)
Readmitted ==
    stored # None /\ ~Unconfigured /\ StillAllows =>
        Admit(kind, "v1", ByController(stored), stored, cfg) # None

\* What a reconciler takes for the identity of the object.
Frozen(o) ==
    CASE kind = "Broker"       -> <<o.class, o.config>>
      [] kind = "Trigger"      -> <<o.broker>>
      [] kind = "Channel"      -> <<o.template>>
      [] kind = "Subscription" -> <<o.channel>>
      [] OTHER                 -> <<>>

\* What no step may do to it.
KeepsFrozen == stored # None /\ stored' # None => Frozen(stored') = Frozen(stored)

\* Defaulting is done with the first write: defaulting the stored object again
\* under the same configuration changes nothing.  (But for the delivery of a
\* Broker, which the second write looks up by the kind of its configuration.)
DefaultsSettle ==
    stored # None =>
        LET again == SetDefaults(kind, stored, at)
        IN  IF kind = "Broker" THEN [again EXCEPT !.delivery = stored.delivery] = stored
            ELSE again = stored

Resolved(d) == IF d = None THEN TRUE ELSE IF d.ref = None THEN TRUE ELSE d.ref.ns # ""

\* What is stored is what the reconcilers and the data plane take for granted:
\* a class to select the Broker's controller by, the label a Broker's Triggers
\* are listed by, one way to name a policy's senders, namespaces in references
\* that are resolved, a template for the channels to create, a schedule cron
\* accepts, one connector, one execution mode per container of a Job.
Usable ==
    stored # None =>
        CASE kind = "Broker" -> stored.class \in Classes
          [] kind = "Trigger" ->
               /\ stored.broker # "" => stored.label = stored.broker
               /\ stored.brokerRef # None /\ TriggerLinks(at) => stored.label = stored.brokerRef.name
               /\ Resolved(stored.subscriber)
          [] kind = "EventPolicy" ->
               IF stored.from.ref = None THEN stored.from.sub \in {"*", "name", "prefix*"}
               ELSE stored.from.ref.ns # ""
          [] kind = "RequestReply" ->
               stored.timeout = "positive" /\ stored.label = stored.brokerRef.name
          [] kind = "Subscription" -> Resolved(stored.subscriber) /\ Resolved(stored.reply)
          [] kind = "Channel" -> stored.template # None
          [] kind = "InMemoryChannel" -> "none" \notin stored.subscribers
          [] kind = "Sequence" ->
               /\ stored.template # None
               /\ \A i \in DOMAIN stored.steps : Resolved(stored.steps[i].destination)
          [] kind = "Parallel" ->
               /\ stored.template # None
               /\ \A i \in DOMAIN stored.branches : \A f \in {"filter", "subscriber", "reply"} :
                    Resolved(stored.branches[i][f])
          [] kind = "PingSource" ->
               stored.schedule \in {"cron", "@daily"} /\ stored.timezone # "junk"
          [] kind = "SinkBinding" -> stored.subject.ns = "own" /\ Resolved(stored.sink)
          [] kind \in {"IntegrationSource", "IntegrationSink"} -> \E t \in stored.types : stored.types = {t}
          [] kind = "JobSink" ->
               \A m \in {stored.job.containers[i] : i \in DOMAIN stored.job.containers}
                        \cup {stored.job.inits[i] : i \in DOMAIN stored.job.inits} : Len(m) = 1
          [] OTHER -> TRUE

\* Clients of all versions see the same object, and writing it back through
\* any version keeps it: all of a PingSource, and of an EventType its type,
\* source, schema, reference and description.
VersionsAgree ==
    stored # None =>
        CASE kind = "PingSource" -> PingSourceV1beta2ToV1(PingSourceV1ToV1beta2(stored)) = stored
          [] kind = "EventType" ->
               \A v \in Versions(kind) :
                 /\ Announced(v, EventTypeLoad(v, stored)) = Announced("v1beta2", stored)
                 /\ Announced("v1beta2", EventTypeStore(v, EventTypeLoad(v, stored)))
                       = Announced("v1beta2", stored)
          [] OTHER -> TRUE

\* A change of an InMemoryChannel's subscribers is the eventing-controller's.
KeepsSubscribers ==
    kind = "InMemoryChannel" /\ stored # None /\ stored' # None
      /\ stored'.subscribers # stored.subscribers => user' = "eventing-controller"

\* A status update keeps the inline schema of an EventType.
KeepsSchemaData ==
    kind = "EventType" /\ WriteStatus => stored'.schemaData = stored.schemaData

\* "The contents are not validated or manipulated by the system": the inline
\* schema of an EventType stays as the user wrote it when a controller writes
\* the status.
SchemaDataIsKept == [][KeepsSchemaData]_vars

===============================================================================
