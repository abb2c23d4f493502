-------------------------- MODULE ResourceAdmission ---------------------------
(***************************************************************************)
(* Defaults, validation and immutability of the kinds.  First the parts of *)
(* the custom resources that several kinds share: references and           *)
(* destinations (of the vendored knative.dev/pkg), delivery options, the   *)
(* filters of the subscriptions API, and the defaults an administrator     *)
(* configures.  Then the kinds in the order of their API groups: eventing, *)
(* messaging and flows, sources and sinks.                                 *)
(*                                                                         *)
(* A namespace is "" (not given), "own" (the object's) or "other"; a       *)
(* duration is one of the classes parsing tells apart.  A configuration is *)
(* a record with the enabled features, the Broker and Channel defaults,    *)
(* PingSource's data limit (negative: none) and RequestReply's default     *)
(* timeout.                                                                *)
(***************************************************************************)
EXTENDS Integers, Sequences, FiniteSets

CONSTANT None

Periods == {"unparsable", "negative", "zero", "positive"}

-----------------------------------------------------------------------------
(* KReference and Destination.  ok: kind, name and apiVersion are set.     *)

Ref(name, ns) == [name |-> name, ns |-> ns, ok |-> TRUE]

KReferenceSetDefaults(r) == IF r.ns = "" THEN [r EXCEPT !.ns = "own"] ELSE r

\* ownOnly: the caller passes the parent and does not allow other namespaces.
KReferenceValid(r, ownOnly) == r.ok /\ (ownOnly => r.ns \in {"", "own"})

DestinationSetDefaults(d) ==
    IF d = None THEN d
    ELSE IF d.ref = None THEN d
    ELSE [d EXCEPT !.ref = KReferenceSetDefaults(@)]

DestinationValid(d, ownOnly) ==
    IF d = None THEN TRUE
    ELSE IF d.ref = None THEN d.uri = "absolute"
    ELSE /\ d.uri # "absolute"
         /\ d.uri = None => KReferenceValid(d.ref, ownOnly)

NoDest == [ref |-> None, uri |-> None]
RefDest(ns) == [ref |-> Ref("svc", ns), uri |-> None]
UriDest == [ref |-> None, uri |-> "absolute"]

\* Destinations a user may write: the valid forms, and each way to be wrong.
Dests == {NoDest, RefDest(""), RefDest("other"), UriDest,
          [ref |-> None, uri |-> "relative"], [ref |-> Ref("svc", ""), uri |-> "absolute"],
          [ref |-> [Ref("svc", "") EXCEPT !.ok = FALSE], uri |-> None]}

-----------------------------------------------------------------------------
(* DeliverySpec.  rest: retry, backoffPolicy and format hold a value the   *)
(* validation knows.                                                       *)

NoDelivery == [deadLetterSink |-> None, timeout |-> None, backoffDelay |-> None,
               backoffMax |-> None, retryAfterMax |-> None, rest |-> TRUE]

DeliverySetDefaults(ds) ==
    IF ds = None THEN ds
    ELSE [ds EXCEPT !.deadLetterSink = DestinationSetDefaults(@)]

\* The features are read strictly: a field whose feature is off is refused.
DeliveryValid(ds, features, ownOnly) ==
    IF ds = None THEN TRUE
    ELSE /\ DestinationValid(ds.deadLetterSink, ownOnly)
         /\ ds.rest
         /\ ds.timeout # None => /\ "delivery-timeout" \in features
                                 /\ ds.timeout \in {"negative", "positive"}
         /\ ds.backoffDelay # "unparsable"
         /\ ds.backoffMax # None => /\ "delivery-backoff-max" \in features
                                    /\ ds.backoffMax = "positive"
         /\ ds.retryAfterMax # None => /\ "delivery-retryafter" \in features
                                       /\ ds.retryAfterMax \in {"zero", "positive"}

Deliveries ==
    {None, [NoDelivery EXCEPT !.rest = FALSE]}
    \cup {[NoDelivery EXCEPT !.deadLetterSink = d] : d \in Dests}
    \cup {[NoDelivery EXCEPT ![f] = p] :
            f \in {"timeout", "backoffDelay", "backoffMax", "retryAfterMax"}, p \in Periods}

-----------------------------------------------------------------------------
(* Filters of the subscriptions API: attribute dialects as the set of      *)
(* attribute names they mention, all/any as sequences, not as a filter.    *)

AnyFilter == [exact |-> {}, prefix |-> {}, suffix |-> {}, all |-> <<>>, any |-> <<>>,
              not |-> None, cesql |-> ""]

validAttributeName(a) == a # "Bad_Name"

hasMultipleDialects(f) ==
    Cardinality({d \in {"exact", "prefix", "suffix"} : f[d] # {}}
                \cup {d \in {"all", "any"} : f[d] # <<>>}
                \cup {d \in {"not"} : f.not # None}
                \cup {d \in {"cesql"} : f.cesql # ""}) > 1

RECURSIVE ValidateSubscriptionAPIFilter(_)
ValidateSubscriptionAPIFilter(f) ==
    IF f = None THEN TRUE
    ELSE /\ ~hasMultipleDialects(f)
         /\ \A a \in f.exact \cup f.prefix \cup f.suffix : validAttributeName(a)
         /\ \A i \in DOMAIN f.all : ValidateSubscriptionAPIFilter(f.all[i])
         /\ \A i \in DOMAIN f.any : ValidateSubscriptionAPIFilter(f.any[i])
         /\ ValidateSubscriptionAPIFilter(f.not)
         /\ f.cesql # "unparsable"

ValidateSubscriptionAPIFiltersList(fs) ==
    \A i \in DOMAIN fs : ValidateSubscriptionAPIFilter(fs[i])

ExactType == [AnyFilter EXCEPT !.exact = {"type"}]
BadName == [AnyFilter EXCEPT !.suffix = {"Bad_Name"}]
TwoDialects == [AnyFilter EXCEPT !.prefix = {"type"}, !.cesql = "parsable"]

FilterLists ==
    {<<>>, <<ExactType, [AnyFilter EXCEPT !.cesql = "unparsable"]>>, <<TwoDialects>>}
    \cup {<<[AnyFilter EXCEPT !.all = <<f>>]>> : f \in {ExactType, BadName}}
    \cup {<<[AnyFilter EXCEPT !.any = <<ExactType, [AnyFilter EXCEPT !.not = f]>>]>> :
            f \in {ExactType, TwoDialects}}

-----------------------------------------------------------------------------
(***************************************************************************)
(* The defaults the webhook reads from ConfigMaps: which class and which   *)
(* configuration a Broker gets (config-br-defaults), and which template a  *)
(* Channel gets (default-ch-webhook).                                      *)
(*                                                                         *)
(* A DefaultConfig is [class, config, classes, disallow]: the default      *)
(* class (or ""), the configuration of the level, the configurations by    *)
(* class, and DisallowDifferentNamespaceConfig.  A level without one is    *)
(* None; "no configuration" is None, which stands for the error.           *)
(***************************************************************************)

Classes == {"MTChannelBasedBroker", "Kafka"}

ByClass(dc, class) ==
    IF class \in DOMAIN dc.classes THEN dc.classes[class] ELSE None

getClusterDefaultBrokerConfig(d, class) ==
    IF d.cluster = None THEN None
    ELSE IF d.cluster.config = None THEN None
    ELSE IF ByClass(d.cluster, class) # None THEN ByClass(d.cluster, class)
    ELSE d.cluster.config

getBrokerConfigByClassName(d, class) ==
    IF d.ns = None THEN getClusterDefaultBrokerConfig(d, class)
    ELSE IF ByClass(d.ns, class) # None THEN ByClass(d.ns, class)
    ELSE IF d.ns.class = class /\ d.ns.config # None THEN d.ns.config
    ELSE getClusterDefaultBrokerConfig(d, class)

DefaultClass(dc) == IF dc = None THEN "" ELSE dc.class

getBrokerConfigForEmptyClassName(d) ==
    IF DefaultClass(d.ns) # "" THEN getBrokerConfigByClassName(d, d.ns.class)
    ELSE getClusterDefaultBrokerConfig(d, "")

GetBrokerConfig(d, class) ==
    IF class # "" THEN getBrokerConfigByClassName(d, class)
    ELSE getBrokerConfigForEmptyClassName(d)

\* "" when neither level names a class: the error.
GetBrokerClass(d) ==
    IF DefaultClass(d.ns) # "" THEN d.ns.class ELSE DefaultClass(d.cluster)

\* determineNamespaceAllowance: the configuration must be in the own namespace.
determineNamespaceAllowance(d) ==
    \E dc \in {d.ns, d.cluster} : IF dc = None THEN FALSE ELSE dc.disallow

\* known: the namespace the caller passes is the object's own.
GetChannelConfig(d, known) == IF known /\ d.ns # None THEN d.ns ELSE d.cluster

\* PingSource's data limit: any negative number is none.
GetPingConfig(size) == IF size < 0 THEN -1 ELSE size

-----------------------------------------------------------------------------
(* Feature flags (config-features): a value is read but for letter case,   *)
(* and what is no flag value is kept as it is.                             *)

Features == {"delivery-timeout", "delivery-backoff-max", "delivery-retryafter",
             "cross-namespace-event-links", "authentication-oidc", "new-apiserversource-filters"}

newDefaults == [f \in Features |-> IF f = "delivery-timeout" THEN "Enabled" ELSE "Disabled"]

EqualFold(value) ==
    CASE value \in {"enabled", "Enabled"}   -> "Enabled"
      [] value \in {"allowed", "Allowed"}   -> "Allowed"
      [] value \in {"disabled", "Disabled"} -> "Disabled"
      [] OTHER                              -> value

NewFlagsConfigFromMap(data) ==
    [f \in Features |-> IF f \in DOMAIN data THEN EqualFold(data[f]) ELSE newDefaults[f]]

\* The features whose flag is Enabled: Allowed is not enough for the webhook.
IsEnabled(flags) == {f \in Features : flags[f] = "Enabled"}

-----------------------------------------------------------------------------
(* Configurations an administrator may install.                            *)

FlagMaps == {[f \in {} |-> ""], [f \in {"delivery-timeout"} |-> "allowed"],
             [f \in Features |-> "enabled"]}

Cfg(name, delivery) == [ref |-> Ref(name, "other"), delivery |-> delivery]
Level(class, config, classes) ==
    [class |-> class, config |-> config, classes |-> classes, disallow |-> FALSE]

Linear == [NoDelivery EXCEPT !.deadLetterSink = RefDest(""), !.backoffDelay = "positive"]
NoClasses == [c \in {} |-> None]
Cluster == Level("MTChannelBasedBroker", Cfg("cluster", Linear), NoClasses)

BrokerDefaults ==
    {[ns |-> None, cluster |-> None],
     [ns |-> None, cluster |-> Level("MTChannelBasedBroker", None, NoClasses)],
     [ns |-> None, cluster |-> Cluster],
     [ns |-> None, cluster |-> [Cluster EXCEPT !.disallow = TRUE]],
     [ns |-> None, cluster |-> [Cluster EXCEPT !.classes = [c \in {"Kafka"} |-> Cfg("kafka", None)]]],
     [ns |-> Level("Kafka", Cfg("ns", Linear), NoClasses), cluster |-> Cluster],
     [ns |-> Level("Kafka", None, [c \in {"Kafka"} |-> Cfg("nskafka", None)]), cluster |-> None],
     [ns |-> Level("", None, [c \in {"Kafka"} |-> Cfg("nskafka", Linear)]), cluster |-> Cluster]}

ChannelDefaults == [ns : {None, "KafkaChannel"}, cluster : {None, "InMemoryChannel"}]


-----------------------------------------------------------------------------
(***************************************************************************)
(* Defaulting and validation of the kinds of eventing.knative.dev: Broker, *)
(* Trigger, EventPolicy, EventTransform, RequestReply and EventType.       *)
(*                                                                         *)
(* KSetDefaults(o, c) is what kind K's SetDefaults makes of object o under *)
(* configuration c.  KValidate(r, o, c) says whether Validate accepts it   *)
(* in request r: r.old is the stored object (None on creation), r.granted  *)
(* the verdict of a SubjectAccessReview for the requesting user, r.user    *)
(* that user.  KObjects are the objects users write.                       *)
(***************************************************************************)

Vary(base, field, values) == {[base EXCEPT ![field] = v] : v \in values}

\* CheckNamespace: a reference to another namespace needs the user's permission.
CheckNamespace(r, ref) == ref.ns \in {"", "own"} \/ r.granted

-----------------------------------------------------------------------------
(* Broker.  class: the annotation; config: the reference (a ConfigMap).    *)

BrokerObjects ==
    LET base == [class |-> None, config |-> None, delivery |-> None] IN
    [class : Classes \cup {None, ""}, delivery : {None},
     config : {None, Ref("user", ""), Ref("user", "other"), [Ref("user", "") EXCEPT !.ok = FALSE]}]
    \cup Vary(base, "delivery", Deliveries)

\* The delivery options taken over: not the timeout, the format or the maxima.
DefaultDelivery(ds) ==
    [NoDelivery EXCEPT !.deadLetterSink = ds.deadLetterSink, !.backoffDelay = ds.backoffDelay]

\* Drops the guard that keeps a configuration already chosen.
BrokerSpecSetDefaultsAlways(o, c) ==
    LET class == IF o.class = None THEN "" ELSE o.class
        found == GetBrokerConfig(c.br, class)
    IN  IF found = None THEN o ELSE [o EXCEPT !.config = found.ref]

\* The configuration of the Broker is looked up by its class, or, when the
\* Broker brings one, by the kind of that reference.
BrokerSpecSetDefaults(o, c) ==
    LET class == IF o.config # None THEN "ConfigMap"
                 ELSE IF o.class = None THEN "" ELSE o.class
        found == GetBrokerConfig(c.br, class)
        filled == IF found = None THEN o
                  ELSE [o EXCEPT !.config = IF @ = None THEN found.ref ELSE @,
                                 !.delivery = IF @ = None /\ found.delivery # None
                                              THEN DefaultDelivery(found.delivery) ELSE @]
    IN  [filled EXCEPT !.config = IF @ = None THEN @ ELSE KReferenceSetDefaults(@),
                       !.delivery = DeliverySetDefaults(@)]

BrokerSetDefaults(o, c) ==
    LET spec == BrokerSpecSetDefaults(o, c)
    IN  IF o.class = None /\ GetBrokerClass(c.br) # ""
        THEN [spec EXCEPT !.class = GetBrokerClass(c.br)] ELSE spec

\* Compares the specs only.
BrokerImmutableSpec(o) == <<o.config>>

BrokerImmutable(o) == <<o.config, o.class>>

BrokerValidate(r, o, c) ==
    LET ownOnly == determineNamespaceAllowance(c.br) IN
    /\ o.class \notin {None, ""}
    /\ o.config # None => KReferenceValid(o.config, ownOnly)
    /\ DeliveryValid(o.delivery, c.features, ownOnly)
    /\ r.old # None => BrokerImmutable(o) = BrokerImmutable(r.old)

-----------------------------------------------------------------------------
(* Trigger.  names: the attributes of spec.filter; dependency: what the    *)
(* dependency annotation holds; injection: the injection annotation.       *)

TriggerBase == [broker |-> "b", brokerRef |-> None, names |-> None, filters |-> <<>>,
                subscriber |-> RefDest(""), delivery |-> None,
                dependency |-> None, injection |-> None, label |-> None]

TriggerObjects ==
    {[TriggerBase EXCEPT !.broker = b, !.brokerRef = ref, !.label = l] :
        b \in {"", "b", "default"}, l \in {None, "stale"},
        ref \in {None, Ref("r", ""), Ref("r", "own"), Ref("r", "other")}}
    \cup Vary(TriggerBase, "names", {{"type"}, {"Bad_Name"}})
    \cup Vary(TriggerBase, "filters", FilterLists)
    \cup Vary(TriggerBase, "subscriber", Dests)
    \cup Vary(TriggerBase, "delivery", Deliveries)
    \cup Vary(TriggerBase, "dependency", {"unparsable", "incomplete", "own", "other"})
    \cup {[TriggerBase EXCEPT !.broker = b, !.injection = i] :
            b \in {"b", "default"}, i \in {"enabled", "junk"}}

TriggerLinks(c) == "cross-namespace-event-links" \in c.features

setLabels(o, c) ==
    IF TriggerLinks(c) /\ o.brokerRef # None THEN [o EXCEPT !.label = o.brokerRef.name]
    ELSE IF o.broker # "" THEN [o EXCEPT !.label = o.broker]
    ELSE o

TriggerSetDefaults(o, c) ==
    setLabels([o EXCEPT !.names = IF @ = None THEN {} ELSE @,
                        !.subscriber = DestinationSetDefaults(@),
                        !.delivery = DeliverySetDefaults(@)], c)

TriggerSpecValidate(o, c) ==
    /\ (o.brokerRef = None) # (o.broker = "")
    /\ ~TriggerLinks(c) /\ o.brokerRef # None => o.brokerRef.ns = ""
    /\ \A a \in o.names : validAttributeName(a)
    /\ ValidateSubscriptionAPIFiltersList(o.filters)
    /\ DestinationValid(o.subscriber, FALSE)
    /\ DeliveryValid(o.delivery, c.features, FALSE)

TriggerAnnotationsValid(o) ==
    /\ o.dependency \in {None, "own"}
    /\ o.injection # None => o.injection \in {"enabled", "disabled"} /\ o.broker = "default"

TriggerImmutable(o) == o.broker

TriggerValidate(r, o, c) ==
    /\ TriggerSpecValidate(o, c)
    /\ TriggerAnnotationsValid(o)
    /\ r.old # None => TriggerImmutable(o) = TriggerImmutable(r.old)
    /\ TriggerLinks(c) /\ o.brokerRef # None => CheckNamespace(r, o.brokerRef)

-----------------------------------------------------------------------------
(* EventPolicy.  from: one entry, by reference or by subject (the subject  *)
(* as validateSub sees it); to: one entry, by reference or by selector.    *)

EventPolicyObjects ==
    LET base == [from |-> [ref |-> Ref("src", ""), sub |-> None],
                 to |-> [ref |-> Ref("b", ""), selector |-> FALSE], filters |-> <<>>] IN
    Vary(base, "from", [ref : {None, Ref("src", ""), Ref("src", "other"),
                               [Ref("src", "") EXCEPT !.ok = FALSE]},
                        sub : {None, "", "*", "name", "prefix*", "in*fix"}])
    \cup Vary(base, "to", [ref : {None, Ref("b", ""), [Ref("b", "") EXCEPT !.ok = FALSE]},
                           selector : BOOLEAN])
    \cup Vary(base, "filters", FilterLists)

EventPolicySetDefaults(o, c) ==
    [o EXCEPT !.from.ref = IF @ = None THEN @ ELSE KReferenceSetDefaults(@)]

\* '*' is only allowed as suffix.
validateSub(sub) == sub # "in*fix"

EventPolicySpecValidate(o) ==
    /\ o.from.ref # None \/ o.from.sub \notin {None, ""}
    /\ o.from.ref = None \/ o.from.sub = None
    /\ o.from.ref # None => o.from.ref.ok
    /\ validateSub(o.from.sub)
    /\ (o.to.ref # None) # o.to.selector
    /\ o.to.ref # None => o.to.ref.ok
    /\ ValidateSubscriptionAPIFiltersList(o.filters)

\* No caller marks an update as one of the spec, so only creations are gated.
EventPolicyValidate(r, o, c) ==
    /\ r.old = None => "authentication-oidc" \in c.features
    /\ EventPolicySpecValidate(o)

-----------------------------------------------------------------------------
(* EventTransform.  caCerts: the sink names its own CA certificates.       *)

EventTransformObjects ==
    LET base == [jsonata |-> TRUE, sink |-> RefDest(""), caCerts |-> FALSE, reply |-> None] IN
    Vary(base, "sink", Dests \cup {None}) \cup Vary(base, "caCerts", {TRUE})
    \cup [jsonata : BOOLEAN, sink : {None, UriDest}, caCerts : {FALSE},
          reply : [jsonata : BOOLEAN, discard : BOOLEAN]]

ReplySpecValidate(o) ==
    o.reply # None => /\ o.sink # None
                      /\ ~(o.reply.jsonata /\ o.reply.discard)

EventTransformImmutable(o) == o.jsonata

EventTransformValidate(r, o, c) ==
    /\ o.jsonata
    /\ DestinationValid(o.sink, TRUE)
    /\ ~(o.caCerts /\ o.jsonata)
    /\ ReplySpecValidate(o)
    /\ r.old # None => EventTransformImmutable(o) = EventTransformImmutable(r.old)

-----------------------------------------------------------------------------
(* RequestReply.  isBroker: the reference names a kind that is, but for    *)
(* letter case, Broker.                                                    *)

RequestReplyObjects ==
    LET base == [brokerRef |-> Ref("b", ""), isBroker |-> TRUE, timeout |-> None, delivery |-> None,
                 correlation |-> "", reply |-> "", label |-> None] IN
    Vary(base, "brokerRef", {Ref("b", ""), Ref("b2", ""), Ref("b", "own"), [Ref("b", "") EXCEPT !.ok = FALSE]})
    \cup Vary(base, "isBroker", {FALSE}) \cup Vary(base, "delivery", Deliveries)
    \cup Vary(base, "timeout", Periods \cup {""}) \cup Vary(base, "label", {"stale"})
    \cup {[base EXCEPT !.correlation = a, !.reply = b] : a, b \in {"", "id", "source", "custom"}}

RequestReplySetDefaults(o, c) ==
    [o EXCEPT !.timeout = IF @ \in {None, ""} THEN c.replyTimeout ELSE @,
              !.correlation = IF @ = "" THEN "correlationid" ELSE @,
              !.reply = IF @ = "" THEN "replyid" ELSE @,
              !.label = o.brokerRef.name]

\* The attribute list names "course" where the message names source.
ReservedAttributes == {"", "id", "course", "specversion", "type"}

RequestReplyValidate(r, o, c) ==
    /\ KReferenceValid(o.brokerRef, TRUE)
    /\ o.isBroker
    /\ o.brokerRef.ns = ""
    /\ DeliveryValid(o.delivery, c.features, TRUE)
    /\ o.timeout = "positive"
    /\ o.correlation \notin ReservedAttributes /\ o.reply \notin ReservedAttributes

-----------------------------------------------------------------------------
(***************************************************************************)
(* Defaulting and validation of messaging.knative.dev (Channel,            *)
(* InMemoryChannel, Subscription) and flows.knative.dev (Sequence,         *)
(* Parallel), in the form of EventingAdmission.                            *)
(***************************************************************************)

\* A channel template: its name stands for kind and arguments; ok: kind and
\* apiVersion are set.
Template(kind) == [kind |-> kind, ok |-> TRUE]
IsValidChannelTemplate(t) == t.ok
Templates == {None, Template("UserChannel"), [Template("UserChannel") EXCEPT !.ok = FALSE]}

\* The template of the configured default, or None when there is no default.
DefaultTemplate(c, known) ==
    LET kind == GetChannelConfig(c.ch, known)
    IN  IF kind = None THEN None ELSE Template(kind)

-----------------------------------------------------------------------------
(* Channel.  duck: the subscribable-version annotation; subscribers: some  *)
(* are listed in the spec.                                                 *)

ChannelObjects ==
    LET base == [duck |-> None, template |-> None, subscribers |-> FALSE, delivery |-> None] IN
    [duck : {None, "v1beta1"}, template : Templates, subscribers : BOOLEAN, delivery : {None}]
    \cup Vary(base, "delivery", Deliveries)
    \cup {[base EXCEPT !.template = Template("UserChannel"),
                       !.delivery = [NoDelivery EXCEPT !.deadLetterSink = RefDest("")]]}

DuckVersion(o) == IF o.duck = None THEN "v1" ELSE o.duck

\* A Channel that brings a template returns before its delivery is defaulted.
ChannelSpecSetDefaults(o, c) ==
    IF o.template # None THEN o
    ELSE [o EXCEPT !.template = DefaultTemplate(c, TRUE),
                   !.delivery = DeliverySetDefaults(@)]

ChannelSetDefaults(o, c) == [ChannelSpecSetDefaults(o, c) EXCEPT !.duck = DuckVersion(o)]

ChannelImmutable(o) == <<o.template, o.delivery>>

ChannelValidate(r, o, c) ==
    /\ IF o.template = None THEN FALSE ELSE IsValidChannelTemplate(o.template)
    /\ ~o.subscribers
    /\ DeliveryValid(o.delivery, c.features, TRUE)
    /\ r.old # None => ChannelImmutable(o) = ChannelImmutable(r.old)

-----------------------------------------------------------------------------
(* InMemoryChannel.  A subscriber is the URI it has, or "none".            *)

InMemoryChannelObjects ==
    LET base == [duck |-> None, scope |-> None, subscribers |-> {}, delivery |-> None] IN
    Vary(base, "scope", {None, "cluster", "namespace", "junk"})
    \cup Vary(base, "subscribers", SUBSET {"s1", "s2", "none"})
    \cup Vary(base, "delivery", Deliveries) \cup Vary(base, "duck", {"v1beta1"})

InMemoryChannelSetDefaults(o, c) ==
    [o EXCEPT !.duck = DuckVersion(o), !.delivery = DeliverySetDefaults(@)]

\* Lets everybody change the subscribers.
canChangeChannelSpecAnyone(r) == TRUE

canChangeChannelSpecAuth(r) == r.user = "eventing-controller"

CheckSubscribersChangeAllowed(r, o) ==
    canChangeChannelSpecAuth(r) \/ o.subscribers = r.old.subscribers

InMemoryChannelValidate(r, o, c) ==
    /\ "none" \notin o.subscribers
    /\ o.scope \in {None, "cluster", "namespace"}
    /\ r.old # None => CheckSubscribersChangeAllowed(r, o)

-----------------------------------------------------------------------------
(* Subscription.                                                           *)

SubscriptionObjects ==
    LET base == [channel |-> Ref("ch", ""), subscriber |-> RefDest(""), reply |-> None, delivery |-> None] IN
    Vary(base, "channel", {None, Ref("ch", ""), Ref("ch2", ""), Ref("ch", "own"), Ref("ch", "other"),
                           [Ref("ch", "") EXCEPT !.ok = FALSE]})
    \cup Vary(base, "subscriber", Dests \cup {None}) \cup Vary(base, "reply", Dests)
    \cup Vary(base, "delivery", Deliveries)

SubscriptionSetDefaults(o, c) ==
    [o EXCEPT !.subscriber = DestinationSetDefaults(@), !.reply = DestinationSetDefaults(@),
              !.delivery = DeliverySetDefaults(@)]

isDestinationNilOrEmpty(d) == d \in {None, NoDest}

isValidChannel(ref, c) ==
    /\ KReferenceValid(ref, FALSE)
    /\ ~TriggerLinks(c) => ref.ns = ""

SubscriptionSpecValidate(o, c) ==
    /\ IF o.channel = None THEN FALSE ELSE isValidChannel(o.channel, c)
    /\ ~isDestinationNilOrEmpty(o.subscriber) /\ DestinationValid(o.subscriber, FALSE)
    /\ isDestinationNilOrEmpty(o.reply) \/ DestinationValid(o.reply, FALSE)
    /\ DeliveryValid(o.delivery, c.features, FALSE)

SubscriptionImmutable(o) == o.channel

SubscriptionValidate(r, o, c) ==
    /\ SubscriptionSpecValidate(o, c)
    /\ r.old # None => SubscriptionImmutable(o) = SubscriptionImmutable(r.old)
    /\ TriggerLinks(c) => CheckNamespace(r, o.channel)

-----------------------------------------------------------------------------
(* Sequence.  The template is defaulted with a context that does not hold  *)
(* the object, so only the cluster's default is found; the steps' and the  *)
(* reply's references are defaulted with one that does.                    *)

SequenceObjects ==
    LET step == [destination |-> RefDest(""), delivery |-> None]
        base == [steps |-> <<step>>, template |-> None, reply |-> None] IN
    Vary(base, "template", Templates) \cup Vary(base, "reply", Dests)
    \cup Vary(base, "steps", {<<>>, <<step, step>>}
                \cup {<<step, s>> : s \in Vary(step, "destination", Dests)}
                \cup {<<s>> : s \in Vary(step, "delivery", Deliveries)})

SequenceStepSetDefaults(s) ==
    [s EXCEPT !.destination = DestinationSetDefaults(@), !.delivery = DeliverySetDefaults(@)]

SequenceSetDefaults(o, c) ==
    [steps    |-> [i \in DOMAIN o.steps |-> SequenceStepSetDefaults(o.steps[i])],
     template |-> IF o.template # None THEN o.template ELSE DefaultTemplate(c, FALSE),
     reply    |-> DestinationSetDefaults(o.reply)]

SequenceStepValidate(s, c) ==
    DestinationValid(s.destination, FALSE) /\ DeliveryValid(s.delivery, c.features, FALSE)

SequenceValidate(r, o, c) ==
    /\ o.steps # <<>>
    /\ \A i \in DOMAIN o.steps : SequenceStepValidate(o.steps[i], c)
    /\ IF o.template = None THEN FALSE ELSE IsValidChannelTemplate(o.template)
    /\ DestinationValid(o.reply, FALSE)

-----------------------------------------------------------------------------
(* Parallel, which does not validate the delivery of its branches.         *)

ParallelObjects ==
    LET branch == [filter |-> None, subscriber |-> RefDest(""), reply |-> None]
        base == [branches |-> <<branch>>, template |-> None, reply |-> None] IN
    Vary(base, "template", Templates) \cup Vary(base, "reply", Dests)
    \cup Vary(base, "branches", {<<>>} \cup {<<branch, b>> : b \in
            UNION {Vary(branch, f, Dests) : f \in {"filter", "subscriber", "reply"}}})

ParallelSetDefaults(o, c) ==
    [branches |-> [i \in DOMAIN o.branches |->
                     [f \in {"filter", "subscriber", "reply"} |-> DestinationSetDefaults(o.branches[i][f])]],
     template |-> IF o.template # None THEN o.template ELSE DefaultTemplate(c, FALSE),
     reply    |-> DestinationSetDefaults(o.reply)]

ParallelValidate(r, o, c) ==
    /\ o.branches # <<>>
    /\ \A i \in DOMAIN o.branches : \A f \in {"filter", "subscriber", "reply"} :
         DestinationValid(o.branches[i][f], FALSE)
    /\ IF o.template = None THEN FALSE ELSE IsValidChannelTemplate(o.template)
    /\ DestinationValid(o.reply, FALSE)

-----------------------------------------------------------------------------
(***************************************************************************)
(* Defaulting and validation of sources.knative.dev (ApiServerSource,      *)
(* ContainerSource, PingSource, SinkBinding, IntegrationSource) and        *)
(* sinks.knative.dev (IntegrationSink, JobSink), in the form of            *)
(* EventingAdmission.                                                      *)
(***************************************************************************)

-----------------------------------------------------------------------------
(* ApiServerSource.  A resource, or the owner, is TRUE when its apiVersion *)
(* parses and its kind is not blank.                                       *)

ApiServerSourceObjects ==
    LET base == [mode |-> "", account |-> "", resources |-> <<TRUE>>, owner |-> None,
                 sink |-> RefDest(""), filters |-> <<>>] IN
    Vary(base, "mode", {"", "Reference", "Resource", "junk"}) \cup Vary(base, "account", {"sa"})
    \cup Vary(base, "resources", {<<>>, <<TRUE, FALSE>>}) \cup Vary(base, "owner", BOOLEAN)
    \cup Vary(base, "sink", Dests) \cup Vary(base, "filters", FilterLists)

ApiServerSourceSetDefaults(o, c) ==
    [o EXCEPT !.mode = IF @ = "" THEN "Reference" ELSE @,
              !.account = IF @ = "" THEN "default" ELSE @]

validateSubscriptionAPIFiltersList(o, c) ==
    IF "new-apiserversource-filters" \in c.features
    THEN ValidateSubscriptionAPIFiltersList(o.filters)
    ELSE o.filters = <<>>

ApiServerSourceValidate(r, o, c) ==
    /\ o.mode \in {"Reference", "Resource"}
    /\ DestinationValid(o.sink, FALSE)
    /\ o.resources # <<>> /\ \A i \in DOMAIN o.resources : o.resources[i]
    /\ o.owner # None => o.owner
    /\ validateSubscriptionAPIFiltersList(o, c)

-----------------------------------------------------------------------------
(* ContainerSource.  An unnamed container is named after its position.     *)

ContainerSourceObjects ==
    LET containers == [name : {"", "c"}, image : BOOLEAN] IN
    [containers : {<<>>} \cup {<<a>> : a \in containers} \cup {<<a, b>> : a, b \in containers},
     sink : {RefDest("")}]
    \cup [containers : {<<[name |-> "", image |-> TRUE]>>}, sink : Dests]

ContainerSourceSetDefaults(o, c) ==
    [o EXCEPT !.containers =
        [i \in DOMAIN @ |-> IF @[i].name = "" THEN [@[i] EXCEPT !.name = <<"source-0", "source-1">>[i]] ELSE @[i]]]

isValidContainer(k) == k.name # "" /\ k.image

ContainerSourceValidate(r, o, c) ==
    /\ DestinationValid(o.sink, FALSE)
    /\ o.containers # <<>> /\ \A i \in DOMAIN o.containers : isValidContainer(o.containers[i])

-----------------------------------------------------------------------------
(* PingSource.  data and base64 are None or a payload: its length, whether *)
(* it decodes, and whether it then is a JSON object.                       *)

Payloads == {None} \cup [length : {1, 9}, decodes : BOOLEAN, object : BOOLEAN]

PingSourceObjects ==
    LET base == [schedule |-> "", timezone |-> "", json |-> FALSE, data |-> None, base64 |-> None,
                 sink |-> RefDest("")] IN
    {[base EXCEPT !.schedule = s, !.timezone = tz] :
        s \in {"", "cron", "@daily", "@every", "junk"}, tz \in {"", "zone", "junk"}}
    \cup {[base EXCEPT ![f] = p, !.json = j] : f \in {"data", "base64"}, p \in Payloads, j \in BOOLEAN}
    \cup {[base EXCEPT !.data = p, !.base64 = p] : p \in Payloads \ {None}}
    \cup Vary(base, "sink", Dests)

PingSourceSetDefaults(o, c) == [o EXCEPT !.schedule = IF @ = "" THEN "cron" ELSE @]

validateDescriptor(o) == o.schedule # "@every"

\* Parses the schedule without the time zone.
ScheduleParsesAlone(o) == o.schedule # "junk"

\* The parser sees the schedule with the time zone in front of it.
ScheduleParses(o) == o.schedule # "junk" /\ o.timezone # "junk"

PingDataValid(o, c) ==
    LET DataMaxSize == GetPingConfig(c.dataMaxSize) IN
    IF o.data # None /\ o.base64 # None THEN FALSE
    ELSE IF o.base64 # None
         THEN /\ DataMaxSize > -1 => o.base64.length <= DataMaxSize
              /\ o.base64.decodes
              /\ o.json => o.base64.object
    ELSE IF o.data # None
         THEN /\ DataMaxSize > -1 => o.data.length <= DataMaxSize
              /\ o.json => o.data.object
    ELSE TRUE

PingSourceValidate(r, o, c) ==
    /\ validateDescriptor(o)
    /\ ScheduleParses(o)
    /\ DestinationValid(o.sink, FALSE)
    /\ PingDataValid(o, c)

-----------------------------------------------------------------------------
(* SinkBinding.  subject: a reference with a name or, as well, a selector. *)

SinkBindingObjects ==
    [subject : {Ref("app", ""), Ref("app", "own"), Ref("app", "other"), [Ref("app", "") EXCEPT !.ok = FALSE]},
     sink : Dests]

SinkBindingSetDefaults(o, c) ==
    [subject |-> KReferenceSetDefaults(o.subject), sink |-> DestinationSetDefaults(o.sink)]

SinkBindingValidate(r, o, c) ==
    /\ o.subject.ok /\ o.subject.ns # ""
    /\ DestinationValid(o.sink, FALSE)
    /\ o.subject.ns \in {"", "own"}

-----------------------------------------------------------------------------
(* IntegrationSource and IntegrationSink.  types: the connectors given, of *)
(* which all but the first are AWS ones; named: arn (or table) is set.     *)

Connectors(own, aws) ==
    [types : {{}} \cup {{x} : x \in {own} \cup aws} \cup {{own} \cup {x} : x \in aws} \cup {aws},
     auth : BOOLEAN, named : BOOLEAN, region : BOOLEAN]

IntegrationSourceObjects == Connectors("timer", {"s3", "sqs", "ddb-streams"})
IntegrationSinkObjects == Connectors("log", {"s3", "sqs", "sns"})

IntegrationSourceValidate(r, o, c) ==
    /\ Cardinality(o.types) = 1
    /\ o.types # {"timer"} => o.auth /\ o.named /\ o.region

IntegrationSinkValidate(r, o, c) ==
    /\ Cardinality(o.types) = 1
    /\ o.types # {"log"} => o.auth /\ o.named /\ o.region

-----------------------------------------------------------------------------
(* JobSink.  job: the execution-mode variables of each container and init  *)
(* container, and whether the API server accepts the Job in a dry run.     *)

JobSinkObjects ==
    LET modes == {<<>>, <<"batch">>, <<"streaming">>} IN
    [job : {None} \cup [containers : {<<m>> : m \in modes},
                        inits : {<<>>} \cup {<<m, <<>>>> : m \in modes}, accepted : BOOLEAN]]

\* A container that names its execution mode keeps it.
setExecutionMode(env) == IF env = <<>> THEN <<"batch">> ELSE env

setBatchJobDefaults(job) ==
    [job EXCEPT !.containers = [i \in DOMAIN @ |-> setExecutionMode(@[i])],
                !.inits = [i \in DOMAIN @ |-> setExecutionMode(@[i])]]

JobSinkSetDefaults(o, c) ==
    IF o.job = None THEN o ELSE [o EXCEPT !.job = setBatchJobDefaults(@)]

JobSinkValidate(r, o, c) == IF o.job = None THEN FALSE ELSE o.job.accepted

===============================================================================
