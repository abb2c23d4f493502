------------------------- MODULE EventingReconcilers --------------------------
(***************************************************************************)
(* The reconcilers of Brokers, Triggers, EventTypes, EventPolicies and     *)
(* RequestReplies, and the sugar controllers.                              *)
(***************************************************************************)
EXTENDS Reconciliation

-----------------------------------------------------------------------------
(***************************************************************************)
(* Reconciliation of a Broker of class MTChannelBasedBroker                *)
(* (pkg/reconciler/broker): the trigger channel, the endpoints of ingress  *)
(* and filter, the dead letter sink, the addresses and the event policies. *)
(***************************************************************************)

\* delivery: spec.delivery names a dead letter sink.
BrokerSpecs == [delivery : BOOLEAN]

(***************************************************************************)
(* config: the config map with the channel template is there and valid;    *)
(* channel: the trigger channel; filter, ingress: their endpoints are      *)
(* available; sink: the dead letter sink resolves; tls, oidc: features;    *)
(* secret: the ingress' TLS secret; policies: those that apply to the      *)
(* broker; policy: the policy for the trigger channel, whose owner         *)
(* reference makes the broker its owner but not its controller.            *)
(***************************************************************************)
BrokerStarts ==
  {[config |-> TRUE, channel |-> None, filter |-> TRUE, ingress |-> TRUE, sink |-> TRUE,
    tls |-> tls, secret |-> TRUE, oidc |-> oidc, policies |-> "none", policy |-> None] :
      tls \in {"disabled", "permissive", "strict"}, oidc \in BOOLEAN}

BrokerChildren == {"channel", "policy"}

\* What others make of object f: the channel gets and loses its address.
BrokerEnv(w, f) ==
  CASE f \in {"config", "filter", "ingress", "sink", "secret", "oidc"} -> BOOLEAN
    [] f = "tls" -> {"disabled", "permissive", "strict"}
    [] f = "policies" -> Policies
    [] f = "channel" /\ w.channel # None -> {None, [w.channel EXCEPT !.addr = FALSE]}
    [] f = "policy" /\ w.policy # None -> {None}
    [] OTHER -> {}

BrokerHeal(w, f) ==
  IF f = "channel" /\ w.channel # None THEN {[w.channel EXCEPT !.addr = TRUE]} ELSE {}

\* Mutant: no handler for the endpoints of the ingress.
EnqueuesNotForIngress(f, old, new) ==
  f \in {"obj", "channel", "filter", "sink", "tls", "oidc", "secret", "policies"}

\* NewController: objects whose changes enqueue the broker.  The config map and
\* the channel's policy have no handler.
BrokerEnqueues(f, old, new) ==
  f \in {"obj", "channel", "filter", "ingress", "sink", "tls", "oidc", "secret", "policies"}

BrokerDependents == {"IngressReady", "TriggerChannelReady", "FilterReady", "Addressable",
               "EventPoliciesReady"}

BrokerNewStatus == [conds |-> InitializeConditions(BrokerDependents), gen |-> 0, channel |-> FALSE,
              sink |-> FALSE, address |-> None, addresses |-> {}, audience |-> FALSE,
              policies |-> FALSE]

\* Fields of the status that only depend on the present, once reconciled.
\* Addresses are left over when transport encryption is disabled.
BrokerDerived == DOMAIN BrokerNewStatus \ {"addresses"}

-----------------------------------------------------------------------------
\* The Mark methods of the status.
BrokerMarkCondition(s, t, v) == Cond(BrokerDependents, s, t, v)

\* Mutant: an error that no condition shows.
getChannelTemplateSilently(s) == IF s.seen.config THEN s ELSE Error(s)

getChannelTemplate(s) ==
  IF s.seen.config THEN s ELSE Error(BrokerMarkCondition(s, "TriggerChannelReady", "False"))

\* The channel that NewPhysicalChannel makes for the broker.
BrokerNewPhysicalChannel(s) == [delivery |-> s.spec.delivery, addr |-> FALSE]

\* reconcileChannel: a delivery that the broker no longer has is not compared.
BrokerReconcileChannel(s) ==
  CASE s.seen.channel = None -> Create(s, "channel", BrokerNewPhysicalChannel(s))
    [] s.seen.channel # None /\ s.spec.delivery /\ ~ s.seen.channel.delivery ->
         Patch(s, "channel", [s.w.channel EXCEPT !.delivery = TRUE])
    [] OTHER -> s

\* The channel that ReconcileKind goes on with: the one just created has no
\* address, one that was patched is still the informer's.
HasAddress(s) == s.seen.channel # None /\ s.seen.channel.addr

\* PropagateTriggerChannelReadiness and the checks before it.
propagateChannel(s) ==
  IF HasAddress(s)
  THEN BrokerMarkCondition([s EXCEPT !.st.channel = TRUE], "TriggerChannelReady", "True")
  ELSE Done(BrokerMarkCondition(s, "TriggerChannelReady", "False"))

\* PropagateFilterAvailability and PropagateIngressAvailability.
propagateEndpoints(s) ==
  BrokerMarkCondition(BrokerMarkCondition(s, "FilterReady", BoolStatus(s.seen.filter)),
       "IngressReady", BoolStatus(s.seen.ingress))

\* DeadLetterSinkResolved is none of the conditions Ready depends on.
BrokerResolveDeadLetterSink(s) ==
  CASE ~ s.spec.delivery ->
         BrokerMarkCondition([s EXCEPT !.st.sink = FALSE], "DeadLetterSinkResolved", "True")
    [] s.spec.delivery /\ s.seen.sink ->
         BrokerMarkCondition([s EXCEPT !.st.sink = TRUE], "DeadLetterSinkResolved", "True")
    [] OTHER ->
         Error(BrokerMarkCondition([s EXCEPT !.st.sink = FALSE], "DeadLetterSinkResolved", "False"))

\* The addresses by transport encryption; without the secret there are none.
BrokerSetAddresses(s) ==
  CASE s.seen.tls = "disabled" -> [s EXCEPT !.st.address = "http"]
    [] s.seen.tls # "disabled" /\ ~ s.seen.secret -> Error(s)
    [] s.seen.tls = "permissive" /\ s.seen.secret ->
         [s EXCEPT !.st.address = "http", !.st.addresses = {"https", "http"}]
    [] OTHER -> [s EXCEPT !.st.address = "https", !.st.addresses = {"https"}]

BrokerMarkAddressable(s) ==
  BrokerMarkCondition([s EXCEPT !.st.audience = s.seen.oidc], "Addressable", "True")

BrokerMakeEventPolicyForBackingChannel == "owned"

\* reconcileBrokerChannelEventPolicies: the policy is not controlled by the
\* broker, so that none is ever deleted.
reconcileBrokerChannelEventPolicies(s) ==
  IF s.seen.oidc /\ s.seen.policy = None THEN Create(s, "policy", BrokerMakeEventPolicyForBackingChannel) ELSE s

BrokerReconcileKind(s0) ==
  LET s1 == getChannelTemplate(s0)
      Failed(s) == BrokerMarkCondition(s, "TriggerChannelReady", "False")
      s2 == Then(s1, LAMBDA t : OnError(BrokerReconcileChannel(t), Failed))
      s3 == Then(s2, propagateChannel)
      s4 == Then(s3, LAMBDA t : BrokerResolveDeadLetterSink(propagateEndpoints(t)))
      s5 == Then(s4, BrokerSetAddresses)
      s6 == Then(s5, LAMBDA t : UpdateStatusWithEventPolicies(BrokerDependents, BrokerMarkAddressable(t)))
  IN Then(s6, reconcileBrokerChannelEventPolicies)

\* The generated reconciler, which is no Finalizer.
\* A new leader enqueues every object of its bucket that has the class of this
\* controller; the class never changes.
BrokerPromoteFunc(w) == TRUE

\* Mutant: deletion is not looked at.
reconcileMethodAlways(o) == "DoReconcileKind"

BrokerReconcileMethodFor(o) == IF o.deleting THEN "unknown" ELSE "DoReconcileKind"

BrokerSetFinalizerIfFinalizer(existing, s) == s

BrokerReconcile(existing, o, seen, w, fail) ==
  LET s == Begin(existing, o, seen, w, fail)
  IN IF BrokerReconcileMethodFor(existing) = "DoReconcileKind"
     THEN DoReconcileKind(BrokerReconcileKind, BrokerDependents, existing, BrokerSetFinalizerIfFinalizer(existing, s))
     ELSE s

BrokerUpdateStatus(existing, o, desired) == RetryUpdateConflicts(o, desired)

-----------------------------------------------------------------------------
\* Objects whose changes reach the resource with the next resync only.
BrokerUnwatched == {"config", "policy"}

\* What a ready broker promises: events get in, to the triggers, and by the
\* policies.
BrokerPromise(spec, w) ==
  /\ w.config /\ w.channel # None /\ w.channel.addr
  /\ w.filter /\ w.ingress /\ w.policies # "notReady"
  /\ spec.delivery => w.sink
  /\ w.tls # "disabled" => w.secret

\* Ready does not depend on DeadLetterSinkResolved, and no condition tells that
\* the CA certificates are missing.
BrokerHidden(spec, w) == (spec.delivery /\ ~ w.sink) \/ (w.tls # "disabled" /\ ~ w.secret)

\* What the broker needs of its objects is there.
BrokerProvided(spec, w) ==
  /\ w.channel # None
  /\ spec.delivery => w.channel.delivery
  /\ w.oidc /\ w.channel.addr => w.policy # None

-----------------------------------------------------------------------------
(***************************************************************************)
(* Reconciliation of a Trigger of a Broker of class MTChannelBasedBroker   *)
(* (pkg/reconciler/broker/trigger): the subscription to the broker's       *)
(* channel, the subscriber, the dead letter sink, the service account and  *)
(* the dependency that an annotation names.                                *)
(***************************************************************************)

\* delivery: the trigger has none, one without or one with a dead letter sink.
TriggerSpecs == [delivery : {"none", "plain", "sink"}]

(***************************************************************************)
(* broker: its class, its top-level condition, its dead letter sink (none, *)
(* in the spec only, or resolved); subscriber, sink: they resolve; tls,    *)
(* oidc: features; secret: the filter's TLS secret; sa: the service        *)
(* account; sub: the subscription; dependency: the condition of the source *)
(* that the annotation names, None without the annotation.                 *)
(***************************************************************************)
TriggerStarts ==
  {[broker |-> [mine |-> TRUE, ready |-> "True", sink |-> "none"], subscriber |-> TRUE,
    sink |-> TRUE, tls |-> FALSE, secret |-> TRUE, oidc |-> FALSE, sa |-> None, sub |-> None,
    dependency |-> None],
   [broker |-> [mine |-> TRUE, ready |-> "True", sink |-> "set"], subscriber |-> TRUE,
    sink |-> TRUE, tls |-> TRUE, secret |-> TRUE, oidc |-> TRUE, sa |-> None, sub |-> None,
    dependency |-> "True"]}

TriggerChildren == {"sa", "sub"}

TriggerEnv(w, f) ==
  CASE f \in {"subscriber", "sink", "tls", "secret", "oidc"} -> BOOLEAN
    [] f = "broker" /\ w.broker # None ->
         {None, [w.broker EXCEPT !.mine = FALSE]} \union
         {[w.broker EXCEPT !.ready = r] : r \in Statuses} \union
         {[w.broker EXCEPT !.sink = k] : k \in {"none", "unset", "set"}}
    [] f = "sa" -> ServiceAccounts \union {None}
    [] f = "sub" -> {None, Foreign} \union
         (IF w.sub \in {None, Foreign} THEN {} ELSE {[w.sub EXCEPT !.ready = "False"]})
    [] f = "dependency" /\ w.dependency # None -> Statuses \union {"absent", "stale"}
    [] OTHER -> {}

TriggerHeal(w, f) ==
  IF f = "sub" /\ w.sub \notin {None, Foreign} THEN {[w.sub EXCEPT !.ready = "True"]} ELSE {}

\* filterTriggers: triggers of brokers that exist and are of our class.
filterTriggers(seen) == seen.broker # None /\ seen.broker.mine

\* filterOIDCServiceAccounts: service accounts of such triggers.
filterOIDCServiceAccounts(seen) == seen.sa \in {"ours", "edited"} /\ filterTriggers(seen)

\* NewController: does a change of object f, of which the informers had old and
\* now have new, enqueue the trigger?  The features have no handler.
TriggerEnqueues(f, old, new) ==
  CASE f = "obj" -> filterTriggers(new)
    [] f = "broker" -> filterTriggers(old) \/ filterTriggers(new)
    [] f = "sa" -> filterOIDCServiceAccounts(old) \/ filterOIDCServiceAccounts(new)
    [] f = "sub" -> {old.sub, new.sub} \ {None, Foreign} # {}
    [] OTHER -> f \in {"subscriber", "sink", "dependency"}

TriggerDependents == {"BrokerReady", "SubscriptionReady", "DependencyReady", "SubscriberResolved",
               "DeadLetterSinkResolved", "OIDCIdentityCreated"}

TriggerNewStatus ==
  [conds |-> MarkTrue(TriggerDependents, InitializeConditions(TriggerDependents), "OIDCIdentityCreated"),
   gen |-> 0, subscriber |-> FALSE, sink |-> "none", auth |-> FALSE]

TriggerDerived == DOMAIN TriggerNewStatus

-----------------------------------------------------------------------------
\* The Mark methods of the status.
TriggerMarkCondition(s, t, v) == Cond(TriggerDependents, s, t, v)

checkBroker(s) ==
  CASE s.seen.broker = None -> Done(TriggerMarkCondition(s, "BrokerReady", "False"))
    [] s.seen.broker # None /\ ~ s.seen.broker.mine -> Done(s)
    [] OTHER -> LET p == TriggerMarkCondition(s, "BrokerReady", s.seen.broker.ready)
                IN IF s.seen.broker.ready = "True" THEN p ELSE Done(p)

resolveSubscriber(s) ==
  LET r == TriggerMarkCondition([s EXCEPT !.st.subscriber = s.seen.subscriber],
                "SubscriberResolved", BoolStatus(s.seen.subscriber))
  IN IF s.seen.subscriber THEN r ELSE Error(r)

\* resolveDeadLetterSink: the trigger's, else the broker's.
TriggerResolveDeadLetterSink(s) ==
  LET Failed == Error(TriggerMarkCondition([s EXCEPT !.st.sink = "none"],
                           "DeadLetterSinkResolved", "False"))
      Resolved(sink) ==
        TriggerMarkCondition([s EXCEPT !.st.sink = sink], "DeadLetterSinkResolved", "True")
  IN CASE s.spec.delivery = "sink" -> IF s.seen.sink THEN Resolved("own") ELSE Failed
       [] s.spec.delivery # "sink" /\ s.seen.broker.sink = "none" -> Resolved("none")
       [] OTHER -> IF s.seen.broker.sink = "set" THEN Resolved("broker") ELSE Failed

\* The subscription that the trigger is to have.  The broker's delivery is used
\* by a trigger without any; with OIDC, dead letters go through the filter.
TriggerNewSubscription(spec, see) ==
  LET sink == CASE spec.delivery = "sink" -> "own"
                [] spec.delivery = "none" /\ see.broker.sink # "none" -> "broker"
                [] OTHER -> "none"
  IN [tls |-> see.tls, oidc |-> see.oidc,
      sink |-> IF see.oidc /\ sink # "none" THEN "filter" ELSE sink, ready |-> "Unknown"]

\* DeepDerivative: what is not set in the expected spec is not compared.
TriggerMatches(expected, actual) ==
  /\ actual.tls = expected.tls
  /\ actual.oidc = expected.oidc
  /\ expected.sink \in {"none", actual.sink}

\* Mutant: the subscription is compared no more once it exists.
TriggerReconcileSubscriptionOnce(s, expected) == s

\* reconcileSubscription: a subscription is replaced, never updated.
TriggerReconcileSubscription(s, expected) ==
  IF TriggerMatches(expected, s.seen.sub) THEN s
  ELSE LET d == Delete(s, "sub") IN Then(d, LAMBDA t : Create(t, "sub", expected))

subscribeToBrokerChannel(s) ==
  LET expected == TriggerNewSubscription(s.spec, s.seen)
  IN CASE s.seen.tls /\ ~ s.seen.secret -> Error(s)
       [] (~ s.seen.tls \/ s.seen.secret) /\ s.seen.sub = None -> Create(s, "sub", expected)
       [] (~ s.seen.tls \/ s.seen.secret) /\ s.seen.sub = Foreign -> Error(s)
       [] OTHER -> TriggerReconcileSubscription(s, expected)

\* PropagateSubscriptionCondition of the subscription found or created.
propagateSubscription(s) ==
  LET kept == s.seen.sub # None /\ TriggerMatches(TriggerNewSubscription(s.spec, s.seen), s.seen.sub)
  IN TriggerMarkCondition(s, "SubscriptionReady", IF kept THEN s.seen.sub.ready ELSE "Unknown")

\* checkDependencyAnnotation and propagateDependencyReadiness.
checkDependencyAnnotation(s) ==
  CASE s.seen.dependency = None -> TriggerMarkCondition(s, "DependencyReady", "True")
    [] s.seen.dependency = "absent" -> Error(TriggerMarkCondition(s, "DependencyReady", "False"))
    [] s.seen.dependency = "stale" -> TriggerMarkCondition(s, "DependencyReady", "Unknown")
    [] OTHER -> TriggerMarkCondition(s, "DependencyReady", s.seen.dependency)

TriggerReconcileKind(s0) ==
  LET s1 == checkBroker(s0)
      s2 == Then(s1, resolveSubscriber)
      s3 == Then(s2, TriggerResolveDeadLetterSink)
      s4 == Then(s3, LAMBDA t : SetupOIDCServiceAccount(TriggerDependents, t))
      Failed(s) == TriggerMarkCondition(s, "SubscriptionReady", "False")
      s5 == Then(s4, LAMBDA t : OnError(subscribeToBrokerChannel(t), Failed))
  IN Then(s5, LAMBDA t : checkDependencyAnnotation(propagateSubscription(t)))

\* The generated reconciler, which is no Finalizer.
\* A new leader enqueues every object of its bucket that the filter keeps.
TriggerPromoteFunc(w) == filterTriggers(w)

TriggerReconcileMethodFor(o) == IF o.deleting THEN "unknown" ELSE "DoReconcileKind"

TriggerSetFinalizerIfFinalizer(existing, s) == s

TriggerReconcile(existing, o, seen, w, fail) ==
  LET s == Begin(existing, o, seen, w, fail)
  IN IF TriggerReconcileMethodFor(existing) = "DoReconcileKind"
     THEN DoReconcileKind(TriggerReconcileKind, TriggerDependents, existing, TriggerSetFinalizerIfFinalizer(existing, s))
     ELSE s

TriggerUpdateStatus(existing, o, desired) == RetryUpdateConflicts(o, desired)

-----------------------------------------------------------------------------
TriggerResponsible(w) == filterTriggers(w)

\* Objects whose changes reach the resource with the next resync only.
TriggerUnwatched == {"tls", "oidc", "secret"}

\* What a ready trigger promises: its subscription is served, on what it needs.
TriggerPromise(spec, w) ==
  /\ w.broker.ready = "True" /\ w.subscriber
  /\ spec.delivery = "sink" => w.sink
  /\ spec.delivery # "sink" => w.broker.sink # "unset"
  /\ w.tls => w.secret
  /\ w.oidc => w.sa \in {"ours", "edited"}
  /\ w.sub \notin {None, Foreign} /\ w.sub.ready = "True"
  /\ w.dependency \in {None, "True"}

\* The subscription is the one the trigger is to have, but for a dead letter
\* sink that was removed.
TriggerProvided(spec, w) ==
  w.broker.ready = "True" /\ w.sub \notin {None, Foreign} =>
     TriggerMatches(TriggerNewSubscription(spec, w), w.sub)

-----------------------------------------------------------------------------
(***************************************************************************)
(* Reconciliation of an EventType (pkg/reconciler/eventtype): whether the  *)
(* resource it refers to exists.                                           *)
(***************************************************************************)

\* Whether the event type refers to a resource.
EventTypeSpecs == [reference : BOOLEAN]

\* resource: what the resolver gets: the resource, none, or another error.
EventTypeStarts == {[resource |-> r] : r \in {"there", None, "broken"}}

EventTypeChildren == {}

EventTypeEnv(w, f) == {"there", None, "broken"}

EventTypeHeal(w, f) == {}

\* NewController: the tracker enqueues for a resource that was looked up.
EventTypeEnqueues(f, old, new) == TRUE

EventTypeDependents == {"ReferenceExists"}

EventTypeNewStatus == [conds |-> InitializeConditions(EventTypeDependents), gen |-> 0]

EventTypeDerived == DOMAIN EventTypeNewStatus

-----------------------------------------------------------------------------
\* The Mark methods of the status.
EventTypeMarkCondition(s, t, v) == Cond(EventTypeDependents, s, t, v)

\* Mutant: a reference that was removed leaves the condition as it is.
ReconcileKindSkips(s) ==
  CASE ~ s.spec.reference -> s
    [] s.spec.reference /\ s.seen.resource = "there" -> EventTypeMarkCondition(s, "ReferenceExists", "True")
    [] s.spec.reference /\ s.seen.resource = None ->
         Error(EventTypeMarkCondition(s, "ReferenceExists", "False"))
    [] OTHER -> Error(EventTypeMarkCondition(s, "ReferenceExists", "Unknown"))

EventTypeReconcileKind(s) ==
  CASE ~ s.spec.reference \/ s.seen.resource = "there" ->
         EventTypeMarkCondition(s, "ReferenceExists", "True")
    [] s.spec.reference /\ s.seen.resource = None ->
         Error(EventTypeMarkCondition(s, "ReferenceExists", "False"))
    [] OTHER -> Error(EventTypeMarkCondition(s, "ReferenceExists", "Unknown"))

\* The generated reconciler, which is no Finalizer.
\* A new leader enqueues every object of its bucket.
EventTypePromoteFunc(w) == TRUE

EventTypeReconcileMethodFor(o) == IF o.deleting THEN "unknown" ELSE "DoReconcileKind"

EventTypeSetFinalizerIfFinalizer(existing, s) == s

EventTypeReconcile(existing, o, seen, w, fail) ==
  LET s == Begin(existing, o, seen, w, fail)
  IN IF EventTypeReconcileMethodFor(existing) = "DoReconcileKind"
     THEN DoReconcileKind(EventTypeReconcileKind, EventTypeDependents, existing, EventTypeSetFinalizerIfFinalizer(existing, s))
     ELSE s

EventTypeUpdateStatus(existing, o, desired) == RetryUpdateConflicts(o, desired)

-----------------------------------------------------------------------------
EventTypePromise(spec, w) == spec.reference => w.resource = "there"

EventTypeProvided(spec, w) == TRUE

-----------------------------------------------------------------------------
(***************************************************************************)
(* Reconciliation of an EventPolicy (pkg/reconciler/eventpolicy): the      *)
(* subjects of the sources it refers to.                                   *)
(***************************************************************************)

\* What the policy refers to: nothing but subjects it names, or a source.
EventPolicySpecs == [refers : BOOLEAN]

\* oidc: the feature; source: the service account in the source's status, None
\* without one.
EventPolicyStarts == [oidc : BOOLEAN, source : {None, "account1"}]

EventPolicyChildren == {}

EventPolicyEnv(w, f) == IF f = "oidc" THEN BOOLEAN ELSE {None, "account1", "account2"}

EventPolicyHeal(w, f) == {}

\* NewController: the feature, and the sources that were resolved.
EventPolicyEnqueues(f, old, new) == TRUE

EventPolicyDependents == {"AuthenticationEnabled", "SubjectsResolved"}

EventPolicyNewStatus == [conds |-> InitializeConditions(EventPolicyDependents), gen |-> 0, from |-> {}]

\* When authentication is disabled, or subjects cannot be resolved, the old ones stay.
EventPolicyDerived == DOMAIN EventPolicyNewStatus \ {"conds"}

-----------------------------------------------------------------------------
\* The Mark methods of the status.
EventPolicyMarkCondition(s, t, v) == Cond(EventPolicyDependents, s, t, v)

\* ResolveSubjects: all or none.
Subjects(s) == IF s.spec.refers THEN {s.seen.source} ELSE {"named"}

Resolve(s) ==
  IF None \in Subjects(s) THEN Error(EventPolicyMarkCondition(s, "SubjectsResolved", "False"))
  ELSE [EventPolicyMarkCondition(s, "SubjectsResolved", "True") EXCEPT !.st.from = Subjects(s)]

EventPolicyReconcileKind(s) ==
  IF s.seen.oidc THEN Resolve(EventPolicyMarkCondition(s, "AuthenticationEnabled", "True"))
  ELSE Done(EventPolicyMarkCondition(s, "AuthenticationEnabled", "False"))

\* The generated reconciler, which is no Finalizer.
\* A new leader enqueues every object of its bucket.
EventPolicyPromoteFunc(w) == TRUE

EventPolicyReconcileMethodFor(o) == IF o.deleting THEN "unknown" ELSE "DoReconcileKind"

EventPolicySetFinalizerIfFinalizer(existing, s) == s

EventPolicyReconcile(existing, o, seen, w, fail) ==
  LET s == Begin(existing, o, seen, w, fail)
  IN IF EventPolicyReconcileMethodFor(existing) = "DoReconcileKind"
     THEN DoReconcileKind(EventPolicyReconcileKind, EventPolicyDependents, existing, EventPolicySetFinalizerIfFinalizer(existing, s))
     ELSE s

EventPolicyUpdateStatus(existing, o, desired) == RetryUpdateConflicts(o, desired)

-----------------------------------------------------------------------------
EventPolicyPromise(spec, w) == w.oidc /\ (spec.refers => w.source # None)

EventPolicyProvided(spec, w) == TRUE

-----------------------------------------------------------------------------
(***************************************************************************)
(* Reconciliation of a RequestReply (pkg/reconciler/requestreply): the key *)
(* in the shared secret, the triggers to the pods of the data plane, the   *)
(* Broker's address, the resource's address.  The triggers of the present  *)
(* replica count are one object here; RequestReplyTriggers has each of     *)
(* them, and what becomes of those of earlier counts, RequestReplySecret   *)
(* the secret that all resources share.                                    *)
(***************************************************************************)

\* The attribute that correlates replies, in the triggers' filter.
RequestReplySpecs == [attribute : {"a1", "a2"}]

(***************************************************************************)
(* secret: the keys' secret as installed, with a key of the resource, or   *)
(* as the controller makes it, which its lister does not show for want of  *)
(* a label; pods: the pods' addresses, None without the StatefulSet;       *)
(* triggers: what they filter, where they lead, and whether they are       *)
(* ready; broker: its address, or that it is not ready.                    *)
(***************************************************************************)
RequestReplyStarts == {[secret |-> "installed", pods |-> "ip1", triggers |-> None, broker |-> "url1"]}

RequestReplyChildren == {"secret", "triggers"}

RequestReplyEnv(w, f) ==
  CASE f = "secret" -> {None, "installed"}
    [] f = "pods" -> {None, "ip1", "ip2"}
    [] f = "broker" -> {None, "notReady", "url1", "url2"}
    [] f = "triggers" /\ w.triggers # None ->
         {None, [w.triggers EXCEPT !.ready = FALSE], [w.triggers EXCEPT !.attribute = "edited"]}
    [] OTHER -> {}

\* The triggers' controller makes them ready.
RequestReplyHeal(w, f) ==
  IF f = "triggers" /\ w.triggers # None THEN {[w.triggers EXCEPT !.ready = TRUE]} ELSE {}

\* NewController: secrets are not watched, pods only through their StatefulSet.  The
\* handler for Brokers enqueues the indices of the resources it lists, hence none.
RequestReplyEnqueues(f, old, new) ==
  CASE f = "pods" -> None \in {old.pods, new.pods}
    [] OTHER -> f \in {"obj", "triggers"}

RequestReplyDependents == {"TriggersReady", "Addressable", "EventPoliciesReady", "BrokerReady"}

RequestReplyNewStatus == [conds |-> InitializeConditions(RequestReplyDependents), gen |-> 0, address |-> FALSE,
              brokerAddress |-> None]

RequestReplyDerived == DOMAIN RequestReplyNewStatus

-----------------------------------------------------------------------------
\* The Mark methods of the status.
RequestReplyMarkCondition(s, t, v) == Cond(RequestReplyDependents, s, t, v)

reconcileAesSecret(s) ==
  CASE s.seen.secret \in {None, "unlabelled"} -> Create(s, "secret", "unlabelled")
    [] s.seen.secret = "installed" -> UpdateInPlace(s, "secret", "ours")
    [] OTHER -> s

createTrigger(spec, see) == [attribute |-> spec.attribute, pods |-> see.pods, ready |-> FALSE]

Equal(have, want) == have.attribute = want.attribute /\ have.pods = want.pods

\* Pods are read from the API server.  A creation of what exists already is ignored;
\* triggers that are updated are not counted as ready.
reconcileTriggers(s) ==
  LET have == s.seen.triggers
      want == createTrigger(s.spec, s.w)
      new == IF s.w.triggers = None \/ s.fail = "triggers" THEN Create(s, "triggers", want) ELSE s
      r == CASE have = None -> new
             [] have # None /\ ~ Equal(have, want) ->
                  UpdateInPlace(s, "triggers", [want EXCEPT !.ready = have.ready])
             [] OTHER -> s
      ready == have # None /\ Equal(have, want) /\ have.ready
  IN IF None \in {s.seen.pods, s.w.pods} THEN Error(s)
     ELSE RequestReplyMarkCondition(r, "TriggersReady", IF ready THEN "True" ELSE "Unknown")

reconcileBrokerAddressAnnotation(s) ==
  CASE s.seen.broker = None -> Error(RequestReplyMarkCondition(s, "BrokerReady", "Unknown"))
    [] s.seen.broker = "notReady" -> Error(RequestReplyMarkCondition(s, "BrokerReady", "False"))
    [] OTHER -> RequestReplyMarkCondition([s EXCEPT !.st.brokerAddress = s.seen.broker],
                     "BrokerReady", "True")

RequestReplyReconcileAddress(s) == RequestReplyMarkCondition([s EXCEPT !.st.address = TRUE], "Addressable", "True")

RequestReplyReconcileKind(s0) ==
  LET s1 == reconcileAesSecret(s0)
      s2 == Then(s1, reconcileTriggers)
      s3 == Then(s2, reconcileBrokerAddressAnnotation)
  IN Then(s3, LAMBDA t : RequestReplyMarkCondition(RequestReplyReconcileAddress(t), "EventPoliciesReady", "True"))

\* The generated reconciler, which is no Finalizer.
\* A new leader enqueues every object of its bucket.
RequestReplyPromoteFunc(w) == TRUE

RequestReplyReconcileMethodFor(o) == IF o.deleting THEN "unknown" ELSE "DoReconcileKind"

RequestReplySetFinalizerIfFinalizer(existing, s) == s

RequestReplyReconcile(existing, o, seen, w, fail) ==
  LET s == Begin(existing, o, seen, w, fail)
  IN IF RequestReplyReconcileMethodFor(existing) = "DoReconcileKind"
     THEN DoReconcileKind(RequestReplyReconcileKind, RequestReplyDependents, existing, RequestReplySetFinalizerIfFinalizer(existing, s))
     ELSE s

RequestReplyUpdateStatus(existing, o, desired) == RetryUpdateConflicts(o, desired)

-----------------------------------------------------------------------------
\* Objects whose changes reach the resource with the next resync only.
RequestReplyUnwatched == {"secret", "pods", "broker"}

RequestReplyPromise(spec, w) == w.triggers # None /\ w.triggers.ready /\ w.broker \in {"url1", "url2"}

\* No condition tells that the StatefulSet is missing, or that the secret is not seen.
RequestReplyHidden(spec, w) == w.pods = None \/ w.secret = "unlabelled"

RequestReplyProvided(spec, w) ==
  /\ w.secret \in {"ours", "unlabelled"}
  /\ w.triggers # None /\ w.triggers.attribute = spec.attribute /\ w.triggers.pods = w.pods

-----------------------------------------------------------------------------
(***************************************************************************)
(* The sugar controllers (pkg/reconciler/sugar/namespace and .../trigger): *)
(* a namespace, or a trigger, that the selector of config-sugar matches    *)
(* has a Broker.  They write no status, and never delete the Broker.       *)
(***************************************************************************)

\* Whether it has the label that selectors ask for.
SugarSpecs == [label : BOOLEAN]

\* selector: what the configuration selects; broker: None or there.
SugarStarts == [selector : {"none", "labelled", "all"}, broker : {None}]

SugarChildren == {"broker"}

SugarEnv(w, f) == IF f = "selector" THEN {"none", "labelled", "all"} ELSE {None, "there"}

SugarHeal(w, f) == {}

\* NewController: a namespace is enqueued when Brokers are deleted, a trigger when
\* its Broker changes.  Nothing is enqueued for the configuration.
SugarEnqueues(of, f, old, new) ==
  CASE f = "broker" -> new.broker = None \/ of = "Trigger"
    [] OTHER -> f = "obj"

SugarNewStatus == [conds |-> InitializeConditions({}), gen |-> 0]

SugarDerived == {}

-----------------------------------------------------------------------------
SugarMatches(spec, w) == w.selector = "all" \/ (w.selector = "labelled" /\ spec.label)

SugarReconcileKind(s) ==
  IF SugarMatches(s.spec, s.seen) /\ s.seen.broker = None THEN Create(s, "broker", "there") ELSE s

\* The generated reconciler, with SkipStatusUpdates.
SugarReconcile(existing, o, seen, w, fail) ==
  LET s == Begin(existing, o, seen, w, fail)
  IN IF existing.deleting THEN s ELSE SugarReconcileKind(s)

SugarUpdateStatus(existing, o, desired) == [o |-> o, err |-> "nil"]

\* A new leader enqueues every object of its bucket.
SugarPromoteFunc(w) == TRUE

-----------------------------------------------------------------------------
\* Objects whose changes reach the resource with the next resync only.
SugarUnwatched == {"selector"}

SugarPromise(spec, w) == FALSE

SugarProvided(spec, w) == SugarMatches(spec, w) => w.broker # None

===============================================================================
