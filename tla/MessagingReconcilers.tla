------------------------- MODULE MessagingReconcilers -------------------------
(***************************************************************************)
(* The reconcilers of Channels, InMemoryChannels and of the flows made of  *)
(* channels, Sequences and Parallels.                                      *)
(***************************************************************************)
EXTENDS Reconciliation

-----------------------------------------------------------------------------
(***************************************************************************)
(* Reconciliation of a Channel (pkg/reconciler/channel): the backing       *)
(* channel its template asks for, whose status it takes over, and copies   *)
(* for the backing channel of the event policies that apply to it.         *)
(***************************************************************************)

\* delivery: spec.delivery names a dead letter sink.
ChannelSpecs == [delivery : BOOLEAN]

(***************************************************************************)
(* backing: the backing channel: its dead letter sink, its readiness,      *)
(* whether it has an address and has resolved its dead letter sink; copy:  *)
(* the copy of the policies, also as edited by a user.                     *)
(***************************************************************************)
ChannelStarts ==
  {[backing |-> None, policies |-> p, copy |-> None] : p \in {"none", "ready"}}

ChannelChildren == {"backing", "copy"}

ChannelEnv(w, f) ==
  CASE f = "policies" -> Policies
    [] f = "backing" /\ w.backing # None ->
         {None} \union {[w.backing EXCEPT !.ready = r] : r \in Statuses} \union
         {[w.backing EXCEPT !.addr = FALSE], [w.backing EXCEPT !.resolved = FALSE]}
    [] f = "copy" /\ w.copy # None -> {None, "edited"}
    [] OTHER -> {}

ChannelHeal(w, f) ==
  IF f = "backing" /\ w.backing # None
  THEN {[w.backing EXCEPT !.ready = "True", !.addr = TRUE, !.resolved = w.backing.sink]} ELSE {}

\* NewController: copies apply to the backing channel, which is not a Channel.
ChannelEnqueues(f, old, new) == f \in {"obj", "backing", "policies"}

ChannelDependents == {"BackingChannelReady", "Addressable", "DeadLetterSinkResolved",
               "EventPoliciesReady"}

ChannelNewStatus == [conds |-> InitializeConditions(ChannelDependents), gen |-> 0, address |-> FALSE,
              sink |-> FALSE, policies |-> FALSE]

ChannelDerived == DOMAIN ChannelNewStatus

-----------------------------------------------------------------------------
\* The Mark methods of the status.
ChannelMarkCondition(s, t, v) == Cond(ChannelDependents, s, t, v)

\* The backing channel as created.
ChannelNewPhysicalChannel(spec) ==
  [sink |-> spec.delivery, ready |-> "Unknown", addr |-> FALSE, resolved |-> FALSE]

\* reconcileBackingChannel: an existing one is taken as it is.
reconcileBackingChannel(s) ==
  LET c == IF s.seen.backing = None THEN Create(s, "backing", ChannelNewPhysicalChannel(s.spec)) ELSE s
  IN OnError(c, LAMBDA t : ChannelMarkCondition(t, "BackingChannelReady", "False"))

Backing(s) == IF s.seen.backing = None THEN ChannelNewPhysicalChannel(s.spec) ELSE s.seen.backing

\* PropagateStatuses, with SetAddress.
PropagateStatuses(s) ==
  LET b == Backing(s)
  IN ChannelMarkCondition(ChannelMarkCondition([s EXCEPT !.st.address = b.addr], "BackingChannelReady", b.ready),
          "Addressable", BoolStatus(b.addr))

\* The dead letter sink as the backing channel has resolved it.
markDeadLetterSink(s) ==
  LET resolved == s.spec.delivery /\ Backing(s).resolved
  IN ChannelMarkCondition([s EXCEPT !.st.sink = resolved], "DeadLetterSinkResolved",
          BoolStatus(s.spec.delivery => resolved))

ChannelMakeEventPolicyForBackingChannel == "ours"

reconcileBackingChannelEventPolicy(s) ==
  CASE s.seen.copy = None -> Create(s, "copy", ChannelMakeEventPolicyForBackingChannel)
    [] s.seen.copy = "edited" -> Update(s, "copy", ChannelMakeEventPolicyForBackingChannel)
    [] OTHER -> s

\* Mutant: the copies deleted are those that apply to the backing channel.
reconcileBackingChannelEventPoliciesInverted(s) ==
  LET p == IF s.seen.policies # "none" THEN reconcileBackingChannelEventPolicy(s) ELSE s
  IN IF Ok(p) /\ s.seen.copy = "ours" THEN DeleteIfThere(p, "copy") ELSE p

\* reconcileBackingChannelEventPolicies: only copies that no longer apply to the
\* backing channel, having been edited, are deleted, and of the errors of that
\* only NotFound is returned.
reconcileBackingChannelEventPolicies(s) ==
  LET p == IF s.seen.policies # "none" THEN reconcileBackingChannelEventPolicy(s) ELSE s
  IN Then(p, LAMBDA t :
            CASE s.seen.copy = "edited" /\ s.w.copy = None -> Error(t)
              [] s.seen.copy = "edited" /\ s.w.copy # None /\ s.fail # "copy" ->
                   Write(t, "copy", None)
              [] OTHER -> t)

ChannelReconcileKind(s0) ==
  LET s1 == reconcileBackingChannel(s0)
      s2 == Then(s1, LAMBDA t : markDeadLetterSink(PropagateStatuses(t)))
      s3 == Then(s2, LAMBDA t : UpdateStatusWithEventPolicies(ChannelDependents, t))
  IN Then(s3, reconcileBackingChannelEventPolicies)

\* The generated reconciler, which is no Finalizer.
\* A new leader enqueues every object of its bucket.
ChannelPromoteFunc(w) == TRUE

ChannelReconcileMethodFor(o) == IF o.deleting THEN "unknown" ELSE "DoReconcileKind"

ChannelSetFinalizerIfFinalizer(existing, s) == s

ChannelReconcile(existing, o, seen, w, fail) ==
  LET s == Begin(existing, o, seen, w, fail)
  IN IF ChannelReconcileMethodFor(existing) = "DoReconcileKind"
     THEN DoReconcileKind(ChannelReconcileKind, ChannelDependents, existing, ChannelSetFinalizerIfFinalizer(existing, s))
     ELSE s

ChannelUpdateStatus(existing, o, desired) == RetryUpdateConflicts(o, desired)

-----------------------------------------------------------------------------
\* Objects whose changes reach the resource with the next resync only.
ChannelUnwatched == {"copy"}

ChannelPromise(spec, w) ==
  /\ w.backing # None /\ w.backing.ready = "True" /\ w.backing.addr
  /\ spec.delivery => w.backing.resolved
  /\ w.policies # "notReady"

ChannelProvided(spec, w) ==
  /\ w.backing # None
  /\ w.policies # "none" => w.copy = "ours"

-----------------------------------------------------------------------------
(***************************************************************************)
(* Reconciliation of an InMemoryChannel's control plane                    *)
(* (pkg/reconciler/inmemorychannel/controller): the dispatcher, which the  *)
(* release brings along or, in namespace scope, the reconciler creates;    *)
(* the channel's own service, dead letter sink, addresses and policies.    *)
(***************************************************************************)

\* delivery: spec.delivery names a dead letter sink.
InMemoryChannelSpecs == [delivery : BOOLEAN]

(***************************************************************************)
(* scoped: the scope annotation asks for a dispatcher in the namespace;    *)
(* sa, binding, reader: its service account and role bindings; dispatcher: *)
(* its deployment's Available condition, "new" while it has none; service: *)
(* its service; endpoints: some are ready; channel: the channel's service, *)
(* also as edited, as somebody else's, or that one with our spec ("taken").*)
(***************************************************************************)
InMemoryChannelStarts ==
  {[scoped |-> FALSE, sa |-> None, binding |-> None, reader |-> None, dispatcher |-> "True",
    service |-> "there", endpoints |-> TRUE, channel |-> None, sink |-> TRUE, tls |-> tls,
    secret |-> TRUE, oidc |-> FALSE, policies |-> "none"] :
      tls \in {"disabled", "permissive", "strict"}}
  \union
  {[scoped |-> TRUE, sa |-> None, binding |-> None, reader |-> None, dispatcher |-> None,
    service |-> None, endpoints |-> FALSE, channel |-> None, sink |-> TRUE,
    tls |-> "disabled", secret |-> TRUE, oidc |-> TRUE, policies |-> "ready"]}

InMemoryChannelChildren == {"sa", "binding", "reader", "dispatcher", "service", "channel"}

InMemoryChannelEnv(w, f) ==
  CASE f \in {"endpoints", "sink", "secret", "oidc"} -> BOOLEAN
    [] f = "tls" -> {"disabled", "permissive", "strict"}
    [] f = "policies" -> Policies
    [] f = "dispatcher" /\ w.dispatcher # None -> {None} \union Statuses
    [] f \in {"sa", "binding", "reader", "service"} /\ w[f] # None -> {None}
    [] f = "channel" -> {None, Foreign} \union (IF w.channel = None THEN {} ELSE {"edited"})
    [] OTHER -> {}

\* A dispatcher gets available, and its service gets endpoints.
InMemoryChannelHeal(w, f) ==
  CASE f = "dispatcher" /\ w.dispatcher # None -> {"True"}
    [] f = "endpoints" /\ w.dispatcher = "True" /\ w.service # None -> {TRUE}
    [] OTHER -> {}

\* NewController: all objects of the dispatcher's name; the role binding in the
\* system namespace and the channel's service have other names.
InMemoryChannelEnqueues(f, old, new) == f \notin {"reader", "channel"}

InMemoryChannelDependents == {"ServiceReady", "EndpointsReady", "Addressable", "ChannelServiceReady",
               "DeadLetterSinkResolved", "EventPoliciesReady"}

InMemoryChannelNewStatus == [conds |-> InitializeConditions(InMemoryChannelDependents), gen |-> 0, sink |-> FALSE,
              address |-> None, addresses |-> {}, audience |-> FALSE, policies |-> FALSE]

\* Addresses are left over when transport encryption is disabled, and the
\* condition of the dispatcher is none of those that are initialised.
InMemoryChannelDerived == DOMAIN InMemoryChannelNewStatus \ {"addresses", "conds"}

-----------------------------------------------------------------------------
\* The Mark methods of the status.
InMemoryChannelMarkCondition(s, t, v) == Cond(InMemoryChannelDependents, s, t, v)

\* newDeploymentWarn and the like: the failure becomes an event, not an error
\* that is retried.
Warn(s) == IF s.err = "error" THEN Done(s) ELSE s

CreateIfNone(s, f, v) == IF s.seen[f] = None THEN Warn(Create(s, f, v)) ELSE s

\* reconcileServiceAccount and both calls of reconcileRoleBinding.
reconcileAccount(s) ==
  LET a == CreateIfNone(s, "sa", "there")
      b == Then(a, LAMBDA t : CreateIfNone(t, "binding", "there"))
  IN Then(b, LAMBDA t : CreateIfNone(t, "reader", "there"))

\* A dispatcher whose status the deployment controller has not set.
MakeDispatcher == "new"

reconcileDispatcher(s) ==
  LET a == IF s.seen.scoped THEN reconcileAccount(s) ELSE s
  IN Then(a, LAMBDA t :
            CASE t.seen.dispatcher = None /\ t.seen.scoped ->
                   Warn(Create(t, "dispatcher", MakeDispatcher))
              [] t.seen.dispatcher = None /\ ~ t.seen.scoped ->
                   Done(InMemoryChannelMarkCondition(t, "DispatcherReady", "False"))
              [] OTHER -> t)

\* PropagateDispatcherStatus: DispatcherReady, on which Ready does not depend.
PropagateDispatcherStatus(s) ==
  IF s.seen.dispatcher \in Statuses
  THEN InMemoryChannelMarkCondition(s, "DispatcherReady", s.seen.dispatcher) ELSE s

reconcileDispatcherService(s) ==
  CASE s.seen.service = None /\ s.seen.scoped ->
         LET c == Warn(Create(s, "service", "there"))
         IN Then(c, LAMBDA t : InMemoryChannelMarkCondition(t, "ServiceReady", "True"))
    [] s.seen.service = None /\ ~ s.seen.scoped ->
         Done(InMemoryChannelMarkCondition(s, "ServiceReady", "False"))
    [] OTHER -> InMemoryChannelMarkCondition(s, "ServiceReady", "True")

checkEndpoints(s) ==
  LET c == InMemoryChannelMarkCondition(s, "EndpointsReady", BoolStatus(s.seen.endpoints))
  IN IF s.seen.endpoints THEN c ELSE Error(c)

NewK8sService == "ours"

\* reconcileChannelService: a service with another spec is overwritten before
\* its owner is looked at.
reconcileChannelService(s) ==
  LET c == CASE s.seen.channel = None -> Create(s, "channel", NewK8sService)
             [] s.seen.channel = "edited" -> Update(s, "channel", NewK8sService)
             [] s.seen.channel = Foreign -> Error(Update(s, "channel", "taken"))
             [] s.seen.channel = "taken" -> Error(s)
             [] OTHER -> s
  IN InMemoryChannelMarkCondition(c, "ChannelServiceReady", BoolStatus(Ok(c)))

InMemoryChannelResolveDeadLetterSink(s) ==
  LET resolved == s.spec.delivery /\ s.seen.sink
      c == InMemoryChannelMarkCondition([s EXCEPT !.st.sink = resolved], "DeadLetterSinkResolved",
                BoolStatus(s.spec.delivery => resolved))
  IN IF s.spec.delivery => resolved THEN c ELSE Error(c)

InMemoryChannelSetAddresses(s) ==
  CASE s.seen.tls = "disabled" -> [s EXCEPT !.st.address = "http"]
    [] s.seen.tls # "disabled" /\ ~ s.seen.secret -> Error(s)
    [] s.seen.tls = "permissive" /\ s.seen.secret ->
         [s EXCEPT !.st.address = "http", !.st.addresses = {"https", "http"}]
    [] OTHER -> [s EXCEPT !.st.address = "https", !.st.addresses = {"https"}]

InMemoryChannelMarkAddressable(s) ==
  InMemoryChannelMarkCondition([s EXCEPT !.st.audience = s.seen.oidc], "Addressable", "True")

InMemoryChannelReconcileKind(s0) ==
  LET s1 == reconcileDispatcher(s0)
      s2 == Then(s1, LAMBDA t : reconcileDispatcherService(PropagateDispatcherStatus(t)))
      s3 == Then(s2, checkEndpoints)
      s4 == Then(s3, reconcileChannelService)
      s5 == Then(s4, InMemoryChannelResolveDeadLetterSink)
      s6 == Then(s5, InMemoryChannelSetAddresses)
  IN Then(s6, LAMBDA t : UpdateStatusWithEventPolicies(InMemoryChannelDependents, InMemoryChannelMarkAddressable(t)))

\* The generated reconciler, which is no Finalizer.
\* A new leader enqueues every object of its bucket.
InMemoryChannelPromoteFunc(w) == TRUE

InMemoryChannelReconcileMethodFor(o) == IF o.deleting THEN "unknown" ELSE "DoReconcileKind"

InMemoryChannelSetFinalizerIfFinalizer(existing, s) == s

InMemoryChannelReconcile(existing, o, seen, w, fail) ==
  LET s == Begin(existing, o, seen, w, fail)
  IN IF InMemoryChannelReconcileMethodFor(existing) = "DoReconcileKind"
     THEN DoReconcileKind(InMemoryChannelReconcileKind, InMemoryChannelDependents, existing, InMemoryChannelSetFinalizerIfFinalizer(existing, s))
     ELSE s

InMemoryChannelUpdateStatus(existing, o, desired) == RetryUpdateConflicts(o, desired)

-----------------------------------------------------------------------------
\* Without the dispatcher's deployment nothing else is looked at.
InMemoryChannelResponsible(w) == w.scoped \/ w.dispatcher # None

\* Objects whose changes reach the resource with the next resync only.
InMemoryChannelUnwatched == {"reader", "channel"}

InMemoryChannelPromise(spec, w) ==
  /\ w.service # None /\ w.endpoints /\ w.channel = "ours"
  /\ spec.delivery => w.sink
  /\ w.tls # "disabled" => w.secret
  /\ w.policies # "notReady"

\* No condition tells that the CA certificates are missing.
InMemoryChannelHidden(spec, w) == w.tls # "disabled" /\ ~ w.secret

InMemoryChannelProvided(spec, w) ==
  /\ w.scoped => w.sa # None /\ w.binding # None /\ w.reader # None /\ w.dispatcher # None
  /\ w.endpoints /\ w.service # None => w.channel = "ours"

-----------------------------------------------------------------------------
(***************************************************************************)
(* Reconciliation of a Sequence (pkg/reconciler/sequence) of up to two     *)
(* steps: a channel and a subscription for every step, and policies that   *)
(* let only the flow itself send to the second channel.                    *)
(***************************************************************************)

SequenceSpecs == [steps : 1..2]

SequenceChannels == <<"channel1", "channel2">>
SequenceSubscriptions == <<"sub1", "sub2">>

(***************************************************************************)
(* inner: the policy for the second channel; input: the copy for the first *)
(* channel of the policies that apply to the Sequence.                     *)
(***************************************************************************)
SequenceStarts ==
  {[channel1 |-> None, channel2 |-> None, sub1 |-> None, sub2 |-> None, oidc |-> on,
    policies |-> IF on THEN "ready" ELSE "none", inner |-> None, input |-> None] :
      on \in BOOLEAN}

SequenceChildren == {"channel1", "channel2", "sub1", "sub2", "inner", "input"}

SequenceEnv(w, f) ==
  CASE f = "oidc" -> BOOLEAN
    [] f = "policies" -> Policies
    [] f \in {"channel1", "channel2"} -> EnvChannel(w[f])
    [] f \in {"sub1", "sub2"} -> EnvSubscription(w[f])
    [] f \in {"inner", "input"} -> EnvPolicy(w[f])

SequenceHeal(w, f) == HealInOrder(w, SequenceChannels \o SequenceSubscriptions, f)

\* NewController: its own policies are for channels, not for Sequences.
SequenceEnqueues(f, old, new) ==
  CASE f \in {"sub1", "sub2"} -> Owned(old[f]) \/ Owned(new[f])
    [] OTHER -> f \notin {"inner", "input"}

SequenceDependents == {"ChannelsReady", "SubscriptionsReady", "Addressable", "EventPoliciesReady"}

SequenceNewStatus == [conds |-> InitializeConditions(SequenceDependents), gen |-> 0, address |-> FALSE,
              channels |-> <<>>, subs |-> <<>>, policies |-> FALSE]

SequenceDerived == DOMAIN SequenceNewStatus

-----------------------------------------------------------------------------
\* The Mark methods of the status.
SequenceMarkCondition(s, t, v) == Cond(SequenceDependents, s, t, v)

SequenceReconcileChannels(s) ==
  LET c1 == reconcileChannel(s, "channel1")
      c2 == Then(c1, LAMBDA t : IF t.spec.steps = 2 THEN reconcileChannel(t, "channel2") ELSE t)
  IN OnError(c2, LAMBDA t : SequenceMarkCondition(t, "ChannelsReady", "Unknown"))

\* PropagateChannelStatuses, with setAddress.
SequencePropagateChannelStatuses(s) ==
  LET ready == [i \in 1..s.spec.steps |-> ChannelOf(s, SequenceChannels[i]).ready]
      addr == ChannelOf(s, "channel1").addr
  IN SequenceMarkCondition(SequenceMarkCondition([s EXCEPT !.st.address = addr, !.st.channels = ready],
               "Addressable", IF addr THEN "True" ELSE "Unknown"),
          "ChannelsReady", IF \A i \in DOMAIN ready : ready[i] = "True" THEN "True" ELSE "Unknown")

\* The last step replies to where the Sequence says, the others to the next channel.
Reply(spec, i) == IF i < spec.steps THEN "next" ELSE "reply"

SequenceReconcileSubscription(s, i) ==
  LET f == SequenceSubscriptions[i]
      reply == Reply(s.spec, i)
  IN CASE s.seen[f] = None -> Create(s, f, NewSubscription(reply))
       [] s.seen[f] = Foreign -> replaceSubscription(s, f, reply)
       [] Owned(s.seen[f]) /\ s.seen[f].reply # reply ->
            Update(s, f, [s.seen[f] EXCEPT !.reply = reply])
       [] OTHER -> s

reconcileSubscriptions(s) ==
  LET b1 == SequenceReconcileSubscription(s, 1)
      b2 == Then(b1, LAMBDA t : IF t.spec.steps = 2 THEN SequenceReconcileSubscription(t, 2) ELSE t)
  IN OnError(b2, LAMBDA t : SequenceMarkCondition(t, "SubscriptionsReady", "Unknown"))

\* The subscriptions as the API server returned or the lister showed them.
SequencePropagateSubscriptionStatuses(s) ==
  LET ready == [i \in 1..s.spec.steps |->
                  IF Owned(s.seen[SequenceSubscriptions[i]]) THEN s.seen[SequenceSubscriptions[i]].ready
                  ELSE "Unknown"]
  IN SequenceMarkCondition([s EXCEPT !.st.subs = ready], "SubscriptionsReady",
          IF \A i \in DOMAIN ready : ready[i] = "True" THEN "True" ELSE "Unknown")

\* Policies for all channels but the first.
MakeEventPolicyForSequenceChannel(spec) == IF spec.steps = 2 THEN {"inner"} ELSE {}

\* The policies of the Sequence, for its first channel.
prepareInputChannelEventPolicy(see) == IF see.policies = "none" THEN {} ELSE {"input"}

WantedPolicies(s) ==
  MakeEventPolicyForSequenceChannel(s.spec) \union prepareInputChannelEventPolicy(s.seen)

\* Mutant: without OIDC the policies stay.
reconcileEventPoliciesOnly(s) ==
  IF s.seen.oidc THEN writeEventPolicies(s, <<"inner", "input">>, WantedPolicies(s)) ELSE s

\* reconcileEventPolicies: without OIDC they are all deleted.
SequenceReconcileEventPolicies(s) ==
  writeEventPolicies(s, <<"inner", "input">>, IF s.seen.oidc THEN WantedPolicies(s) ELSE {})

SequenceReconcileKind(s0) ==
  LET s1 == SequenceReconcileChannels(s0)
      s2 == Then(s1, LAMBDA t : reconcileSubscriptions(SequencePropagateChannelStatuses(t)))
      s3 == Then(s2, SequencePropagateSubscriptionStatuses)
      s4 == Then(s3, LAMBDA t : IF t.spec.steps = 1 THEN removeUnwanted(t, "channel2") ELSE t)
      s5 == Then(s4, SequenceReconcileEventPolicies)
      s6 == Then(s5, LAMBDA t : UpdateStatusWithEventPolicies(SequenceDependents, t))
  IN Then(s6, LAMBDA t : IF t.spec.steps = 1 THEN removeUnwanted(t, "sub2") ELSE t)

\* The generated reconciler, which is no Finalizer.
\* A new leader enqueues every object of its bucket.
SequencePromoteFunc(w) == TRUE

SequenceReconcileMethodFor(o) == IF o.deleting THEN "unknown" ELSE "DoReconcileKind"

SequenceSetFinalizerIfFinalizer(existing, s) == s

SequenceReconcile(existing, o, seen, w, fail) ==
  LET s == Begin(existing, o, seen, w, fail)
  IN IF SequenceReconcileMethodFor(existing) = "DoReconcileKind"
     THEN DoReconcileKind(SequenceReconcileKind, SequenceDependents, existing, SequenceSetFinalizerIfFinalizer(existing, s))
     ELSE s

SequenceUpdateStatus(existing, o, desired) == RetryUpdateConflicts(o, desired)

-----------------------------------------------------------------------------
\* Objects whose changes reach the resource with the next resync only.
SequenceUnwatched == {"inner", "input"}

SequencePromise(spec, w) ==
  /\ \A i \in 1..spec.steps :
       /\ w[SequenceChannels[i]] # None /\ w[SequenceChannels[i]].ready = "True"
       /\ Owned(w[SequenceSubscriptions[i]]) /\ w[SequenceSubscriptions[i]].ready = "True"
  /\ w.channel1.addr
  /\ w.policies # "notReady"

SequenceProvided(spec, w) ==
  /\ \A i \in 1..spec.steps :
       w[SequenceChannels[i]] # None /\ Owned(w[SequenceSubscriptions[i]]) /\ w[SequenceSubscriptions[i]].reply = Reply(spec, i)
  /\ spec.steps = 1 => w.channel2 = None /\ ~ Owned(w.sub2)
  /\ w.inner = IF w.oidc /\ spec.steps = 2 THEN "ours" ELSE None
  /\ w.input = IF w.oidc /\ w.policies # "none" THEN "ours" ELSE None

-----------------------------------------------------------------------------
(***************************************************************************)
(* Reconciliation of a Parallel (pkg/reconciler/parallel) of up to two     *)
(* branches: the ingress channel, and for every branch a channel, the      *)
(* subscription of its filter to the ingress and that of its subscriber.   *)
(***************************************************************************)

\* reply: where all branches reply to.
ParallelSpecs == {[branches |-> 1, reply |-> "a"], [branches |-> 2, reply |-> "a"],
          [branches |-> 2, reply |-> "b"]}

ParallelChannels == <<"channel1", "channel2">>
Filters == <<"filter1", "filter2">>
ParallelSubscriptions == <<"sub1", "sub2">>
Inner == <<"inner1", "inner2">>

(***************************************************************************)
(* inner: the policies for the channels of the branches; input: the copy   *)
(* for the ingress channel of the policies that apply to the Parallel.     *)
(***************************************************************************)
ParallelStarts ==
  {[ingress |-> None, channel1 |-> None, channel2 |-> None, filter1 |-> None,
    filter2 |-> None, sub1 |-> None, sub2 |-> None, oidc |-> TRUE, policies |-> "ready",
    inner1 |-> None, inner2 |-> None, input |-> None]}

ParallelChildren == {"ingress", "channel1", "channel2", "filter1", "filter2", "sub1", "sub2",
             "inner1", "inner2", "input"}

ParallelEnv(w, f) ==
  CASE f = "oidc" -> BOOLEAN
    [] f = "policies" -> Policies
    [] f \in {"ingress", "channel1", "channel2"} -> EnvChannel(w[f])
    [] f \in {"filter1", "filter2", "sub1", "sub2"} -> EnvSubscription(w[f])
    [] f \in {"inner1", "inner2", "input"} -> EnvPolicy(w[f])

ParallelHeal(w, f) == HealInOrder(w, <<"ingress">> \o ParallelChannels \o Filters \o ParallelSubscriptions, f)

\* NewController: globalResync is never assigned, so features are not watched.
ParallelEnqueues(f, old, new) ==
  CASE f \in {"filter1", "filter2", "sub1", "sub2"} -> Owned(old[f]) \/ Owned(new[f])
    [] OTHER -> f \notin {"inner1", "inner2", "input", "oidc"}

ParallelDependents == {"ChannelsReady", "SubscriptionsReady", "Addressable", "EventPoliciesReady"}

ParallelNewStatus == [conds |-> InitializeConditions(ParallelDependents), gen |-> 0, address |-> FALSE,
              channels |-> <<>>, subs |-> <<>>, policies |-> FALSE]

ParallelDerived == DOMAIN ParallelNewStatus

-----------------------------------------------------------------------------
\* The Mark methods of the status.
ParallelMarkCondition(s, t, v) == Cond(ParallelDependents, s, t, v)

ParallelReconcileChannels(s) ==
  LET c0 == reconcileChannel(s, "ingress")
      c1 == Then(c0, LAMBDA t : reconcileChannel(t, "channel1"))
      c2 == Then(c1, LAMBDA t : IF t.spec.branches = 2 THEN reconcileChannel(t, "channel2") ELSE t)
  IN OnError(c2, LAMBDA t : ParallelMarkCondition(t, "ChannelsReady", "False"))

\* PropagateChannelStatuses, with setAddress: a channel with an address is ready.
ParallelPropagateChannelStatuses(s) ==
  LET addr == ChannelOf(s, "ingress").addr
      ready == [i \in 1..s.spec.branches |-> ChannelOf(s, ParallelChannels[i]).addr]
  IN ParallelMarkCondition(ParallelMarkCondition([s EXCEPT !.st.address = addr, !.st.channels = ready],
               "Addressable", BoolStatus(addr)),
          "ChannelsReady", BoolStatus(addr /\ \A i \in DOMAIN ready : ready[i]))

\* reconcileSubscription: the update comes without a resource version, which the
\* API server refuses for a custom resource.
ParallelReconcileSubscription(s, f, reply) ==
  CASE s.seen[f] = None -> Create(s, f, NewSubscription(reply))
    [] s.seen[f] = Foreign -> replaceSubscription(s, f, reply)
    [] Owned(s.seen[f]) /\ s.seen[f].reply # reply -> Error(s)
    [] OTHER -> s

\* reconcileBranch: its errors are shown by no condition.
reconcileBranch(s, i) ==
  LET b == ParallelReconcileSubscription(s, Filters[i], "channel")
  IN Then(b, LAMBDA t : ParallelReconcileSubscription(t, ParallelSubscriptions[i], s.spec.reply))

SubscriptionReady(see, f) == IF Owned(see[f]) THEN see[f].ready ELSE "Unknown"

ParallelPropagateSubscriptionStatuses(s) ==
  LET ready == [i \in 1..s.spec.branches |->
                  <<SubscriptionReady(s.seen, Filters[i]),
                    SubscriptionReady(s.seen, ParallelSubscriptions[i])>>]
  IN ParallelMarkCondition([s EXCEPT !.st.subs = ready], "SubscriptionsReady",
          BoolStatus(\A i \in DOMAIN ready : ready[i] = <<"True", "True">>))

\* removeUnwantedChannels and removeUnwantedSubscriptions, in order of name.
removeBranch(s) ==
  LET c == removeUnwanted(s, "channel2")
      b == Then(c, LAMBDA t : removeUnwanted(t, "sub2"))
  IN Then(b, LAMBDA t : removeUnwanted(t, "filter2"))

\* A policy for the channel of each branch.
MakeEventPolicyForParallelChannel(spec) == {Inner[i] : i \in 1..spec.branches}

\* The policies of the Parallel, for its ingress channel.
prepareIngressChannelEventpolicies(see) == IF see.policies = "none" THEN {} ELSE {"input"}

\* reconcileEventPolicies: without OIDC they are all deleted.
ParallelReconcileEventPolicies(s) ==
  writeEventPolicies(s, Inner \o <<"input">>,
    IF s.seen.oidc
    THEN MakeEventPolicyForParallelChannel(s.spec) \union prepareIngressChannelEventpolicies(s.seen)
    ELSE {})

ParallelReconcileKind(s0) ==
  LET s1 == ParallelReconcileChannels(s0)
      s2 == Then(s1, LAMBDA t : reconcileBranch(ParallelPropagateChannelStatuses(t), 1))
      s3 == Then(s2, LAMBDA t : IF t.spec.branches = 2 THEN reconcileBranch(t, 2) ELSE t)
      s4 == Then(s3, ParallelPropagateSubscriptionStatuses)
      s5 == Then(s4, LAMBDA t : IF t.spec.branches = 1 THEN removeBranch(t) ELSE t)
      s6 == Then(s5, ParallelReconcileEventPolicies)
  IN Then(s6, LAMBDA t : UpdateStatusWithEventPolicies(ParallelDependents, t))

\* The generated reconciler, which is no Finalizer.
\* A new leader enqueues every object of its bucket.
ParallelPromoteFunc(w) == TRUE

ParallelReconcileMethodFor(o) == IF o.deleting THEN "unknown" ELSE "DoReconcileKind"

ParallelSetFinalizerIfFinalizer(existing, s) == s

ParallelReconcile(existing, o, seen, w, fail) ==
  LET s == Begin(existing, o, seen, w, fail)
  IN IF ParallelReconcileMethodFor(existing) = "DoReconcileKind"
     THEN DoReconcileKind(ParallelReconcileKind, ParallelDependents, existing, ParallelSetFinalizerIfFinalizer(existing, s))
     ELSE s

ParallelUpdateStatus(existing, o, desired) == RetryUpdateConflicts(o, desired)

-----------------------------------------------------------------------------
\* Objects whose changes reach the resource with the next resync only.
ParallelUnwatched == {"inner1", "inner2", "input", "oidc"}

ParallelPromise(spec, w) ==
  /\ w.ingress # None /\ w.ingress.addr
  /\ \A i \in 1..spec.branches :
       /\ w[ParallelChannels[i]] # None /\ w[ParallelChannels[i]].addr
       /\ SubscriptionReady(w, Filters[i]) = "True"
       /\ SubscriptionReady(w, ParallelSubscriptions[i]) = "True"
  /\ w.policies # "notReady"

\* No condition tells that a subscription cannot be updated.
ParallelHidden(spec, w) ==
  \E i \in 1..spec.branches :
    \/ Owned(w[Filters[i]]) /\ w[Filters[i]].reply # "channel"
    \/ Owned(w[ParallelSubscriptions[i]]) /\ w[ParallelSubscriptions[i]].reply # spec.reply

ParallelProvided(spec, w) ==
  /\ w.ingress # None
  /\ \A i \in 1..spec.branches :
       /\ w[ParallelChannels[i]] # None
       /\ Owned(w[Filters[i]]) /\ w[Filters[i]].reply = "channel"
       /\ Owned(w[ParallelSubscriptions[i]]) /\ w[ParallelSubscriptions[i]].reply = spec.reply
       /\ w[Inner[i]] = IF w.oidc THEN "ours" ELSE None
  /\ spec.branches = 1 =>
       w.channel2 = None /\ ~ Owned(w.filter2) /\ ~ Owned(w.sub2) /\ w.inner2 = None
  /\ w.input = IF w.oidc /\ w.policies # "none" THEN "ours" ELSE None

===============================================================================
