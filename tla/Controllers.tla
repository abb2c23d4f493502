------------------------------ MODULE Controllers ------------------------------
(***************************************************************************)
(* A controller of the control plane and one resource of its kind: the     *)
(* resource and the objects its reconciler reads and writes in the API     *)
(* server, the informers' copies of them, the work queue, and the          *)
(* generated reconciler (pkg/client/injection/reconciler), which calls the *)
(* kind's ReconcileKind and then writes the status.                        *)
(*                                                                         *)
(* Objects change at any time, also while a reconciliation is under way,   *)
(* and informers show changes late and object by object.  Of the           *)
(* controller's replicas only the leader works, but one that has been      *)
(* deposed finishes what it began.                                         *)
(***************************************************************************)
EXTENDS EventingReconcilers, MessagingReconcilers, SourceReconcilers, SinkReconcilers, FiniteSets

-----------------------------------------------------------------------------
\* The kinds of resources, and what is asked of each: its reconciler, the
\* objects around a resource, and what to expect of it.
AllKinds ==
  {"Broker", "Trigger", "Channel", "InMemoryChannel", "Sequence", "Parallel", "PingSource",
   "ApiServerSource", "ContainerSource", "SinkBinding", "JobSink", "IntegrationSource",
   "IntegrationSink", "EventTransform", "RequestReply", "EventType", "EventPolicy", "SourceDuck",
   "NamespaceSugar", "TriggerSugar"}

-----------------------------------------------------------------------------
\* Specs, statuses, and the other objects at first.
Specs(k) ==
  CASE k = "Broker" -> BrokerSpecs
    [] k = "Trigger" -> TriggerSpecs
    [] k = "Channel" -> ChannelSpecs
    [] k = "InMemoryChannel" -> InMemoryChannelSpecs
    [] k = "Sequence" -> SequenceSpecs
    [] k = "Parallel" -> ParallelSpecs
    [] k = "PingSource" -> PingSourceSpecs
    [] k = "ApiServerSource" -> ApiServerSourceSpecs
    [] k = "ContainerSource" -> ContainerSourceSpecs
    [] k = "SinkBinding" -> SinkBindingSpecs
    [] k = "JobSink" -> JobSinkSpecs
    [] k = "IntegrationSource" -> IntegrationSourceSpecs
    [] k = "IntegrationSink" -> IntegrationSinkSpecs
    [] k = "EventTransform" -> EventTransformSpecs
    [] k = "RequestReply" -> RequestReplySpecs
    [] k = "EventType" -> EventTypeSpecs
    [] k = "EventPolicy" -> EventPolicySpecs
    [] k = "SourceDuck" -> SourceDuckSpecs
    [] k \in {"NamespaceSugar", "TriggerSugar"} -> SugarSpecs

NewStatus(k) ==
  CASE k = "Broker" -> BrokerNewStatus
    [] k = "Trigger" -> TriggerNewStatus
    [] k = "Channel" -> ChannelNewStatus
    [] k = "InMemoryChannel" -> InMemoryChannelNewStatus
    [] k = "Sequence" -> SequenceNewStatus
    [] k = "Parallel" -> ParallelNewStatus
    [] k = "PingSource" -> PingSourceNewStatus
    [] k = "ApiServerSource" -> ApiServerSourceNewStatus
    [] k = "ContainerSource" -> ContainerSourceNewStatus
    [] k = "SinkBinding" -> SinkBindingNewStatus
    [] k = "JobSink" -> JobSinkNewStatus
    [] k = "IntegrationSource" -> IntegrationSourceNewStatus
    [] k = "IntegrationSink" -> IntegrationSinkNewStatus
    [] k = "EventTransform" -> EventTransformNewStatus
    [] k = "RequestReply" -> RequestReplyNewStatus
    [] k = "EventType" -> EventTypeNewStatus
    [] k = "EventPolicy" -> EventPolicyNewStatus
    [] k = "SourceDuck" -> SourceDuckNewStatus
    [] k \in {"NamespaceSugar", "TriggerSugar"} -> SugarNewStatus

Starts(k) ==
  CASE k = "Broker" -> BrokerStarts
    [] k = "Trigger" -> TriggerStarts
    [] k = "Channel" -> ChannelStarts
    [] k = "InMemoryChannel" -> InMemoryChannelStarts
    [] k = "Sequence" -> SequenceStarts
    [] k = "Parallel" -> ParallelStarts
    [] k = "PingSource" -> PingSourceStarts
    [] k = "ApiServerSource" -> ApiServerSourceStarts
    [] k = "ContainerSource" -> ContainerSourceStarts
    [] k = "SinkBinding" -> SinkBindingStarts
    [] k = "JobSink" -> JobSinkStarts
    [] k = "IntegrationSource" -> IntegrationSourceStarts
    [] k = "IntegrationSink" -> IntegrationSinkStarts
    [] k = "EventTransform" -> EventTransformStarts
    [] k = "RequestReply" -> RequestReplyStarts
    [] k = "EventType" -> EventTypeStarts
    [] k = "EventPolicy" -> EventPolicyStarts
    [] k = "SourceDuck" -> SourceDuckStarts
    [] k \in {"NamespaceSugar", "TriggerSugar"} -> SugarStarts

\* The objects whose writes can fail.
Children(k) ==
  CASE k = "Broker" -> BrokerChildren
    [] k = "Trigger" -> TriggerChildren
    [] k = "Channel" -> ChannelChildren
    [] k = "InMemoryChannel" -> InMemoryChannelChildren
    [] k = "Sequence" -> SequenceChildren
    [] k = "Parallel" -> ParallelChildren
    [] k = "PingSource" -> PingSourceChildren
    [] k = "ApiServerSource" -> ApiServerSourceChildren
    [] k = "ContainerSource" -> ContainerSourceChildren
    [] k = "SinkBinding" -> SinkBindingChildren
    [] k = "JobSink" -> JobSinkChildren
    [] k = "IntegrationSource" -> IntegrationSourceChildren
    [] k = "IntegrationSink" -> IntegrationSinkChildren
    [] k = "EventTransform" -> EventTransformChildren
    [] k = "RequestReply" -> RequestReplyChildren
    [] k = "EventType" -> EventTypeChildren
    [] k = "EventPolicy" -> EventPolicyChildren
    [] k = "SourceDuck" -> SourceDuckChildren
    [] k \in {"NamespaceSugar", "TriggerSugar"} -> SugarChildren

\* The status fields that follow from specs and objects.
Derived(k) ==
  CASE k = "Broker" -> BrokerDerived
    [] k = "Trigger" -> TriggerDerived
    [] k = "Channel" -> ChannelDerived
    [] k = "InMemoryChannel" -> InMemoryChannelDerived
    [] k = "Sequence" -> SequenceDerived
    [] k = "Parallel" -> ParallelDerived
    [] k = "PingSource" -> PingSourceDerived
    [] k = "ApiServerSource" -> ApiServerSourceDerived
    [] k = "ContainerSource" -> ContainerSourceDerived
    [] k = "SinkBinding" -> SinkBindingDerived
    [] k = "JobSink" -> JobSinkDerived
    [] k = "IntegrationSource" -> IntegrationSourceDerived
    [] k = "IntegrationSink" -> IntegrationSinkDerived
    [] k = "EventTransform" -> EventTransformDerived
    [] k = "RequestReply" -> RequestReplyDerived
    [] k = "EventType" -> EventTypeDerived
    [] k = "EventPolicy" -> EventPolicyDerived
    [] k = "SourceDuck" -> SourceDuckDerived
    [] k \in {"NamespaceSugar", "TriggerSugar"} -> SugarDerived

\* What others make of object f: changes, and how its controller leaves it.
Env(k, w, f) ==
  CASE k = "Broker" -> BrokerEnv(w, f)
    [] k = "Trigger" -> TriggerEnv(w, f)
    [] k = "Channel" -> ChannelEnv(w, f)
    [] k = "InMemoryChannel" -> InMemoryChannelEnv(w, f)
    [] k = "Sequence" -> SequenceEnv(w, f)
    [] k = "Parallel" -> ParallelEnv(w, f)
    [] k = "PingSource" -> PingSourceEnv(w, f)
    [] k = "ApiServerSource" -> ApiServerSourceEnv(w, f)
    [] k = "ContainerSource" -> ContainerSourceEnv(w, f)
    [] k = "SinkBinding" -> SinkBindingEnv(w, f)
    [] k = "JobSink" -> JobSinkEnv(w, f)
    [] k = "IntegrationSource" -> IntegrationSourceEnv(w, f)
    [] k = "IntegrationSink" -> IntegrationSinkEnv(w, f)
    [] k = "EventTransform" -> EventTransformEnv(w, f)
    [] k = "RequestReply" -> RequestReplyEnv(w, f)
    [] k = "EventType" -> EventTypeEnv(w, f)
    [] k = "EventPolicy" -> EventPolicyEnv(w, f)
    [] k = "SourceDuck" -> SourceDuckEnv(w, f)
    [] k \in {"NamespaceSugar", "TriggerSugar"} -> SugarEnv(w, f)

Heal(k, w, f) ==
  CASE k = "Broker" -> BrokerHeal(w, f)
    [] k = "Trigger" -> TriggerHeal(w, f)
    [] k = "Channel" -> ChannelHeal(w, f)
    [] k = "InMemoryChannel" -> InMemoryChannelHeal(w, f)
    [] k = "Sequence" -> SequenceHeal(w, f)
    [] k = "Parallel" -> ParallelHeal(w, f)
    [] k = "PingSource" -> PingSourceHeal(w, f)
    [] k = "ApiServerSource" -> ApiServerSourceHeal(w, f)
    [] k = "ContainerSource" -> ContainerSourceHeal(w, f)
    [] k = "SinkBinding" -> SinkBindingHeal(w, f)
    [] k = "JobSink" -> JobSinkHeal(w, f)
    [] k = "IntegrationSource" -> IntegrationSourceHeal(w, f)
    [] k = "IntegrationSink" -> IntegrationSinkHeal(w, f)
    [] k = "EventTransform" -> EventTransformHeal(w, f)
    [] k = "RequestReply" -> RequestReplyHeal(w, f)
    [] k = "EventType" -> EventTypeHeal(w, f)
    [] k = "EventPolicy" -> EventPolicyHeal(w, f)
    [] k = "SourceDuck" -> SourceDuckHeal(w, f)
    [] k \in {"NamespaceSugar", "TriggerSugar"} -> SugarHeal(w, f)

\* The handlers of informers.
Enqueues(k, f, old, new) ==
  CASE k = "Broker" -> BrokerEnqueues(f, old, new)
    [] k = "Trigger" -> TriggerEnqueues(f, old, new)
    [] k = "Channel" -> ChannelEnqueues(f, old, new)
    [] k = "InMemoryChannel" -> InMemoryChannelEnqueues(f, old, new)
    [] k = "Sequence" -> SequenceEnqueues(f, old, new)
    [] k = "Parallel" -> ParallelEnqueues(f, old, new)
    [] k = "PingSource" -> PingSourceEnqueues(f, old, new)
    [] k = "ApiServerSource" -> ApiServerSourceEnqueues(f, old, new)
    [] k = "ContainerSource" -> ContainerSourceEnqueues(f, old, new)
    [] k = "SinkBinding" -> SinkBindingEnqueues(f, old, new)
    [] k = "JobSink" -> JobSinkEnqueues(f, old, new)
    [] k = "IntegrationSource" -> IntegrationSourceEnqueues(f, old, new)
    [] k = "IntegrationSink" -> IntegrationSinkEnqueues(f, old, new)
    [] k = "EventTransform" -> EventTransformEnqueues(f, old, new)
    [] k = "RequestReply" -> RequestReplyEnqueues(f, old, new)
    [] k = "EventType" -> EventTypeEnqueues(f, old, new)
    [] k = "EventPolicy" -> EventPolicyEnqueues(f, old, new)
    [] k = "SourceDuck" -> SourceDuckEnqueues(f, old, new)
    [] k = "NamespaceSugar" -> SugarEnqueues("Namespace", f, old, new)
    [] k = "TriggerSugar" -> SugarEnqueues("Trigger", f, old, new)

\* The reconcilers.
PromoteFunc(k, w) ==
  CASE k = "Broker" -> BrokerPromoteFunc(w)
    [] k = "Trigger" -> TriggerPromoteFunc(w)
    [] k = "Channel" -> ChannelPromoteFunc(w)
    [] k = "InMemoryChannel" -> InMemoryChannelPromoteFunc(w)
    [] k = "Sequence" -> SequencePromoteFunc(w)
    [] k = "Parallel" -> ParallelPromoteFunc(w)
    [] k = "PingSource" -> PingSourcePromoteFunc(w)
    [] k = "ApiServerSource" -> ApiServerSourcePromoteFunc(w)
    [] k = "ContainerSource" -> ContainerSourcePromoteFunc(w)
    [] k = "SinkBinding" -> SinkBindingPromoteFunc(w)
    [] k = "JobSink" -> JobSinkPromoteFunc(w)
    [] k = "IntegrationSource" -> IntegrationSourcePromoteFunc(w)
    [] k = "IntegrationSink" -> IntegrationSinkPromoteFunc(w)
    [] k = "EventTransform" -> EventTransformPromoteFunc(w)
    [] k = "RequestReply" -> RequestReplyPromoteFunc(w)
    [] k = "EventType" -> EventTypePromoteFunc(w)
    [] k = "EventPolicy" -> EventPolicyPromoteFunc(w)
    [] k = "SourceDuck" -> SourceDuckPromoteFunc(w)
    [] k \in {"NamespaceSugar", "TriggerSugar"} -> SugarPromoteFunc(w)

Reconcile(k, existing, o, seen, w, fail) ==
  CASE k = "Broker" -> BrokerReconcile(existing, o, seen, w, fail)
    [] k = "Trigger" -> TriggerReconcile(existing, o, seen, w, fail)
    [] k = "Channel" -> ChannelReconcile(existing, o, seen, w, fail)
    [] k = "InMemoryChannel" -> InMemoryChannelReconcile(existing, o, seen, w, fail)
    [] k = "Sequence" -> SequenceReconcile(existing, o, seen, w, fail)
    [] k = "Parallel" -> ParallelReconcile(existing, o, seen, w, fail)
    [] k = "PingSource" -> PingSourceReconcile(existing, o, seen, w, fail)
    [] k = "ApiServerSource" -> ApiServerSourceReconcile(existing, o, seen, w, fail)
    [] k = "ContainerSource" -> ContainerSourceReconcile(existing, o, seen, w, fail)
    [] k = "SinkBinding" -> SinkBindingReconcile(existing, o, seen, w, fail)
    [] k = "JobSink" -> JobSinkReconcile(existing, o, seen, w, fail)
    [] k = "IntegrationSource" -> IntegrationSourceReconcile(existing, o, seen, w, fail)
    [] k = "IntegrationSink" -> IntegrationSinkReconcile(existing, o, seen, w, fail)
    [] k = "EventTransform" -> EventTransformReconcile(existing, o, seen, w, fail)
    [] k = "RequestReply" -> RequestReplyReconcile(existing, o, seen, w, fail)
    [] k = "EventType" -> EventTypeReconcile(existing, o, seen, w, fail)
    [] k = "EventPolicy" -> EventPolicyReconcile(existing, o, seen, w, fail)
    [] k = "SourceDuck" -> SourceDuckReconcile(existing, o, seen, w, fail)
    [] k \in {"NamespaceSugar", "TriggerSugar"} -> SugarReconcile(existing, o, seen, w, fail)

UpdateStatus(k, existing, o, desired) ==
  CASE k = "Broker" -> BrokerUpdateStatus(existing, o, desired)
    [] k = "Trigger" -> TriggerUpdateStatus(existing, o, desired)
    [] k = "Channel" -> ChannelUpdateStatus(existing, o, desired)
    [] k = "InMemoryChannel" -> InMemoryChannelUpdateStatus(existing, o, desired)
    [] k = "Sequence" -> SequenceUpdateStatus(existing, o, desired)
    [] k = "Parallel" -> ParallelUpdateStatus(existing, o, desired)
    [] k = "PingSource" -> PingSourceUpdateStatus(existing, o, desired)
    [] k = "ApiServerSource" -> ApiServerSourceUpdateStatus(existing, o, desired)
    [] k = "ContainerSource" -> ContainerSourceUpdateStatus(existing, o, desired)
    [] k = "SinkBinding" -> SinkBindingUpdateStatus(existing, o, desired)
    [] k = "JobSink" -> JobSinkUpdateStatus(existing, o, desired)
    [] k = "IntegrationSource" -> IntegrationSourceUpdateStatus(existing, o, desired)
    [] k = "IntegrationSink" -> IntegrationSinkUpdateStatus(existing, o, desired)
    [] k = "EventTransform" -> EventTransformUpdateStatus(existing, o, desired)
    [] k = "RequestReply" -> RequestReplyUpdateStatus(existing, o, desired)
    [] k = "EventType" -> EventTypeUpdateStatus(existing, o, desired)
    [] k = "EventPolicy" -> EventPolicyUpdateStatus(existing, o, desired)
    [] k = "SourceDuck" -> SourceDuckUpdateStatus(existing, o, desired)
    [] k \in {"NamespaceSugar", "TriggerSugar"} -> SugarUpdateStatus(existing, o, desired)

\* The reconciler gets to the end of its work or says why not.
Responsible(k, w) ==
  CASE k = "Trigger" -> TriggerResponsible(w)
    [] k = "InMemoryChannel" -> InMemoryChannelResponsible(w)
    [] k = "IntegrationSink" -> IntegrationSinkResponsible(w)
    [] k = "EventTransform" -> EventTransformResponsible(w)
    [] OTHER -> TRUE

\* Objects the controller reads but does not watch.
Unwatched(k) ==
  CASE k = "Broker" -> BrokerUnwatched
    [] k = "Trigger" -> TriggerUnwatched
    [] k = "Channel" -> ChannelUnwatched
    [] k = "InMemoryChannel" -> InMemoryChannelUnwatched
    [] k = "Sequence" -> SequenceUnwatched
    [] k = "Parallel" -> ParallelUnwatched
    [] k = "PingSource" -> PingSourceUnwatched
    [] k = "ApiServerSource" -> ApiServerSourceUnwatched
    [] k = "SinkBinding" -> SinkBindingUnwatched
    [] k = "IntegrationSink" -> IntegrationSinkUnwatched
    [] k = "EventTransform" -> EventTransformUnwatched
    [] k = "RequestReply" -> RequestReplyUnwatched
    [] k = "SourceDuck" -> SourceDuckUnwatched
    [] k \in {"NamespaceSugar", "TriggerSugar"} -> SugarUnwatched
    [] OTHER -> {}

\* What Ready promises, and the objects a resource is to have.
Promise(k, spec, w) ==
  CASE k = "Broker" -> BrokerPromise(spec, w)
    [] k = "Trigger" -> TriggerPromise(spec, w)
    [] k = "Channel" -> ChannelPromise(spec, w)
    [] k = "InMemoryChannel" -> InMemoryChannelPromise(spec, w)
    [] k = "Sequence" -> SequencePromise(spec, w)
    [] k = "Parallel" -> ParallelPromise(spec, w)
    [] k = "PingSource" -> PingSourcePromise(spec, w)
    [] k = "ApiServerSource" -> ApiServerSourcePromise(spec, w)
    [] k = "ContainerSource" -> ContainerSourcePromise(spec, w)
    [] k = "SinkBinding" -> SinkBindingPromise(spec, w)
    [] k = "JobSink" -> JobSinkPromise(spec, w)
    [] k = "IntegrationSource" -> IntegrationSourcePromise(spec, w)
    [] k = "IntegrationSink" -> IntegrationSinkPromise(spec, w)
    [] k = "EventTransform" -> EventTransformPromise(spec, w)
    [] k = "RequestReply" -> RequestReplyPromise(spec, w)
    [] k = "EventType" -> EventTypePromise(spec, w)
    [] k = "EventPolicy" -> EventPolicyPromise(spec, w)
    [] k = "SourceDuck" -> SourceDuckPromise(spec, w)
    [] k \in {"NamespaceSugar", "TriggerSugar"} -> SugarPromise(spec, w)

Provided(k, spec, w) ==
  CASE k = "Broker" -> BrokerProvided(spec, w)
    [] k = "Trigger" -> TriggerProvided(spec, w)
    [] k = "Channel" -> ChannelProvided(spec, w)
    [] k = "InMemoryChannel" -> InMemoryChannelProvided(spec, w)
    [] k = "Sequence" -> SequenceProvided(spec, w)
    [] k = "Parallel" -> ParallelProvided(spec, w)
    [] k = "PingSource" -> PingSourceProvided(spec, w)
    [] k = "ApiServerSource" -> ApiServerSourceProvided(spec, w)
    [] k = "ContainerSource" -> ContainerSourceProvided(spec, w)
    [] k = "SinkBinding" -> SinkBindingProvided(spec, w)
    [] k = "JobSink" -> JobSinkProvided(spec, w)
    [] k = "IntegrationSource" -> IntegrationSourceProvided(spec, w)
    [] k = "IntegrationSink" -> IntegrationSinkProvided(spec, w)
    [] k = "EventTransform" -> EventTransformProvided(spec, w)
    [] k = "RequestReply" -> RequestReplyProvided(spec, w)
    [] k = "EventType" -> EventTypeProvided(spec, w)
    [] k = "EventPolicy" -> EventPolicyProvided(spec, w)
    [] k = "SourceDuck" -> SourceDuckProvided(spec, w)
    [] k \in {"NamespaceSugar", "TriggerSugar"} -> SugarProvided(spec, w)

\* The lasting errors that no condition of the kind shows.
Hidden(k, spec, w) ==
  CASE k = "Broker" -> BrokerHidden(spec, w)
    [] k = "InMemoryChannel" -> InMemoryChannelHidden(spec, w)
    [] k = "Parallel" -> ParallelHidden(spec, w)
    [] k = "PingSource" -> PingSourceHidden(spec, w)
    [] k = "ApiServerSource" -> ApiServerSourceHidden(spec, w)
    [] k = "ContainerSource" -> ContainerSourceHidden(spec, w)
    [] k = "JobSink" -> JobSinkHidden(spec, w)
    [] k = "IntegrationSource" -> IntegrationSourceHidden(spec, w)
    [] k = "IntegrationSink" -> IntegrationSinkHidden(spec, w)
    [] k = "EventTransform" -> EventTransformHidden(spec, w)
    [] k = "RequestReply" -> RequestReplyHidden(spec, w)
    [] OTHER -> FALSE

-----------------------------------------------------------------------------

CONSTANTS
  KindsChecked,     \* the kinds to check
  MaxDisturbances,  \* bound on changes by others, failed writes and restarts
  MaxLags           \* bound on the times when some informers lag behind others

ASSUME BoundsAssumption == MaxDisturbances \in Nat /\ MaxLags \in Nat
ASSUME KindsAssumption == KindsChecked \subseteq AllKinds

VARIABLES
  kind,      \* the kind of the resource; never changes
  obj,       \* the resource: spec, generation, status, finalizer, deletion
  world,     \* the objects its reconciler reads and writes
  seenObj,   \* the informer's copy of the resource
  seen,      \* the informers' copies of the objects
  notices,   \* objects with changes that informers have not shown
  queue,     \* the resource's key is not queued, to be retried, or due
  work,      \* the reconciliation under way, or NoWork
  deposed,   \* the status that a former leader is about to write, or None
  drift,     \* objects to look at that no event and no retry enqueues the resource for
  disturbed, \* changes, failures and restarts so far
  lags       \* times so far when some informers lagged behind others

vars == <<kind, obj, world, seenObj, seen, notices, queue, work, deposed, drift, disturbed,
          lags>>

-----------------------------------------------------------------------------

\* No reconciliation is under way.
NoWork == [status |-> None, orig |-> None, err |-> "none"]

Init ==
  /\ kind \in KindsChecked
  /\ \E spec \in Specs(kind) :
       obj = [spec |-> spec, gen |-> 1, status |-> NewStatus(kind),
              finalizer |-> FALSE, deleting |-> FALSE, held |-> FALSE, gone |-> FALSE]
  /\ world \in Starts(kind)
  /\ seenObj = obj /\ seen = world
  /\ notices = {}
  /\ queue = "due"
  /\ work = NoWork /\ deposed = None
  /\ drift = {}
  /\ disturbed = 0
  /\ lags = 0

Disturb ==
  /\ disturbed < MaxDisturbances
  /\ disturbed' = disturbed + 1

EditSpec ==
  /\ Disturb
  /\ ~ obj.gone /\ ~ obj.deleting
  /\ \E spec \in Specs(kind) \ {obj.spec} :
       obj' = [obj EXCEPT !.spec = spec, !.gen = @ + 1]
  /\ notices' = notices \union {"obj"}
  /\ UNCHANGED <<kind, world, seenObj, seen, queue, work, deposed, drift, lags>>

\* A user deletes the resource, in the foreground: it is held until its dependents
\* are collected.
DeleteResource ==
  /\ Disturb
  /\ ~ obj.gone /\ ~ obj.deleting
  /\ obj' = [obj EXCEPT !.deleting = TRUE, !.held = TRUE]
  /\ notices' = notices \union {"obj"}
  /\ UNCHANGED <<kind, world, seenObj, seen, queue, work, deposed, drift, lags>>

\* The garbage collector lets go of it.
Collect ==
  /\ obj.held
  /\ obj' = [obj EXCEPT !.held = FALSE, !.gone = ~ obj.finalizer]
  /\ notices' = notices \union {"obj"}
  /\ UNCHANGED <<kind, world, seenObj, seen, queue, work, deposed, drift, disturbed, lags>>

\* Somebody else changes, creates or deletes object f.
Change(f) ==
  /\ Disturb
  /\ \E v \in Env(kind, world, f) \ {world[f]} : world' = [world EXCEPT ![f] = v]
  /\ notices' = notices \union {f}
  /\ UNCHANGED <<kind, obj, seenObj, seen, queue, work, deposed, drift, lags>>

\* The objects of F as their controllers leave them.
Healed(w, F) ==
  [f \in DOMAIN w |-> IF f \in F /\ Heal(kind, w, f) # {}
                      THEN CHOOSE v \in Heal(kind, w, f) : TRUE
                      ELSE w[f]]

\* The controllers of the other objects bring them further: all of them while this
\* controller rests, or, as a change like others, one of them at any time.
Progress(F) ==
  /\ IF F = DOMAIN world
     THEN work = NoWork /\ notices = {} /\ queue # "due" /\ UNCHANGED disturbed
     ELSE Disturb
  /\ world' = Healed(world, F)
  /\ notices' = notices \union {f \in F : world'[f] # world[f]}
  /\ world' # world
  /\ UNCHANGED <<kind, obj, seenObj, seen, queue, work, deposed, drift, lags>>

\* The informers get the present state of all objects with changes but those of
\* L, and call their handlers.  All of them lag, one of them, or none.  What
\* no handler is for, what was undone meanwhile, and an object of somebody else
\* that took the name or had it, wait for the resync.
Deliver(L) ==
  LET F == notices \ L
      new == [f \in DOMAIN seen |-> IF f \in F THEN world[f] ELSE seen[f]]
      heard == {f \in F : Enqueues(kind, f, seen, new)}
  IN /\ notices # {}
     /\ L # {} => lags < MaxLags
     /\ lags' = IF L = {} THEN lags ELSE lags + 1
     /\ notices' = L
     /\ seen' = new
     /\ seenObj' = IF "obj" \in F THEN obj ELSE seenObj
     /\ queue' = IF heard # {} THEN "due" ELSE queue
     /\ drift' = drift \union (F \intersect Unwatched(kind))
                     \union {f \in F \intersect DOMAIN seen :
                               new[f] = seen[f] \/ Foreign \in {seen[f], new[f]}}
     /\ UNCHANGED <<kind, obj, world, work, deposed, disturbed>>

\* A reconciliation starts, maybe while informers lag behind.
MayBegin == queue # "idle" /\ work = NoWork /\ (notices # {} => lags > 0)

\* Reconcile of a resource that is gone.
ReconcileGone ==
  /\ MayBegin
  /\ seenObj.gone
  /\ queue' = "idle"
  /\ UNCHANGED <<kind, obj, world, seenObj, seen, notices, work, deposed, drift, disturbed,
                 lags>>

\* Reconcile, up to the status.  The API server refuses a write to object fail.  If
\* ReconcileKind returns that as an event, it counts as done and is not retried.
ReconcileResource(fail) ==
  /\ MayBegin
  /\ ~ seenObj.gone
  /\ LET Run(x) == Reconcile(kind, seenObj, obj, seen, world, x)
     IN \E s \in {Run(fail)} :
          /\ IF fail = "none" THEN UNCHANGED disturbed ELSE s.w # Run("none").w /\ Disturb
          /\ obj' = s.o
          /\ world' = s.w
          /\ seen' = s.seen
          /\ work' = [status |-> s.st, orig |-> seenObj.status, err |-> s.err]
          /\ drift' = IF fail # "none" /\ s.err = "done" THEN {fail} ELSE {}
          /\ notices' = notices \union {f \in DOMAIN world : s.w[f] # world[f]}
                          \union (IF s.o = obj THEN {} ELSE {"obj"})
  /\ queue' = "idle"
  /\ UNCHANGED <<kind, seenObj, deposed, lags>>

\* An error puts the key back with a delay.
Retry(q) == IF q = "idle" THEN "retry" ELSE q

\* The status is written unless it is what the informer had.
SyncStatus ==
  LET update == UpdateStatus(kind, seenObj, obj, work.status)
  IN /\ work # NoWork
     /\ \/ /\ work.status = work.orig
           /\ queue' = IF work.err = "error" THEN Retry(queue) ELSE queue
           /\ UNCHANGED <<obj, notices, disturbed>>
        \/ /\ work.status # work.orig
           /\ obj' = update.o
           /\ notices' = IF obj' = obj THEN notices ELSE notices \union {"obj"}
           /\ queue' = IF "error" \in {work.err, update.err} THEN Retry(queue) ELSE queue
           /\ UNCHANGED disturbed
        \/ /\ work.status # work.orig
           /\ Disturb
           /\ queue' = Retry(queue)
           /\ UNCHANGED <<obj, notices>>
     /\ work' = NoWork
     /\ UNCHANGED <<kind, world, seenObj, seen, deposed, drift, lags>>

\* The controller restarts, or another replica becomes leader, and takes over the
\* resources.  The former leader ends, or finishes its reconciliation.
Promote ==
  /\ Disturb
  /\ \/ deposed' = None
     \/ /\ work # NoWork /\ work.status # work.orig
        /\ deposed' = work.status
  /\ seenObj' = obj /\ seen' = world /\ notices' = {}
  /\ queue' = IF PromoteFunc(kind, world) THEN "due" ELSE "idle"
  /\ work' = NoWork
  /\ drift' = {}
  /\ UNCHANGED <<kind, obj, world, lags>>

\* The former leader writes the status.
WriteDeposed ==
  /\ deposed # None
  /\ obj' = UpdateStatus(kind, obj, obj, deposed).o
  /\ notices' = IF obj' = obj THEN notices ELSE notices \union {"obj"}
  /\ deposed' = None
  /\ UNCHANGED <<kind, world, seenObj, seen, queue, work, drift, disturbed, lags>>

\* The periodic resync of the informer.
Resync ==
  /\ work = NoWork /\ queue = "idle" /\ drift # {}
  /\ Enqueues(kind, "obj", seen, seen)
  /\ queue' = "due"
  /\ UNCHANGED <<kind, obj, world, seenObj, seen, notices, work, deposed, drift, disturbed,
                 lags>>

Next ==
  \/ EditSpec
  \/ DeleteResource
  \/ Collect
  \/ \E f \in DOMAIN world : Change(f)
  \/ \E F \in {DOMAIN world} \union {{f} : f \in DOMAIN world} : Progress(F)
  \/ \E L \in {{}, notices} \union {{f} : f \in notices} : Deliver(L)
  \/ ReconcileGone
  \/ \E fail \in Children(kind) \union {"none"} : ReconcileResource(fail)
  \/ SyncStatus
  \/ Promote
  \/ WriteDeposed
  \/ Resync

Spec == Init /\ [][Next]_vars

-----------------------------------------------------------------------------

Ready == obj.status.conds["Ready"] = "True"

\* No reconciliation is under way or due, the informers show what there is, and
\* nothing waits for the resync.
Calm ==
  /\ work = NoWork /\ deposed = None /\ queue # "due" /\ notices = {} /\ drift = {}
  /\ seen = world
  /\ Responsible(kind, world)

Quiet == Calm /\ queue = "idle" /\ ~ obj.deleting

\* What holds of a reconciliation of the resource and the objects as they are after
\* s, which has the resource in s.o, its status in s.st and the objects in s.w.
Again(s, P(_)) ==
  LET o == [s.o EXCEPT !.status = s.st]
  IN \A r \in {Reconcile(kind, o, o, s.w, s.w, "none")} : P(r)

\* What there is now.
Now == [o |-> obj, st |-> obj.status, w |-> world]

\* Reconciliation r, of what s has, changed nothing.
Same(r, s) == r.w = s.w /\ r.st = s.st

\* A reconciliation that succeeded is final: run again on the same state, it
\* writes nothing.  What it read and wrote, and the order of informer events,
\* do not matter.
Settled == Quiet => Again(Now, LAMBDA r : Same(r, Now))

\* A resource is ready exactly when what its readiness promises holds.
ReadyIsTrue == Quiet => (Ready <=> Promise(kind, obj.spec, world))

\* Once reconciled, a resource is as ready as one that was created just now, and
\* so is what its status says where the reconciliation reaches its end: nothing
\* of the past shows.
ForgetsHistory ==
  Quiet => Again([Now EXCEPT !.st = NewStatus(kind)], LAMBDA r :
             /\ Ready <=> r.st.conds["Ready"] = "True"
             /\ r.err = "nil" => \A f \in Derived(kind) : r.st[f] = obj.status[f])

\* The objects a resource is to have are there.
ChildrenAreProvided == Quiet => Provided(kind, obj.spec, world)

\* An error that every retry meets again is visible: the resource is not ready.
ErrorsShow ==
  /\ Calm /\ queue = "retry" /\ ~ obj.deleting
  /\ Again(Now, LAMBDA r : r.err = "error" /\ Same(r, Now))
  => ~ Ready \/ Hidden(kind, obj.spec, world)

\* A reconciler left alone comes to an end: after two more reconciliations
\* nothing changes any more, so that no controller fights itself.
Converges ==
  work = NoWork /\ notices = {} /\ ~ obj.deleting =>
    Again(Now, LAMBDA s : Again(s, LAMBDA t : Again(t, LAMBDA r : Same(r, t))))

\* Controllers that write to the same objects do not fight: when this one and the
\* others take turns, they come to rest after a few turns for each object.
ControllersAgree ==
  Quiet =>
    LET Heals(s) == [o |-> obj, st |-> s.st, w |-> Healed(s.w, DOMAIN s.w)]
        Runs(s) == LET o == [obj EXCEPT !.status = s.st]
                   IN Reconcile(kind, o, o, s.w, s.w, "none")
        turn[n \in Nat] == IF n = 0 THEN Now
                           ELSE CHOOSE r \in {Heals(s) : s \in {Runs(t) : t \in {turn[n - 1]}}} : TRUE
        Rests(s) == Healed(s.w, DOMAIN s.w) = s.w /\ Again(s, LAMBDA r : Same(r, s))
    IN \A last \in {turn[Cardinality(DOMAIN world) + 2]} : Rests(last)

\* A reconciler comes to rest, by itself and with the others, and what it comes to
\* is final.
ComesToRest == Settled /\ Converges /\ ControllersAgree

\* The status is true: ready means what it promises, nothing of the past shows,
\* and errors do.
StatusIsTrue == ReadyIsTrue /\ ForgetsHistory /\ ErrorsShow

\* A resource under deletion does not linger: once collected and reconciled, its
\* finalizer is gone.
Released == Calm /\ queue = "idle" /\ obj.deleting => obj.held \/ obj.gone

\* A reconciliation of a resource under deletion creates nothing, which would keep
\* the garbage collector from ending.  The duck of sources does not look.
DeletionCreatesNothing ==
  [][seenObj.deleting /\ work = NoWork /\ work' # NoWork /\ kind # "SourceDuck" =>
       \A f \in DOMAIN world : world[f] = None => world'[f] = None]_vars

===============================================================================
