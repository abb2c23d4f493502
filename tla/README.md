# A TLA+ development of Knative Eventing

Knative Eventing routes CloudEvents between producers and consumers on Kubernetes. This directory
holds TLA+ models of the parts of it where the order of events matters, the TLC configurations that
check them, and theorems about them that TLAPS has checked. Paths below are relative to `src/`.

* [The system](#the-system): its parts, their state, and what is hard about them
* [Modules](#modules): which module models which code, and how
* [Runs](#runs): what TLC checks, the bounds, the fairness
* [Theorems](#theorems): what is proved, from what, and how
* [Disagreements](#disagreements): where the code does not do what it says
* [Not modelled](#not-modelled): what stays out, and why

`PROJECT.json` has the machine-readable form: components, runs, the map from definitions to source
lines, the hazards, and for each property a mutation of the model that the property catches.

To repeat a check: `tlc -config MCFanout_sync.cfg MCFanout`, `tlapm FanoutProofs.tla`.

## The system

### Data plane

**Event dispatcher** (`pkg/kncloudevents`). State: none beyond one send. `SendEvent` posts an event
to its destination, an event in the answer to the reply address, and after a failure the original
event to the dead letter sink; each of the three is retried by `DoWithRetries`. Hard: the three
stages share one context, which the producer or the process may end at any point; a failed answer is
copied into extensions of the dead letter; a retry may repeat what was already taken.

**Channel fanout** (`pkg/channel/fanout`, `pkg/channel/event_receiver.go`). State: the list of
subscriptions, replaced by the reconciler at run time; per request a channel of results. A request
snapshots the list, starts a goroutine per subscription and collects results until a timeout; an
asynchronous channel answers first. Hard: goroutines that outlive their request, results that come
after the timeout, a panic in one goroutine ending all of them, a restart with an empty list.

**Broker** (`pkg/broker`). Ingress: checks the event, gives it a TTL or takes one off, forwards it to
the broker's channel. Filter: per trigger decides if an event passes, forwards it to the subscriber,
sends the reply or the dead letter back into the ingress. State: the filters compiled from triggers,
kept by informer callbacks, read by requests. Hard: loops through the broker; filters that are
replaced and closed while requests use them; a lister and a map that are updated one after the other.

**RequestReply data plane** (`pkg/requestreply`). State: per pod a map from event ids to channels of
waiting requests, and a store of AES keys. A new event is stamped with a correlation id and sent to a
broker, and its HTTP request waits for the reply event, which the broker routes to the pod by index.
Hard: replies that are late, duplicated or faster than the send returns; producers that retry while
their first request waits; keys that rotate in between; pods that restart.

**Adapters and sinks** (`pkg/adapter`, `cmd/jobsink`). The ping source keeps a cron entry per source,
the API server source a reflector per watched resource, both under a common `main` that configures,
starts and stops them; the job sink makes a Job and a Secret per event. Hard: three goroutines share
the ping source's entries; a watch that fails while others go on; a Job whose Secret is never made; a
configuration that changes while the process starts.

**Shared parts of data planes** (`pkg/kncloudevents`, `pkg/eventingtls`, `pkg/auth`,
`pkg/eventfilter`, `cmd/auth_proxy`). Caches of HTTP clients, tokens and policies, HTTP and HTTPS
servers, backoff, filters that reorder themselves. Hard: all of them are read by requests while
informers replace what they were made from.

### Control plane

Reconcilers read listers, which lag behind the API server, and write to it. Calls fail, conflict, and
are repeated from a queue.

**Subscription reconciler** (`pkg/reconciler/subscription`): resolves a subscription's addresses, puts
it on its channel's list of subscribers by a merge patch of the whole list, and marks it ready when
the channel reports it so. Hard: patches computed from old lists undo one another; the finalizer;
conditions set from channels of different ages.

**In-memory channel** (`pkg/reconciler/inmemorychannel`, `pkg/channel/multichannelfanout`): the
dispatcher turns the list into handlers and reports subscribers in the channel's status, which the
controller also writes, as a whole.

**RequestReply reconciler** (`pkg/reconciler/requestreply`): keeps one AES key per resource in one
shared secret, and one trigger per pod. After a scaling a new generation of triggers is made and a
timer deletes the old one. Hard: the secret is shared and read from a lister whose objects the code
writes to; the timer fires in a world that has changed since it was set.

**Scheduler and autoscaler** (`pkg/scheduler`): place the virtual replicas of vpods (consumers) on the
pods of a statefulset and scale it. State: reservations for placements not yet written, a cache of
the scale, leadership flags. Hard: placements are computed from listers and committed later by
others; leadership changes while the autoscaler's loop is in the middle of a round; two instances
write one scale.

**Reconcilers of the other kinds** (`pkg/reconciler`, `pkg/client/injection/reconciler`): brokers,
triggers, channels, sequences, parallels, sources, sinks, event types, event policies,
transformations, sugar. Each makes the objects a resource needs and sets conditions from theirs. Hard:
the same four things for all of them: informers that lag, object by object; writes of which one fails;
a leader that has been deposed and finishes; objects that somebody else changes or owns.

**Webhooks and configuration** (`cmd/webhook`, `pkg/apis`): defaults, validation, immutability and
conversion, under ConfigMaps that administrators change and every process holds its own copy of. Hard:
what was admitted under one configuration is written again, by controllers, under the next.

### How the parts meet

A producer sends to an ingress or a channel. The ingress sends to the broker's channel; the channel's
fanout handler sends to the filter of each trigger, since a trigger is a subscription to the channel;
the filter sends to the subscriber, and its reply to the ingress again. `BrokerSystem` composes this
ring. The channel's handler has the subscriptions that the subscription reconciler wrote and the
channel's dispatcher picked up: `ChannelSystem` composes these three. RequestReply uses a broker, its
triggers and the scheduler's kind of statefulset: its data plane sees the broker as a medium that
loses, duplicates and reorders replies, which is what `BrokerSystem` allows.

## Modules

| Module | Models | Extended by |
| --- | --- | --- |
| `EventDispatcher` | one send: destination, reply, dead letter sink, retries | `Fanout` |
| `Fanout` | channel receiver and fanout handler over the dispatcher | `MCFanout`, `FanoutProofs` |
| `DeliveryContract` | what a channel promises (abstract) | instantiated in `Fanout` |
| `BrokerFilter` | triggers, the informer's callbacks, the map of filters | `BrokerSystem` |
| `BrokerSystem` | ingress, filter and channel of a broker in a ring | `MCBrokerSystem`, `BrokerProofs` |
| `RequestReply` | data plane of RequestReply | `MCRequestReply`, `SenderProofs` |
| `ChannelState` | a channel object as the API server has it | `SubscriptionReconciler` |
| `SubscriptionReconciler` | `ReconcileKind`, `FinalizeKind`, finalizer, queue | `ChannelSystem` |
| `ChannelSystem` | the in-memory dispatcher's `ReconcileKind` and the controller's status; with users and the reconciler, all of one channel | `ChannelProofs` |
| `SchedulerState` | vpods, pods, scale, scale cache, the `State` built from them | the next two |
| `StatefulSetScheduler` | `Schedule` with reservations, resync, promotion | `SchedulerSystem` |
| `Autoscaler` | the autoscaler's loop and its leadership | `SchedulerSystem` |
| `SchedulerSystem` | both in one process on a changing cluster | `SchedulerProofs` |
| `Reconciliation` | condition sets; one call of a `ReconcileKind`, the API server's writes, policies, trust bundles and flows that several kinds share | the next four |
| `EventingReconcilers`, `MessagingReconcilers`, `SourceReconcilers`, `SinkReconcilers` | `ReconcileKind` of the kinds of an API group and the objects around them | `Controllers` |
| `Controllers` | any kind by name; a controller, its informers, queue and leaders | `ControllerProofs` |
| `ResourceAdmission` | `SetDefaults`, `Validate`, `CheckImmutableFields` of the kinds, what the default ConfigMaps say | `Admission` |
| `Admission` | conversion between versions; an object through its writes | part of `Processes` |
| `Adapters` | ping source, the adapters' `main` | `Processes` |
| `ApiServerAdapter` | API server source, the adapters' client | `Processes`, `SenderProofs` |
| `EventIngress` | job sink; EventTypes made from events | `Processes`, `IngressProofs` |
| `RequestReplySecret` | `reconcileAesSecret` | `Processes`, `IngressProofs` |
| `RequestReplyControl` | `reconcileTriggers` and the delayed cleanup; a pod's key store | `Processes` |
| `Authorization` | auth proxy and verifier; which resources a policy's change reconciles | `Processes`, `IngressProofs` |
| `HttpTransport` | HTTP clients and servers, backoff | `Processes` |
| `ChannelInformers` | handlers of the in-memory dispatcher; channels that Subscriptions track | `Processes`, `InformerProofs` |
| `ControllerRuntime` | informer of certificates, stores of configuration, controllers started for CRDs of sources | `Processes` |
| `EventFilters`, `EventGraph` | filters that reorder themselves; lineage graph | parts of `Processes` |
| `Optional` | the value of what is not there | the parts of `Processes` |
| `Processes` | the sum of 22 parts that share no state | `MCProcesses` |
| `MC*` | instances for TLC | |
| `*Proofs` | theorems, see below | |

Definitions have the names of the functions they translate. A definition marked "Mutant" stands
before the definition it is a faulty version of and is used by nothing; it shows that the property
named for it in `PROJECT.json` would catch that fault.

### Dispatcher and fanout

A send is a pair of an event and a subscription. `at` is the target it works on, or how it ended;
`attempt`, `inflight` and `answer` are the retry loop's counter, whether a request is on the wire and
what `executeRequest` ended with per target. An answer is abstracted to what the code decides on:
taken with or without an event in it, a failure worth a retry, a failure that is not; and whether its
body is too long for the error extension. `Conclude` is the end of `executeRequest` with the branch
of `send` that follows. Backoff durations are left out: waiting is a step not taken yet.

`Fanout` adds per event the stage of its request, the snapshot of subscriptions, the results
collected, and the response. `Receive` runs the receiver and `dispatch` up to the last `go`
statement; `Collect` is one round of the receiving loop, `Timeout` its other branch. `Restart` is a
crash at any point, or after a panic: goroutines die, producers see a reset, the list is empty until
the reconciler calls `SetSubscriptions`.

### Broker

`BrokerFilter` keeps the lister (`triggers`), the callbacks not yet run (`notices`) and `filtersMap`.
The lister is updated before the callbacks run, so the two differ in between. A filter is the version
of the trigger it was made for, what it passes, and whether it has been closed; a closed filter with
several nested ones panics when it is used, since its goroutine's channel is closed.

`BrokerSystem` is the ring. `sends` is a bag of deliveries, each an event with the stage it is at
(on its way to the subscriber, in the filter, its reply, its dead letter) and its attempt. An event carries its TTL, and two history
fields: `hops`, the number of times the ingress took it or its ancestors in, and `granted`, the TTL
it was first given. `receive` is the ingress's handler with `TTLDefaulter`, which decrements an int32
with wrap-around (`MaxInt32` is a parameter). `LookUp`, `FailFilter`, `PassFilter`, `ForwardReply`
and `DeadLetter` are the parts of the filter's handler between its calls over the network.

### RequestReply

In `RequestReply` a request goes from `new` over `dispatching`, `sending` and `waiting` to `done`.
`entries[p]` is the map of pod `p` under its lock; `replyEvent[r]` the channel of capacity one of
request `r`. A reply handler is a pair of the reply's correlation id and the request it has looked
up: the lookup and the send on the channel are two steps, since the lock is released in between.
Correlation ids name the event, the key and the pod; encryption is taken to be perfect. Reply events
(`replies`) stay in the broker and may be delivered at any time, any number of times, or never.

`RequestReplySecret` and the triggers of `RequestReplyControl` have, beside the objects of the API
server, the lister's objects, to which the reconciler writes before its update may fail.

### Subscriptions to a channel

A channel has a list of subscribers in its spec and one in its status, each entry a subscription with
a generation. The reconciler's lister has the version it was last told of, however old: `news` says
whose informer has not delivered the current one, and `ObserveChannel` delivers it. `ReconcileKind` is the whole
reconciliation with the generated code around it (finalizer, status update, requeue); its failing
variants stop at the call that fails, with the writes made before it.

### Scheduler

Placements are functions from pod ordinals to vreplicas. `Schedule` holds the scheduler's locks from its
first to its last step, and computes `scheduleVPod` once it has the scale; the caller's status update is
a later step (`Commit`), and so is the lister's view.

`GetScale` and `UpdateScale` of the scale cache take its lock for reading only, so `Schedule` and the
autoscaler are in the cache at once. A call that finds no entry is cut between the answer of the API server
and the moment it stores it (`GetScaleAsks`, `GetScaleReturns`, with the answer in `scaleCall`), an update
between the write and the moment it is stored (`ScaleIsWritten`, `UpdateReturns`). Missing the entry and
being answered is one step: if the other call stores an entry between the two, the answer in the model
is older than in the code, and the age of an answer is what may go wrong with it. `Reset`
takes the lock for writing and waits for both calls. An answer of the API server has a resource version,
an entry has none: `version` says whether an update would be refused.

The autoscaler's round is cut at every API call: `Wake`, `ReadState` (the vpods are listed before the scale
is got, the pods looked at after it), `DecideScale`, `UpdateScale`, `UpdateReturns`, one step per eviction,
`RoundEnds`. `isLeader` is looked at when a round begins and not again, here as in another instance: that
one begins a round while it leads (`OtherRoundBegins`) and writes what the vpods needed then no
matter who leads by that time (`OtherRoundScales`). `Promote` of the scheduler and of the autoscaler are cut
where they take locks. `AutoscalerIsLeaderAware` says which branch `Promote` of the scheduler takes; `New`
builds a leader-aware autoscaler. Two variables are history, for the properties: `scales`, the values
of spec.replicas since the cache was emptied, and `seen.early`, that this happened during the round.

### Controllers of all kinds

Each kind has a section in one of the four `...Reconcilers` modules: the objects its reconciler reads and
writes as a record (`world`), one field per object or group of objects that are treated alike, and
`ReconcileKind` (with the kind's name before it) as a function of what the informers show, what the API
server has, and which write fails. `Reconciliation` gives the steps it is
composed of: reads come from `seen`, writes go to `w` and carry the version read (`Update`), or do not
(`Patch`), and the code that changes the lister's own object is `UpdateInPlace`. The section also says
what others may do to each object (`Env`), what its own controller makes of it (`Heal`), which changes
enqueue the resource (`Enqueues`, from `controller.go`; `Unwatched` are those that nothing enqueues
for), and what readiness promises (`Promise`). `Controllers` picks these by the name of the kind.

`Controllers` runs one resource of any kind: users edit and delete it, others change objects,
informers deliver late and in part (`Deliver`), the reconciliation computes a status that is written
in a later step (`SyncStatus`), and a new leader takes over while the old one still writes
(`Promote`, `WriteDeposed`). `PromoteFunc` and the finalizers are those of the generated code.
Objects whose changes enqueue nothing, and failed writes that are not retried, are remembered in
`drift` and looked at after the resync; the invariants of quiet states do not speak of the time before.

### Admission

`Admission` is one object of some kind: a user's write goes through defaulting, validation and, for an
update, the immutability check with the object stored; a controller's write of status or finalizers
goes through the same, with whatever configuration the administrator has set meanwhile (`cfg`). Spec
fields are those a rule speaks of; texts are classes (valid, empty, malformed). The conversions between
served and stored versions are functions, at the beginning of the module.

### Processes

The other components share no state with one another, so they are checked as a sum: `part` picks one in
the initial state, only its variables move, and the others have no value. A behaviour of `Processes` is
a behaviour of one part, so nothing is lost, and fairness is stated with the part's own variables. Each
part is a section of a module, with a header, an `Init` and a `Next` of its own; its actions are named for the functions and callbacks of the
code, cut wherever the code gives up a lock, waits for a channel or calls the API server.

## Runs

Eight runs must pass. Four must find a violation: they state what a comment of the code says, and the
counterexample is what the code does (see [Disagreements](#disagreements)).

| Run | Properties | Bounds |
| --- | --- | --- |
| `fanout_sync` | `AcceptedIsHandedOver`, `DeadLetterIsLastResort`, `ImplementsContract`, `DispatchEnds` | one event, two subscriptions (one with reply, sink and a retry; one without a URL), one crash |
| `fanout_panic` (violation) | `FailedIsDeadLettered` | one event, two subscriptions |
| `broker_loop` | `TTLIsSpent`, `MapIsTrue`, `LoopsEnd` | one event, one trigger changed twice, default TTL 2, `MaxInt32` 2, one retry, one channel failure |
| `requestreply_retry` | `RightReply`, `EntriesAreReleased`, `WaitingIsReachable`, `HandlersEnd` | three requests, two of them with the same event, one pod, one key, two reply handlers at once |
| `subscription_served` | `SpecIsSet`, `FinalizerComesFirst`, `QuietIsTrue`, `EventuallyServed` | two subscriptions, one updated and deleted, one fault of any kind |
| `subscription_orphan` (violation) | `GoneIsRemoved` | two subscriptions, one deleted, no faults |
| `scheduler_safety` | `ReservedFits`, `EntryIsSincePromotion`, `PlacesInOrder`, `OnlyScaleDownIfPermitted` | two vpods of one or two vreplicas, two pods of capacity two, one disturbance of any kind |
| `scheduler_live` | `PlacedAndScaled` | one vpod, two pods, one change of leader or round of another one, an entry that expires at any time |
| `scheduler_restart` (violation) | `CommittedFits` | two vpods of one vreplica, two pods of capacity one, one restart |
| `controllers` | `ComesToRest`, `StatusIsTrue`, `ChildrenAreProvided`, `Released`, `DeletionCreatesNothing` | each of 20 kinds with its specs and initial worlds, one disturbance (an edit, a deletion, a change by others, a refused write, a new leader), one lag |
| `processes` | those of the 22 parts, below | those of the parts, in `MCProcesses.cfg` |
| `schema_data` (violation) | `SchemaDataIsKept` | the webhook part alone |

A run's configuration is the file of the same name after its module (`ChannelSystem_served.cfg`,
`SchedulerSystem_safety.cfg`, `Controllers_settle.cfg`, `MCProcesses.cfg`, `Admission_schema.cfg`, ...).
What the properties say is stated above their definitions. The type invariants of the core modules are
not among them: they are proved for all bounds (see [Theorems](#theorems)).

In `processes` four properties join what is said of several parts, in `Processes.tla`; the others are
each about one part and are stated in its module.

| Part | Property by itself | `ProcessesFollow` at rest | `AnswersAreRight`, `StartsAndStops` |
| --- | --- | --- | --- |
| admission and conversion | `FrozenStays`, `AdmittedIsStable` (`Readmitted`, `DefaultsSettle`, `Usable`, `VersionsAgree`) | | |
| ping source | | `PingsAreScheduled` | `StopsBetweenMinutes` |
| API server source | `EventsInOrder` | | `ReturnsWhenDone` |
| adapter main and client | `TokensAreValid` | `LevelIsCurrent` | |
| job sink | `AcceptedIsMounted` | | `PollFindsJob` |
| EventTypes from events | `EventsAreRegistered` | | |
| auth proxy | `DecidesWithNewPolicies` | | `PassesUnderPolicy` |
| policies of resources | `PoliciesAreKnown` | | |
| HTTP servers, backoff | | `PresentsLastPair` | `WaitsAsAsked` |
| filters | | | `FilteredAsWritten` |
| lineage graph | | | `EdgesAreDeliveries`, `LineageIsPossible` |
| RequestReply: secret, triggers, key store | `KeysAreKept`, `CleanupKeepsRoutes` | `KeysFollowVolume` | |
| in-memory dispatcher | `ReadyWhenServed` | `ChannelsAreServed` | |
| tracked channels | | `SubscriptionsFollow` | `OneInformerEach` |
| certificates, configuration | | `CertificatesFollow`, `HoldsLastGood` | |
| controllers of sources | | `SourcesAreWatched` | `OneControllerEach` |

`PartsComeToRest` is the liveness of all of them: one failed reflector ends all, HTTP clients come to
trust the current certificates, the cleanup of filters ends, every RequestReply gets a key, the replies
for every pod reach it and only the current triggers are left, an adapter told to stop ends, and a
process whose ConfigMaps are well-formed comes up.

### Why the bounds are enough

* Fanout: two subscriptions are needed for one to fail, time out or panic while the other goes on.
  One event is run, as requests share nothing but the list and the crash. A retry count of one has a
  first and a last attempt. The safety properties are also proved for all bounds.
* Broker: one trigger already makes the ring, and a reply may have any type, pass the filter again and
  be replied to. Two changes let a trigger be deleted and created anew, or updated twice, between the
  lookup and the use of its filter. TTLs are the default, the smallest integer (whose decrement wraps
  to the largest) and an exhausted one. `TTLIsSpent` is proved for all bounds.
* RequestReply: the original, its retry, and an unrelated request; a reply may come before the send has
  returned, after the requester gave up, and twice. More pods add nothing, since a pod's map is its own.
* Controllers: one disturbance at any moment, together with informers that lag once, gives every pair
  of "what was read" and "what is there" that differ in one change; the properties compare quiet
  states with a reconciliation from scratch. Two disturbances are too many for the listed run; each of
  the twenty kinds was checked with `MaxDisturbances = 2` by itself and satisfies the same properties
  (5.2 million states for Parallel, the largest). Two are not the same as one: it was there that
  failures reported only as events, and objects of the same name that belong to others, turned out to
  wait for the resync.
* Processes: each part has two of what can interfere (requests, workers, replicas, goroutines, keys)
  and enough changes for on, off and on again where something is started and stopped; durations and
  integers are scaled down with their limits kept in proportion (`MaxDuration`, `Day`, `Minute`).
* Secret and triggers: three resources give each pair of names, related and not. Two scalings, or a
  scaling and a fault or a moved pod (`MaxDisturbances`), make old and new generations, up, down and back,
  and the timer may fire before or after anything else. The two properties about the cleanup of old triggers are for scalings of which
  each was done with before the next one came (`rescaled` is false): its triggers were ready, the
  timer has fired and the lister shows the deletions. For others the cleanup does not keep what it
  promises (see [Disagreements](#disagreements)); everything else is checked for them too. Two
  writes of the mounted secret (`MaxSecretWrites`) let the second overtake the events of the first.
* Subscriptions: the merge patch is of the whole list, so two subscriptions suffice to undo one
  another; two generations show an entry of the wrong one.
* Scheduler: two pods are needed to move a vreplica and for the scale to be wrong by one in both
  directions; capacity two lets a pod be half full. The two vpods are interchangeable, so the safety
  run uses symmetry; the liveness run does not. Vpods ask for at least one vreplica there
  (`MinVReplicas`): one with none is to the scheduler like one that is deleted, and keeps its key. Expiry of
  the entry is left to the liveness run, where it may happen again and again, and to the proofs. `MaxPods` is large enough for all vreplicas, which an
  `ASSUME` says: the code has no such limit, and a statefulset without room is not what is studied.
  All safety properties are also proved for all bounds.

### Deadlock

Deadlock is checked where some actor can always go on; in `processes` a part may rest only where its own
`Idle` says that nothing is left to be done. It is switched off in the runs of the broker, the
subscriptions, `RequestReply` and the controllers, whose environments may stop: when no producer sends
and no user changes anything, nothing happens.

### Fairness

Only weak fairness is used, and only for what the program or the platform keeps running:

* goroutines that can run do run, HTTP requests end with an answer, an error or a timeout (`Deliver`,
  `Collect`, `SendStep`, `NewEventStep`, `OfferReply`), and a process with a panic is restarted;
* work queues retry, informers deliver, kubelets make progress (`Reconcile`, `ReconcileIMC`,
  `ControllerStep`, `Observe...`, `ClusterStep`, `PodProgress`, `TriggerReconciled`);
* the autoscaler's loop wakes up: its timer fires when nothing triggers it (`AutoscalerStep`); a vpod that
  is not placed is requeued, and a call of `Schedule` that has begun ends (`MustSchedule`);
* an entry of the scale cache reaches the end of its refresh period (`EntryIsOld`), which is what repairs
  one that was stored late;
* a timer that was set fires (`deleteTrigger`);
* in `processes`, the steps of a part that its own goroutines and informers take (its `Progress`), and
  for the HTTP clients each of three sources of steps by itself: the resync, the informer's handlers and
  the dispatches of new requests, as none of them waits for the others.

Nothing is assumed of producers, users, subscribers or faults. Faults are bounded, as "eventually"
means nothing under faults that never end. Where a property only holds without them it says so
(`AllRouted` and `OnlyCurrent` in `RequestReplyControl`, `HaveKeys` in `RequestReplySecret`).

## Theorems

TLC checks the instances above. TLAPS has checked the following for every value of the constants that
satisfies the `ASSUME`s of the modules, which only say what set each constant is from. Where a theorem
needs more, its statement says so.

| Theorem | States |
| --- | --- |
| `FanoutProofs!FanoutTypeCorrect` | `Spec => []TypeOK` |
| `FanoutProofs!AcceptedMeansHandedOver` | a synchronous 202 means every subscription of the snapshot got the event or its dead letter sink did |
| `FanoutProofs!DeadLetterLast` | a dead letter is sent only after a final failure or the last retry |
| `FanoutProofs!FanoutImplementsContract` | `Fanout` over `EventDispatcher` implements `DeliveryContract` |
| `SenderProofs!RequestReplyTypeCorrect` | `Spec => []TypeOK` |
| `SenderProofs!RepliesAreRight` | with unique event ids, a requester gets replies to its own event only |
| `SenderProofs!WaitingIsReached` | the entry of a request whose event was sent once is there until it ends |
| `SenderProofs!EntriesGo` | the entry of a request that ended is gone unless its handler failed |
| `BrokerProofs!BrokerTypeCorrect` | `Spec => []TypeOK` |
| `BrokerProofs!TTLBoundsLoops` | passes through the ingress and the remaining TTL add up to the TTL granted |
| `BrokerProofs!FiltersAreTrue` | a trigger's filter in the map is that of its spec once its handlers have run |
| `ChannelProofs!SpecIsAlwaysSet` | no subscription is twice among a channel's subscribers |
| `ChannelProofs!FinalizersComeFirst` | a subscription has its finalizer before it is on the list |
| `ChannelProofs!ChannelTypeCorrect` | `Spec => []TypeOK` |
| `ChannelProofs!QuietIsAlwaysTrue` | at rest, what the conditions of a subscription say is so in the channel, and what a ready channel's spec asks for is in its fanout and its status |
| `SchedulerProofs!SchedulerTypeCorrect` | `Spec => []TypeOK`, with the bounds of all counts |
| `SchedulerProofs!ReservationsFit` | no pod has more reserved than its capacity |
| `SchedulerProofs!SchedulePlacesInOrder` | `Schedule` moves no vreplica, and adds to pods that are schedulable only |
| `SchedulerProofs!EntriesAreSincePromotion` | the cached scale is one there was since `Promote` emptied the cache |
| `SchedulerProofs!ScalesDownIfPermitted` | a round that was not permitted to scale down asks for more than such a scale |
| `SenderProofs!CachedTokensLive` | a cached token lives until the sink has answered, if that takes no longer than the buffer |
| `SenderProofs!EventsStayInOrder` | a watch sends an object's events once, in order, and none for what its list showed |
| `InformerProofs!ReadyMeansServed` | the dispatcher's readiness probe succeeds only when the ready channels have their handlers, or a handler too many is counted |
| `InformerProofs!ChannelsStayServed` | at rest, ready channels are served with their own subscribers, and those that are gone are not |
| `InformerProofs!SubscriptionsFollowChannels` | at rest, a Subscription is resolved if and only if its channels allow it, and is listed with the delivery that follows from them |
| `InformerProofs!TrackerStartsOnce` | a kind that is tracked has one informer with one handler |
| `IngressProofs!KeysStay` | no write of `reconcileAesSecret` loses a key |
| `IngressProofs!DecidesWithTheNew` | no request is decided with policies older than those the proxy was told of before it |
| `IngressProofs!PoliciesBecomeKnown` | at rest, every resource has the policies that apply to it in its status |
| `IngressProofs!AcceptedMeansMounted` | an acknowledged event has its Job, and the Job its Secret, now or soon |
| `IngressProofs!EventsBecomeRegistered` | an event recorded without an error has an EventType of its name once the lister has caught up |
| `ControllerProofs!ResourcesAreReleased` | of every kind: at rest, a resource under deletion is gone unless somebody else holds it |
| `ControllerProofs!DeletedCreateNothing` | of every kind but the source duck: a reconciliation that sees the deletion creates nothing |

**Fanout.** That a 202 means delivery is not inductive: it says nothing of the time before the 202.
`IInv` (in `Fanout`) adds, per send, that where it is agrees with what it has asked and been
answered (`SendInv`: the dead letter sink has not been tried while an earlier target is in progress;
requests counted are attempts plus the one on the wire; a send returned without error exactly if it
was handed over), and, per request, that what was collected agrees with the sends (`RequestInv`: the
snapshot is the set of sends started; collected sends have returned, and an error among them is in
`fanoutErr`). A cancelled context complicates the dead letter: a send may be at its dead letter stage
without a final failure, but then no request leaves, since the context is done. The proof has a lemma per action; `SendFrame`
and `SendDies` cover the sends an action does not touch or kills. For the refinement the fate of a
delivery is read off its send (`fateOf`), and each action maps to one action of the contract or to a
stutter: `Receive` to `TakeIn`, the last `Collect` or `Timeout` to `Accept` or `Refuse`, a send's last
step to `Settle`, `Restart` to `Forget`.

**RequestReply.** Replies are matched by event id, so `IdsMatch` says that the map, the reply
handlers in progress, the channels and the responses only join requests with equal ids; with
`UniqueIds` this gives `RightReply`. Without it the property is false, as the code has nothing else
to tell events apart. `WaitingIsReached` rests on the invariant as well.

`EntriesGo` needs `EntriesAreOwn`: an entry belongs to a request that its pod has begun to serve, so
that `deleteEvent` of another request, or a restart of another pod, has nothing to do with it.

**Broker.** `Inv` says of every send in the bag that its event, and its reply if it has one, is
`Spent`: TTL and hops add up to the TTL granted plus one, and the TTL is positive. The arithmetic is
in `DefaultedSpends` and `DefaultedGrants`, for the wrap-around too; the bag lemmas reduce a step to
the sends it adds. For the map of filters `LastNoticeIsTrue` says that the last callback still to run
for a trigger has the trigger as the lister has it; running it makes `MapIsTrue`.

**Subscriptions.** `ListInv` says of the channel's list that it has no subscription twice and only such
that were created and have a finalizer while they exist, and says the same of the lister's list, from
which the next patch is made. What the two list functions return is in lemmas of their own, with the
position of an entry as a minimum. `NoticeInv` is the argument of a level-triggered controller: the
conditions of a subscription that is not in the queue are true of the channel its reconciler sees,
or news of the channel are on their way that will queue it. `DispatcherInv` is the same argument for the
dispatcher, with the news of its own last patch. Its JSON patch is made from one list and applied to
another, by position: `PatchIsList` says that what comes out is a list of subscribers nevertheless, if
the patch applies, and `PatchIsRight` that it is the wanted one if the list has not changed.

**Scheduler.** `CacheInv`: not only the entry, but every answer that a call has still to store is a scale
there was since the cache was emptied, and so is the present one, which the next caller gets. `Reset`
makes all older scales unknown at once; that it waits for the calls in progress is what keeps the invariant.
`UpdateInv` carries the decision of a round to its update: between the two others may write the scale and
`Promote` may empty the cache. The rest needs what the library's folds and a loop over vreplicas return, for which the prover has
no induction. Sums are therefore cardinalities: `Total` counts the units of its numbers, and the library's
facts about finite sets give what a change of one number does. The rounds of `addReplicas` are
a function of the number of vreplicas placed, and `Allocations` says that a set closed under one placement
holds the result of all; it rests on induction in the form of a least counterexample (`UpTo`). `Outcomes`
says what a call of `scheduleVPod` may do to a vpod's reservations, and the invariants follow action by
action. `TypeInv` adds to the types that the total the autoscaler has read fits the statefulset. The
`ASSUME` of `SchedulerState` says that the vpods are finitely many and that `MaxPods` suffices for all of
their vreplicas. `ReservationsFit` and `SchedulePlacesInOrder` are for the leader-aware autoscaler that `New`
builds: the other branch of `Promote` takes over committed placements, which may exceed the capacity.

**Tokens and keys.** `ClientInv`: what is cached outlives its stay in the cache by the buffer, and the
token of a call the time the call may take; the theorem assumes that this time is at most the buffer
(`BufferSuffices`). `SecretInv`: what reconcilers put into the lister's object only adds to what the
informer delivered, so an update that is not refused for its version has all keys; it assumes that no
resource has the name that stands for a missing secret (`DeletedIsNoResource`).

**API server events.** `SentOK`: a watch's reflector has seen some part of what happened to its objects;
what it sent is of this part, in increasing order, selected, and not in its last list. A reflector that
starts again lists at a later position, so nothing is sent twice.

**Handlers of the dispatcher.** `HandlersInv`: a ready channel that is not queued has its handlers, or
its reconciliation is between the two with the object there is (`ServedInv`); one that is gone has none for
its host, unless it was deleted under its reconciliation (`GoneInv`). For the probe, which only counts, a
set of channels with a handler too few each has too few in all (`TwoKeysEach`, `NoneMissing`); this needs
finitely many channels. Both theorems assume that `None` is nothing else (`NoneIsNothing`).

**Tracked channels.** The tracker starts informers while reconciliations run, and a reconciliation reads
the Channel, then the backing channel, with changes in between. `TrackInv`: a Subscription that rests has
tracked what its outcome depends on, and an event that will queue it is to come or it follows the channels
as they are (`RestInv`); one that is reconciled has tracked what it reads next, and the Channel it found
ready still is, or it is queued or will be (`WorkInv`). The theorem assumes that `None` stands for nothing
else (`NoneIsNoObject`) and that at most one informer fails to start: the first failure changes the
status, which queues the Subscription, and a second in the same words would not. `TrackerStartsOnce` assumes
neither.

**Policies.** `AuthInv`: the cache is never older than what the handler was last told, since telling it
clears the cache under the lock that filling it takes. `PolicyInv`: the status of a resource is right
about every policy, or the resource is queued, or an event that will queue it is on its way; the lemma
behind it is that the handler and the reconciler agree on what a policy applies to.

**Job sink.** That accepted events have Job and Secret is not inductive, as a request may be accepted
for a Job that another one made: `JobInv` says it of every Job. It assumes that `None` is no request.

**EventTypes.** `TypesInv`: the EventType of a recorded event exists, or is still in the lister, which has
not learned of its deletion.

**Controllers.** `EveryKind` says of the `ReconcileKind` of each kind, whatever informers show and whichever
write fails, that it leaves the resource alone but for its finalizer, sets that only if the reconciler is a
Finalizer and the resource is not under deletion, returns an error if it could not clear it under deletion,
and then leaves no object there that was not there. Kinds without a finalizer return early
(`PlainReconcile`); the three with one go through the patch of finalizers step by step. `ReleaseInv` then has
four parts: only Finalizers set finalizers; a resource under deletion that nothing holds is gone; an informer
that owes no event of the resource shows it as it is; and one under deletion that has its finalizer is
announced, queued, or was reconciled with an error, after which it is queued again. Nothing is assumed but
that the kinds are among those the module has.

Only model-checked:

* all liveness, since fairness and `ENABLED` are out of reach of the prover;
* `ComesToRest`, `StatusIsTrue` and `ChildrenAreProvided` of the controllers: they compare a state with the
  result of another reconciliation, so a proof would evaluate the `ReconcileKind`s of twenty kinds case by
  case, which is what TLC does;
* `FrozenStays` and `AdmittedIsStable`: admission and conversion as functions of a finite set of objects and
  configurations, all of which the run goes through;
* `ProcessesFollow`, `AnswersAreRight` and `StartsAndStops`, which join statements about many parts, some of
  them recursive (backoff, filters, graph); of those joined, `ChannelsAreServed`, `SubscriptionsFollow` and
  `OneInformerEach` are proved;
* `CleanupKeepsRoutes`, whose precondition is about the whole past of the triggers (see below).

## Disagreements

Shown by a run:

* `fanout_panic`: `dispatchExecutionInfoTransformers` encodes the body of a failed answer into a buffer
  sized for the truncated text. A body of more than 768 bytes runs past the end, and the process
  panics instead of dead lettering the event (`pkg/kncloudevents/event_dispatcher.go:593`).
* `scheduler_restart`: `StatefulSetScheduler.Promote` returns the result of the autoscaler's `Promote`
  before `initReserved`, so a new process knows of no committed placement and gives a pod more than
  its capacity (`pkg/scheduler/statefulset/scheduler.go:146`).
* `subscription_orphan`: `FinalizeKind` removes a subscription from the list its lister has. If that
  list is older than the addition, the patch is empty, the finalizer goes, and the channel keeps
  serving a subscription that no longer exists (`pkg/reconciler/subscription/subscription.go:144`).

* `schema_data`: v1beta2 EventTypes have `schemaData`, v1beta3 has no place for it, and a controller
  that writes the status through v1beta3 removes it from the stored object
  (`pkg/apis/eventing/v1beta2/eventtype_conversion.go:31`).

Met while modelling and kept in the models as the code has them, without a run of their own. Where a
property would fail because of one, the property names the exception.

Data planes:

* `TTLDefaulter` wraps around for the smallest int32, to the largest TTL, where its comment says "If TTL
  is <= 0, it will remain 0." (`pkg/broker/ttl.go:60`). Loops still end, much later.
* A trigger that is updated while a request uses its old filter closes the channel on which
  `allFilter.Filter` reports: the handler panics, and an event the trigger does not want is retried
  and dead lettered (`BrokerSystem!FailFilter`). `Cleanup` of all and any filters reads the list
  without the lock. An any filter with an empty `not` depends on the order.
* With OIDC a dead letter whose trigger has lost its sink in the meantime is answered 200 and dropped
  (`BrokerSystem!DeadLetter`).
* `filterEvent` makes a filter on the fly if the map has none, which leaks its goroutine; if the map
  has an old one, it is used.
* Job sink: a Job whose request ended before the Secret was made stays without it, and the next request
  for the event is answered 202 (`EventIngress`, `cut`).
* In-memory dispatcher: `deleteFunc` leaves the handler of the path; a channel deleted while it is
  reconciled keeps that of its host, also when a later channel of that name is deleted before it has an
  address; with strict encryption the readiness check counts two handlers per channel where in that mode a channel has fewer, so two ready channels keep a new process unready
  (`pkg/reconciler/inmemorychannel/dispatcher/readiness.go:79`).
* Key store: a key that is replaced behind its link is not noticed; the newest key stays after its
  removal; a lost file event is only logged.
* HTTP clients: a dispatch that began before a change of certificates puts the old client back until the
  next resync. Tokens: a recreated service account's old token stays cached; retries reuse a token.
* Adapter `main`: a missing logging ConfigMap is said to fall back to defaults and is fatal soon after; an
  adapter that returns early without an error leaves `main` waiting; a changed level reaches the
  adapters of single sources only with their next reconciliation.
* Ping source: an `Update` that overlaps a removal or the loss of the lease leaves an entry that
  nobody removes. API server source: the end of the process may race the end of a watch.
* Event servers: `StartServers` returns when its context is done, before the servers have drained.
* `SubjectAndFiltersPass` lets the first policy with the subject decide; the proxy looks policies up
  without the labels of its resource and includes those that are not ready.
* `RetryAfterMax` and `Timeout` are not saturated, unlike the other durations of a delivery.
* Lineage graph: triggers that share an EventType object drop one another's lineage; a source without
  overrides, and an EventType without a reference, end in a nil dereference; texts are used as
  regular expressions without being quoted.
* The name of an automatic EventType has a hash of type and source without a separator between them: two
  events whose texts run together alike share the first one's EventType (`EventIngress`).

Scheduler:

* `Promote` of the autoscaler resets the cache "so that when we access state as the leader it is always the
  newest values" (`pkg/scheduler/statefulset/autoscaler.go:96`). The newest they need not be. The flag is
  set before the cache is emptied, and a round may begin in between. A call of `Schedule` that found
  no entry may store what it was told after the autoscaler has updated and stored the scale. An instance
  that has lost the leadership ends its round, as `isLeader` is not looked at again. What remains is
  `EntryIsSincePromotion`; the refresh period repairs the rest.
* "Only scale down if permitted" (`autoscaler.go:210`): a round that may not scale down compares with the
  cached scale, and an update made from an entry carries no resource version. If the scale has grown in the meantime, the
  update takes pods away nevertheless. `OnlyScaleDownIfPermitted` says how far.

Controllers:

* A reconciler that changes the lister's own object before its update takes it for the truth after a
  failure, until the informer delivers another version: RequestReply, ContainerSource,
  IntegrationSource, IntegrationSink, EventTransform, ApiServerSource (`UpdateInPlace`).
* A Subscription whose patch failed twice is not queued again and keeps `ChannelReady` from before next
  to `AddedToChannel` false; `ChannelReady` may be that of a channel older than the last patch.
  `QuietIsTrue` therefore asks for a subscription that says it was added.
* The test whether the shared secret has a key for a resource is a prefix test on names. A secret that
  was deleted and made anew has no label and is not seen. The cleanup of old triggers is a timer that
  a restart forgets, and that deletes the triggers of the former number of replicas, whatever the number is by then: a
  statefulset that is scaled back within the delay loses triggers in use until the next reconciliation, and
  so does one that is scaled back while the lister still shows triggers that the timer has deleted. The
  annotation with the former number is overwritten by a scaling before the new triggers are ready, and the
  triggers of the number before that stay. A trigger counts as ready with the route of a pod that has moved.
  No timer is set if a second scaling asks for as many replicas as are ready, so that the triggers made
  between the two stay (`pkg/reconciler/requestreply/requestreply.go:216`).
  `enqueueRequestRepliesForBroker` queues indices instead of names.
* InMemoryChannel returns a failed write of its dispatcher's objects as an event, which the generated
  reconciler counts as done: unless the status changed too, nobody tries again before the resync
  (`pkg/reconciler/inmemorychannel/controller/inmemorychannel.go:70`). The wait is in
  `drift`, and nothing is claimed of the resource until the resync ends it.
* Objects whose changes enqueue nothing: `Unwatched` of each kind. Errors that no condition shows:
  `Hidden` of each.
* EventTransform goes on advertising its HTTP address after permissive became strict. InMemoryChannel
  overwrites a Service before it looks whose it is. Sequence and Parallel delete a Subscription of
  somebody else that has the name. Parallel's `globalResync` is never assigned. The source duck
  reconciler does not look at deletion. Removed environment entries and overrides of ContainerSource
  and IntegrationSource stay in their children. Finalizers of PingSource and ApiServerSource clear an
  attribute that is never written back. The EventPolicy of a Broker's channel is not
  controlled by the Broker, so it stays when OIDC is switched off.
* A controller of a source whose informer failed is stored as nil and never tried again; none is
  stopped when its CRD goes, as the TODO in `pkg/reconciler/source/crd/crd.go:125` says.
* The certificates informer leaves its lister behind when it is stopped; switched on again it may be
  read before it is filled, and the feature callback waits until cert-manager is there.
* `EventPolicyEventHandler` ignores deletions that come as tombstones.

Webhooks and configuration:

* Delivery defaults of a Broker are not idempotent where its config's kind is taken for a class; a Broker
  without a config is admitted. A later write may be refused when a feature or a limit changed.
* `CheckImmutableFields` of EventType is never called; a negative delivery timeout is admitted; the
  attributes a RequestReply may not use are said to include source, the code has "course"; Sequence and Parallel ignore the
  channel defaults of their namespace; the `broker` field of v1beta2 EventTypes is lost.
* Only the ConfigMaps of sugar, observability, logging and leader election are checked when they are
  written. Another one that cannot be parsed is passed over by a webhook that runs, and ends one that
  starts. Unknown values of features are stored as they are. Deleting a ConfigMap changes nothing until
  the process starts again. A change of the sugar configuration reconciles nothing.

## Not modelled

* Generated clients, listers, informers, injection and deep copies: no behaviour of their own. The
  generated reconcilers are modelled once, in `Reconciliation` and `Controllers`; those parts of them
  that this repository does not use (server-side apply, observers, read-only kinds) are not.
* The wiring of commands, flags and environments, and the examples under `cmd` (heartbeats, event
  display, appender, websocket source): calls into the modelled parts, or a loop without a promise.
* Wording of errors and events, logging, metrics and traces; contents of events and the attributes of
  generated ones; PEM, YAML, CESQL, JSONata and URLs beyond being equal, empty or malformed.
* TLS, token signatures and encryption, which are taken to be perfect.
* Real time: a timeout is a step that may happen at any moment, so properties hold for all durations,
  but nothing is said about how long anything takes. Where durations are compared (backoff, tokens, the
  minute of a ping source) they are small numbers.
* The Kubernetes API server, informers and work queues beyond what the code relies on: atomic writes,
  merge and JSON patches, resource versions, caches that are old but go forward only, queues that
  hold a key once and retry it.
* The OIDC service accounts of the data planes' resources beyond their existence; roles and role
  bindings are objects that are right or not.
* One resource at a time in `Controllers`: resources of one kind share no object but the RequestReply
  secret, the ping source adapter and the subscribers of a channel, which have models of their own with
  several.

The models are bounded where the code is not: each bound is a constant named `Max...`, and limits how
often users, faults and scalings happen, not what the program does in answer to them.
