--------------------------- MODULE ChannelInformers ---------------------------
(***************************************************************************)
(* How changes of channels reach those that serve them: the handlers of    *)
(* the in-memory dispatcher, and the tracker of the Subscription           *)
(* controller.                                                             *)
(***************************************************************************)
EXTENDS Optional, Integers, FiniteSets

-----------------------------------------------------------------------------
(***************************************************************************)
(* The dispatcher of all in-memory channels as an HTTP server: the map of  *)
(* handlers that requests are routed with (pkg/channel/multichannelfanout, *)
(* pkg/channel/event_receiver.go), the reconciler that fills it and the    *)
(* informer's callback that empties it                                     *)
(* (pkg/reconciler/inmemorychannel/dispatcher).  A channel has a handler   *)
(* under the host of its address and one under the path of its name.       *)
(* Workers reconcile different channels at once, each with the object it   *)
(* read when it began, while the informer goes on.                         *)
(***************************************************************************)

CONSTANTS
  Channels,         \* The names of channels.
  SubscriberLists,  \* The lists of subscribers that a channel may have.
  MaxChannelChanges,\* Bound on the changes of channels.
  MaxDispatchers    \* Bound on how often the dispatcher starts.

VARIABLES
  strict,         \* Whether transport encryption is strict (constant).
  oidc,           \* Whether authentication is on (constant).
  imcs,           \* The channels in the informer's store, or None.
  imcQueue,       \* The channels in the work queue.
  imcWork,        \* The reconciliation of each channel: the object it read and
                  \* the handler it sets next, or None.
  handlers,       \* The handlers by key: the subscriptions of each and how it
                  \* tells the channel of a request, or None.
  dispatcherReady,\* Whether the readiness probe has succeeded.
  deleted,        \* The channels that were deleted since the dispatcher started.
  outlived,       \* The channels whose handler may have outlived them: they were deleted
                  \* during their reconciliation, and not again with an address since.
  imcChanges,     \* How often a channel changed.
  dispatchers     \* How often the dispatcher started.

channelHandlerVars == <<strict, oidc, imcs, imcQueue, imcWork, handlers, dispatcherReady, deleted,
                        outlived, imcChanges, dispatchers>>

(* newConfigForInMemoryChannel.  In the strict mode the address of every   *)
(* channel has the host of the dispatcher's own service, and the path      *)
(* tells the channels apart.                                               *)
HostName(c) == IF strict THEN <<"dispatcher">> ELSE <<"host", c>>
Path(c) == <<"path", c>>

Keys == {<<"dispatcher">>} \cup {<<kind, c>> : kind \in {"host", "path"}, c \in Channels}

ChannelHandlersInit ==
  /\ strict \in BOOLEAN /\ oidc \in BOOLEAN
  /\ imcs = [c \in Channels |-> None]
  /\ imcQueue = {}
  /\ imcWork = [c \in Channels |-> None]
  /\ handlers = [k \in Keys |-> None]
  /\ dispatcherReady = FALSE
  /\ deleted = {}
  /\ outlived = {}
  /\ imcChanges = 0
  /\ dispatchers = 1

-----------------------------------------------------------------------------
(* The channels, and what the informer makes of a change.                  *)

HandlersChange ==
  /\ imcChanges < MaxChannelChanges
  /\ imcChanges' = imcChanges + 1
  /\ UNCHANGED <<strict, oidc, imcWork, dispatcherReady, dispatchers>>

IMCChanges(c) ==
  /\ HandlersChange
  /\ \E subscribers \in SubscriberLists, ready \in BOOLEAN :
       imcs' = [imcs EXCEPT ![c] =
                  [subs |-> subscribers, ready |-> ready,
                   addressed |-> ready \/ (imcs[c] # None /\ imcs[c].addressed)]]
  /\ imcs' # imcs
  /\ imcQueue' = imcQueue \cup {c}
  /\ UNCHANGED <<handlers, deleted, outlived>>

(* The handler of the host goes, if there is an address; the one of the    *)
(* path stays.                                                             *)
deleteFuncNothing(c) == handlers

deleteFunc(c) ==
  IF imcs[c].addressed THEN [handlers EXCEPT ![HostName(c)] = None] ELSE handlers

IMCDeleted(c) ==
  /\ HandlersChange
  /\ imcs[c] # None
  /\ imcs' = [imcs EXCEPT ![c] = None]
  /\ handlers' = deleteFunc(c)
  /\ deleted' = deleted \cup {c}
  /\ outlived' = CASE imcWork[c] # None -> outlived \cup {c}
                   [] imcWork[c] = None /\ imcs[c].addressed -> outlived \ {c}
                   [] OTHER -> outlived
  /\ UNCHANGED imcQueue

-----------------------------------------------------------------------------
(* reconcile: nothing is done for a channel that is gone or not ready.     *)
ReconcileStarts(c) ==
  /\ c \in imcQueue /\ imcWork[c] = None
  /\ imcQueue' = imcQueue \ {c}
  /\ imcWork' = IF imcs[c] # None /\ imcs[c].ready
                  THEN [imcWork EXCEPT ![c] = [subs |-> imcs[c].subs, at |-> "host"]]
                  ELSE imcWork
  /\ UNCHANGED <<strict, oidc, imcs, handlers, dispatcherReady, deleted, outlived, imcChanges,
                 dispatchers>>

NewFanoutEventHandler(resolve, subscribers) == [resolve |-> resolve, subs |-> subscribers]

SetSubscriptionsNot(handler, subscribers) == handler

SetSubscriptions(handler, subscribers) == [handler EXCEPT !.subs = subscribers]

(* A new handler, or new subscriptions for the one that is there.          *)
SetChannelHandler(key, resolve, subscribers) ==
  handlers' = [handlers EXCEPT ![key] =
                 IF @ = None THEN NewFanoutEventHandler(resolve, subscribers)
                 ELSE SetSubscriptions(@, subscribers)]

reconcileHost(c) ==
  /\ imcWork[c] # None /\ imcWork[c].at = "host"
  /\ SetChannelHandler(HostName(c), "host", imcWork[c].subs)
  /\ imcWork' = [imcWork EXCEPT ![c].at = "path"]
  /\ UNCHANGED <<strict, oidc, imcs, imcQueue, dispatcherReady, deleted, outlived, imcChanges,
                 dispatchers>>

reconcilePath(c) ==
  /\ imcWork[c] # None /\ imcWork[c].at = "path"
  /\ SetChannelHandler(Path(c), "path", imcWork[c].subs)
  /\ imcWork' = [imcWork EXCEPT ![c] = None]
  /\ UNCHANGED <<strict, oidc, imcs, imcQueue, dispatcherReady, deleted, outlived, imcChanges,
                 dispatchers>>

-----------------------------------------------------------------------------
(* The readiness probe, which is true for good once it was true.           *)
readyChannels == {c \in Channels : imcs[c] # None /\ imcs[c].ready}

CountChannelHandlers == Cardinality({k \in Keys : handlers[k] # None})

EnoughHandlersOnce == CountChannelHandlers >= Cardinality(readyChannels)

EnoughHandlers == CountChannelHandlers >= 2 * Cardinality(readyChannels)

IsReady ==
  /\ ~dispatcherReady
  /\ dispatcherReady' = EnoughHandlers
  /\ UNCHANGED <<strict, oidc, imcs, imcQueue, imcWork, handlers, deleted, outlived, imcChanges,
                 dispatchers>>

(* A new dispatcher: the informer tells it of every channel.               *)
HandlersNewController ==
  /\ dispatchers < MaxDispatchers
  /\ dispatchers' = dispatchers + 1
  /\ imcQueue' = {c \in Channels : imcs[c] # None}
  /\ imcWork' = [c \in Channels |-> None]
  /\ handlers' = [k \in Keys |-> None]
  /\ dispatcherReady' = FALSE
  /\ deleted' = {}
  /\ outlived' = {}
  /\ UNCHANGED <<strict, oidc, imcs, imcChanges>>

ChannelsIdle ==
  /\ imcChanges = MaxChannelChanges /\ imcQueue = {}
  /\ \A c \in Channels : imcWork[c] = None
  /\ UNCHANGED channelHandlerVars

ChannelHandlersNext ==
  \/ \E c \in Channels :
       \/ IMCChanges(c) \/ IMCDeleted(c)
       \/ ReconcileStarts(c) \/ reconcileHost(c) \/ reconcilePath(c)
  \/ IsReady \/ HandlersNewController \/ ChannelsIdle

ChannelHandlersSpec == ChannelHandlersInit /\ [][ChannelHandlersNext]_channelHandlerVars

-----------------------------------------------------------------------------
(* What becomes of a POST of a valid event: a request has a host, that of  *)
(* a channel or of the dispatcher, and a path, "/" or that of a channel.   *)

ParseChannelFromHost(host) == IF host = <<"dispatcher">> THEN None ELSE host[2]
ParseChannelFromPath(path) == path[2]

Answer(code, subscribers) == [status |-> code, to |-> subscribers]

(* With authentication the policies are looked up in the channel's status. *)
getAppliedEventPolicyRef(c) == c # None /\ imcs[c] # None

(* The receiver of a handler.                                              *)
Receive(handler, request) ==
  LET c == IF handler.resolve = "path" THEN ParseChannelFromPath(request.path)
           ELSE ParseChannelFromHost(request.host) IN
  IF oidc /\ ~getAppliedEventPolicyRef(c) THEN Answer(500, None)
  ELSE Answer(202, handler.subs)

(* The handler of the request's host if the path is "/", of the path if    *)
(* not.                                                                    *)
HandlersServeHTTP(request) ==
  LET channelKey == IF request.path = <<"/">> THEN request.host ELSE request.path IN
  IF handlers[channelKey] = None THEN Answer(500, None)
  ELSE Receive(handlers[channelKey], request)

ByHost(c) == [host |-> HostName(c), path |-> <<"/">>]
ByPath(c) == [host |-> <<"dispatcher">>, path |-> Path(c)]

HandlersSettled == imcQueue = {} /\ \A c \in Channels : imcWork[c] = None

(* When everything was reconciled, an event for a channel that is ready    *)
(* goes to the channel's subscribers, by host or by path, with the workers *)
(* of other channels and deletions in between; an event for the host of a  *)
(* channel that was deleted is refused, unless a deletion came during the  *)
(* channel's reconciliation and none of a channel with an address since.   *)
(* (Without authentication the path of a deleted channel goes on to work:  *)
(* deleteFunc leaves that handler.)                                        *)
ChannelsAreServed ==
  HandlersSettled =>
    \A c \in Channels :
      /\ c \in readyChannels =>
           /\ HandlersServeHTTP(ByPath(c)) = Answer(202, imcs[c].subs)
           /\ ~strict => HandlersServeHTTP(ByHost(c)) = Answer(202, imcs[c].subs)
      /\ imcs[c] = None =>
           /\ oidc => HandlersServeHTTP(ByPath(c)).status = 500
           /\ ~strict /\ c \notin outlived => HandlersServeHTTP(ByHost(c)).status = 500

(* "It checks whether the dispatcher has registered a handler for all      *)
(* observed in-memory Channels": the probe succeeds only when every        *)
(* channel that is ready has its two handlers, as long as handlers of      *)
(* deleted channels or of channels that stopped being ready are not among  *)
(* those it counts.                                                        *)
ReadyWhenServed ==
  [][~dispatcherReady /\ dispatcherReady' =>
       \/ \A c \in readyChannels : handlers[HostName(c)] # None /\ handlers[Path(c)] # None
       \/ \E c \in Channels \ readyChannels :
            handlers[Path(c)] # None \/ handlers[HostName(c)] # None]_channelHandlerVars

-----------------------------------------------------------------------------
(***************************************************************************)
(* How a Subscription finds the channel it belongs to and hears of its     *)
(* changes: the tracker that starts an informer for a kind of channel when *)
(* it is first referred to (pkg/duck/listable.go), and getChannel and      *)
(* deliverySpec of the subscription reconciler                             *)
(* (pkg/reconciler/subscription).  A Subscription names a Channel, which   *)
(* has a backing channel, or the backing channel itself.  The Channel is   *)
(* in two caches: that of the informer which the tracker starts, and that  *)
(* of the typed lister.  A cache has a new object before its handlers are  *)
(* told of it, and any worker may read it in between.  How the entries of  *)
(* several Subscriptions share one list is the matter of                   *)
(* SubscriptionReconciler; here each has an entry of its own.              *)
(***************************************************************************)

CONSTANTS
  ViaChannel,       \* The Subscriptions to the Channel.
  Directly,         \* The Subscriptions to the channel behind it.
  DeliverySpecs,    \* The delivery specifications a channel may have, None among them.
  OwnDelivery,      \* spec.delivery of each Subscription.
  MaxTrackChanges,  \* Bound on the changes of the two channels.
  MaxInformerFaults \* Bound on the informers that do not start.

VARIABLES
  chan,           \* The Channel: None, or whether it is ready.
  backing,        \* The backing channel, or None.
  entry,          \* The delivery that the backing channel lists for each Subscription.
  caches,         \* The object that each informer has in its cache.
  behind,         \* The informers that have not seen the last change.
  notifying,      \* The informers whose handlers have not been called since.
  concrete,       \* The kinds that the tracker has an informer for.
  registered,     \* How many handlers the tracker added to the informer of each.
  observers,      \* The Subscriptions that track the object of each kind.
  subQueue,       \* The work queue.
  subWork,        \* How far the reconciliation of each Subscription is, or None.
  outcome,        \* The condition ReferencesResolved of each, with its reason.
  trackChanges,   \* How often a channel changed.
  informerFaults  \* How many informers did not start.

objectVars == <<chan, backing, entry>>
informerVars == <<caches, behind, notifying, concrete, registered>>
trackBounds == <<trackChanges, informerFaults>>
trackedVars == <<objectVars, informerVars, observers, subQueue, subWork, outcome, trackBounds>>

Followers == ViaChannel \cup Directly
ChannelKinds == {"Channel", "imc"}
Informers == ChannelKinds \cup {"typed"}

KindOf(i) == IF i = "typed" THEN "Channel" ELSE i
SpecKind(s) == IF s \in ViaChannel THEN "Channel" ELSE "imc"
Object(k) == IF k = "Channel" THEN chan ELSE backing

(* The typed informer runs from the start, the others once they are needed. *)
TrackedRunning == {"typed"} \cup concrete

ChanStates == {None, "unready", "ready"}

HasSink(d) == d # None /\ d.sink

(* resolved: the dead letter sink is in the channel's status.              *)
Backings == [delivery : DeliverySpecs, resolved : BOOLEAN]
BackingStates == {None} \cup {c \in Backings : c.resolved => HasSink(c.delivery)}

TrackedChannelsInit ==
  /\ chan \in {None, "ready"}
  /\ backing \in {[delivery |-> None, resolved |-> FALSE], None}
  /\ entry = [s \in Followers |-> None]
  /\ caches = [i \in Informers |-> IF i = "typed" THEN chan ELSE None]
  /\ behind = {} /\ notifying = {}
  /\ concrete = {}
  /\ registered = [k \in ChannelKinds |-> 0]
  /\ observers = [k \in ChannelKinds |-> {}]
  /\ subQueue = Followers
  /\ subWork = [s \in Followers |-> None]
  /\ outcome = [s \in Followers |-> "unknown"]
  /\ trackChanges = 0
  /\ informerFaults = 0

-----------------------------------------------------------------------------
(* The channels and the informers.                                         *)

(* The informers of kind k that run are behind.                            *)
Changed(k) == behind' = behind \cup {i \in TrackedRunning : KindOf(i) = k}

ChannelChanges ==
  /\ trackChanges < MaxTrackChanges
  /\ \E c \in ChanStates \ {chan} : chan' = c
  /\ Changed("Channel")
  /\ trackChanges' = trackChanges + 1
  /\ UNCHANGED <<backing, entry, caches, notifying, concrete, registered, observers,
                 subQueue, subWork, outcome, informerFaults>>

(* The backing channel is deleted, with its subscribers, made again, or    *)
(* changes.                                                                *)
BackingChanges ==
  /\ trackChanges < MaxTrackChanges
  /\ \E c \in BackingStates \ {backing} : backing' = c
  /\ entry' = IF backing' = None THEN [s \in Followers |-> None] ELSE entry
  /\ Changed("imc")
  /\ trackChanges' = trackChanges + 1
  /\ UNCHANGED <<chan, caches, notifying, concrete, registered, observers, subQueue,
                 subWork, outcome, informerFaults>>

TrackedObserve(i) ==
  /\ i \in behind
  /\ caches' = [caches EXCEPT ![i] = Object(KindOf(i))]
  /\ behind' = behind \ {i}
  /\ notifying' = notifying \cup {i}
  /\ UNCHANGED <<objectVars, concrete, registered, observers, subQueue, subWork, outcome,
                 trackBounds>>

(* Mutant: the typed informer has no handler.                              *)
ToldByDynamicOnly(i) == IF i = "typed" THEN {} ELSE observers[KindOf(i)]

(* tracker.OnChanged: the Subscriptions that are queued.                   *)
Told(i) == observers[KindOf(i)]

OnChanged(i) ==
  /\ i \in notifying
  /\ notifying' = notifying \ {i}
  /\ subQueue' = subQueue \cup Told(i)
  /\ UNCHANGED <<objectVars, caches, behind, concrete, registered, observers, subWork, outcome,
                 trackBounds>>

-----------------------------------------------------------------------------
(* The reconciler.                                                         *)

At(s, pc) == subWork[s] # None /\ subWork[s].pc = pc

(* tracker.TrackReference, after which the lister is asked.                *)
TrackReference(s, k) ==
  /\ subWork' = [subWork EXCEPT ![s] = [pc |-> "get", kind |-> k]]
  /\ observers' = [observers EXCEPT ![k] = @ \cup {s}]

(* TrackKReference begins with ensureTracking: is there an informer?       *)
TrackKReference(s, k) ==
  IF k \in concrete THEN TrackReference(s, k)
  ELSE /\ subWork' = [subWork EXCEPT ![s] = [pc |-> "lock", kind |-> k]]
       /\ UNCHANGED observers

Take(s) ==
  /\ s \in subQueue /\ subWork[s] = None
  /\ subQueue' = subQueue \ {s}
  /\ TrackKReference(s, SpecKind(s))
  /\ UNCHANGED <<objectVars, informerVars, outcome, trackBounds>>

(* The end of a reconciliation.  No error is returned, whatever happened:  *)
(* it is a change of the status that queues the Subscription.              *)
Finish(s, result) ==
  /\ subWork' = [subWork EXCEPT ![s] = None]
  /\ outcome' = [outcome EXCEPT ![s] = result]
  /\ subQueue' = IF outcome[s] = result THEN subQueue ELSE subQueue \cup {s}

(* Mutant: another worker may have been faster, but nobody looks.          *)
AddHandlerAlways(k) == TRUE

(* With the write lock: make sure that no one has added the handler.       *)
AddHandler(k) == k \notin concrete

(* informerFactory.Get returns when the cache is filled.                   *)
StartInformer(s) ==
  LET k == subWork[s].kind IN
  /\ At(s, "lock")
  /\ TrackReference(s, k)
  /\ IF AddHandler(k)
     THEN /\ concrete' = concrete \cup {k}
          /\ registered' = [registered EXCEPT ![k] = @ + 1]
          /\ caches' = [caches EXCEPT ![k] = Object(k)]
          /\ behind' = behind \ {k}
          /\ notifying' = notifying \cup {k}
     ELSE UNCHANGED informerVars
  /\ UNCHANGED <<objectVars, subQueue, outcome, trackBounds>>

StartInformerFails(s) ==
  /\ At(s, "lock") /\ AddHandler(subWork[s].kind)
  /\ informerFaults < MaxInformerFaults
  /\ informerFaults' = informerFaults + 1
  /\ Finish(s, "untracked")
  /\ UNCHANGED <<objectVars, informerVars, observers, trackChanges>>

(* The sink: that of the Subscription, else the one in the channel's       *)
(* status; "missing" if the channel names a sink and does not have it yet. *)
resolveDeadLetterSink(s, c) ==
  IF HasSink(OwnDelivery[s]) THEN "subscription"
  ELSE IF ~ HasSink(c.delivery) THEN None
  ELSE IF c.resolved THEN "channel" ELSE "missing"

deliverySpec(s, c) ==
  [sink |-> resolveDeadLetterSink(s, c),
   retry |-> IF OwnDelivery[s] = None /\ c.delivery # None
             THEN IF c.delivery.retry THEN "channel" ELSE None
             ELSE IF OwnDelivery[s] # None /\ OwnDelivery[s].retry THEN "subscription" ELSE None]

(* What the lister of kind k has.                                          *)
ListerFor(k) == caches[k]

(* The Channel in the cache of its dynamic informer: it only tells that    *)
(* there is one.                                                           *)
trackAndFetchChannel(s) ==
  /\ At(s, "get") /\ subWork[s].kind = "Channel"
  /\ IF ListerFor("Channel") = None THEN Finish(s, "not found")
     ELSE subWork' = [subWork EXCEPT ![s].pc = "typed"] /\ UNCHANGED <<subQueue, outcome>>
  /\ UNCHANGED <<objectVars, informerVars, observers, trackBounds>>

(* The Channel itself comes from the typed lister, and tells of the        *)
(* backing channel when it is ready.                                       *)
getChannel(s) ==
  /\ At(s, "typed")
  /\ IF caches["typed"] = "ready"
     THEN TrackKReference(s, "imc") /\ UNCHANGED <<subQueue, outcome>>
     ELSE /\ Finish(s, IF caches["typed"] = None THEN "not found" ELSE "not ready")
          /\ UNCHANGED observers
  /\ UNCHANGED <<objectVars, informerVars, trackBounds>>

(* The backing channel from its lister, and resolveSubscriptionURIs and    *)
(* syncChannel with it.  The patch fails if the channel is gone.           *)
syncChannel(s) ==
  LET c == ListerFor("imc")
      failure == IF c = None THEN "not found"
                 ELSE IF resolveDeadLetterSink(s, c) = "missing" THEN "no sink"
                 ELSE IF backing = None THEN "not added" ELSE None
  IN /\ At(s, "get") /\ subWork[s].kind = "imc"
     /\ IF failure # None THEN Finish(s, failure) /\ UNCHANGED entry
        ELSE Finish(s, "resolved") /\ entry' = [entry EXCEPT ![s] = deliverySpec(s, c)]
     /\ UNCHANGED <<chan, backing, informerVars, observers, trackBounds>>

TrackedQuiet ==
  /\ subQueue = {} /\ behind = {} /\ notifying = {}
  /\ \A s \in Followers : subWork[s] = None

TrackedIdle == TrackedQuiet /\ UNCHANGED trackedVars

TrackedChannelsNext ==
  \/ ChannelChanges \/ BackingChanges
  \/ \E i \in Informers : TrackedObserve(i) \/ OnChanged(i)
  \/ \E s \in Followers :
       \/ Take(s) \/ StartInformer(s) \/ StartInformerFails(s)
       \/ trackAndFetchChannel(s) \/ getChannel(s) \/ syncChannel(s)
  \/ TrackedIdle

TrackedChannelsSpec == TrackedChannelsInit /\ [][TrackedChannelsNext]_trackedVars

-----------------------------------------------------------------------------
(* What the backing channel should say of s.                               *)
Wanted(s) ==
  LET own == OwnDelivery[s]
      theirs == backing.delivery
  IN [sink |-> IF HasSink(own) THEN "subscription" ELSE IF HasSink(theirs) THEN "channel" ELSE None,
      retry |-> IF own # None THEN (IF own.retry THEN "subscription" ELSE None)
                ELSE IF theirs # None /\ theirs.retry THEN "channel" ELSE None]

Resolvable(s) ==
  /\ s \in ViaChannel => chan = "ready"
  /\ backing # None
  /\ ~ HasSink(OwnDelivery[s]) /\ HasSink(backing.delivery) => backing.resolved

(* When everything has settled, a Subscription is resolved if and only if  *)
(* the channels it depends on are there and ready, and the backing channel *)
(* lists it with the delivery that follows from both as they are now:      *)
(* trackAndFetchChannel tracks "before checking the existence of the       *)
(* `channel`", and the handler of the typed informer closes the race of    *)
(* the two caches that getChannel tells of.  One informer that fails to    *)
(* start is made up for, as the change of the status queues the            *)
(* Subscription; nothing would after a second failure in the same words.   *)
SubscriptionsFollow ==
  TrackedQuiet =>
    \A s \in Followers :
      IF Resolvable(s) THEN outcome[s] = "resolved" /\ entry[s] = Wanted(s)
      ELSE outcome[s] # "resolved"

(* A kind has an informer with one handler if and only if the tracker      *)
(* knows of it, however many workers came upon the kind at once: "we don't *)
(* need or want to make a second one" (ensureTracking).                    *)
OneInformerEach ==
  \A k \in ChannelKinds : registered[k] = IF k \in concrete THEN 1 ELSE 0

===============================================================================
