----------------------------- MODULE ChannelSystem -----------------------------
(***************************************************************************)
(* Subscriptions to an in-memory channel: users, the reconciler of         *)
(* subscriptions, the channel's controller and its dispatcher, which meet  *)
(* in the channel only.                                                    *)
(***************************************************************************)
EXTENDS SubscriptionReconciler

-----------------------------------------------------------------------------
(***************************************************************************)
(* The reconciler in the dispatcher of in-memory channels                  *)
(* (pkg/reconciler/inmemorychannel/dispatcher), which gives the fanout     *)
(* handlers of a channel their subscriptions and reports the subscribers   *)
(* as ready, and the controller's writes of the channel's status           *)
(* (pkg/reconciler/inmemorychannel/controller), which carry the list of    *)
(* subscribers along.                                                      *)
(***************************************************************************)

VARIABLES
  imc,            \* the channel as the dispatcher's lister has it
  imcQueued,      \* the channel's key is in the dispatcher's work queue
  subscriptions   \* the subscriptions of the channel's handlers, or None

dispatcherVars == <<imc, imcQueued, subscriptions>>

DispatcherTypeOK ==
  /\ imc \in Channel
  /\ imcQueued \in BOOLEAN
  /\ subscriptions # None => subscriptions \in Seq(Subscriber)

DispatcherInit ==
  /\ imc = channel
  /\ imcQueued = TRUE
  /\ subscriptions = None

-----------------------------------------------------------------------------

ObserveIMC ==
  /\ Hear("dispatcher")
  /\ imc' = channel
  /\ imcQueued' = TRUE
  /\ UNCHANGED <<channel, faults, subscriptions>>

\* Mutant: handlers that are there are left as they are.
reconcileOnce ==
  subscriptions' = IF imc.ready /\ subscriptions = None THEN imc.spec ELSE subscriptions

\* reconcile: the handlers of a channel that is ready are made or updated.
reconcile == subscriptions' = IF imc.ready THEN imc.spec ELSE subscriptions

\* patchSubscriberStatus: everyone in the spec is reported as ready.
patchSubscriberStatus ==
  \/ imc.status = imc.spec /\ UNCHANGED channelVars
  \/ /\ imc.status # imc.spec /\ JSONPatchApplies(imc.status, imc.spec, channel.status)
     /\ WriteChannel([channel EXCEPT !.status = JSONPatch(imc.status, imc.spec, @)])

ReconcileIMC ==
  /\ imcQueued
  /\ imcQueued' = FALSE
  /\ reconcile
  /\ patchSubscriberStatus
  /\ UNCHANGED <<faults, imc>>

\* A patch that fails or does not apply is an error, and the key stays queued.
ReconcileIMCFails ==
  /\ imcQueued /\ imc.status # imc.spec
  /\ reconcile
  /\ \/ Fault("patch")
     \/ ~ JSONPatchApplies(imc.status, imc.spec, channel.status) /\ UNCHANGED faults
  /\ UNCHANGED <<channelVars, imc, imcQueued>>

\* A new dispatcher has no handlers.
RestartDispatcher ==
  /\ Fault("dispatcher")
  /\ imc' = channel
  /\ news' = news \ {"dispatcher"}
  /\ imcQueued' = TRUE
  /\ subscriptions' = None
  /\ UNCHANGED <<channel>>

-----------------------------------------------------------------------------

\* The controller has read the channel when it was new, and writes its status as
\* a whole, after a conflict too: ready, and with no subscribers.
ControllerWrites ==
  /\ ~ channel.ready
  /\ WriteChannel([channel EXCEPT !.status = <<>>, !.ready = TRUE])
  /\ UNCHANGED <<faults, imc, imcQueued, subscriptions>>

-----------------------------------------------------------------------------
(***************************************************************************)
(* All of them together.                                                   *)
(***************************************************************************)

vars == <<channelVars, faults, subscriptionVars, dispatcherVars>>

TypeOK ==
  /\ channel \in Channel
  /\ news \subseteq Informers
  /\ faults \in 0..MaxFaults
  /\ SubscriptionTypeOK
  /\ DispatcherTypeOK

Init ==
  /\ channel = [spec |-> <<>>, status |-> <<>>, ready |-> FALSE]
  /\ news = {}
  /\ faults = 0
  /\ SubscriptionInit
  /\ DispatcherInit

UserStep(s) == (Create(s) \/ UpdateSpec(s) \/ Delete(s)) /\ UNCHANGED dispatcherVars

Reconcile(s) == (Forget(s) \/ ReconcileKind(s) \/ FinalizeKind(s)) /\ UNCHANGED dispatcherVars

ReconcileFails(s) ==
  (SyncFails(s) \/ ResolveFails(s) \/ FinalizeFails(s)) /\ UNCHANGED dispatcherVars

SubscriptionInformer == ObserveChannel /\ UNCHANGED dispatcherVars

Restart ==
  \/ RestartController /\ UNCHANGED dispatcherVars
  \/ RestartDispatcher /\ UNCHANGED subscriptionVars

DispatcherStep ==
  (ObserveIMC \/ ReconcileIMC \/ ReconcileIMCFails) /\ UNCHANGED subscriptionVars

ControllerStep == ControllerWrites /\ UNCHANGED subscriptionVars

Next ==
  \/ \E s \in Subs : UserStep(s) \/ Reconcile(s) \/ ReconcileFails(s)
  \/ SubscriptionInformer
  \/ Restart
  \/ DispatcherStep
  \/ ControllerStep

Spec == Init /\ [][Next]_vars

\* Work queues and informers do not starve a key; nothing forces users or faults.
FairSpec ==
  /\ Spec
  /\ \A s \in Subs : WF_vars(Reconcile(s))
  /\ WF_vars(SubscriptionInformer)
  /\ WF_vars(ObserveIMC /\ UNCHANGED subscriptionVars)
  /\ WF_vars(ReconcileIMC /\ UNCHANGED subscriptionVars)
  /\ WF_vars(ControllerStep)

-----------------------------------------------------------------------------
(***************************************************************************)
(* Properties.                                                             *)
(***************************************************************************)

\* No subscription is twice among the channel's subscribers, however old the
\* lists that the merge patches are made from (updateChannelAddSubscriptionSpec),
\* so that the fanout handlers send an event once to each.
SpecIsSet ==
  \A i, j \in DOMAIN channel.spec : channel.spec[i].uid = channel.spec[j].uid => i = j

\* A subscription that exists has its finalizer before it is on the channel's
\* list, so that no deletion passes FinalizeKind by.
FinalizerComesFirst ==
  \A s \in Subs : Has(channel.spec, s) /\ Exists(s) => sub[s].finalizer

\* The reconciler, or the dispatcher, has nothing to do and has seen the channel as
\* it is.
Quiet == queued = {} /\ "reconciler" \notin news
DispatcherQuiet == ~ imcQueued /\ "dispatcher" \notin news

\* What each of the two says is so once it is quiet.  The conditions of a live
\* subscription: it is on the channel's list at its generation if it is marked as
\* added, and the channel reports that generation if it is marked as ready too.
\* The dispatcher: the handlers of a ready channel have its subscribers, and its
\* status reports them and no others, whatever became of the JSON patches made
\* from old lists and of the status that the controller wrote over them.
QuietIsTrue ==
  /\ Quiet => \A s \in Subs : Live(s) /\ sub[s].added = "True" =>
       /\ \E i \in DOMAIN channel.spec : channel.spec[i] = [uid |-> s, gen |-> sub[s].gen]
       /\ sub[s].ready = "True" =>
            \E i \in DOMAIN channel.status : channel.status[i] = [uid |-> s, gen |-> sub[s].gen]
  /\ DispatcherQuiet /\ channel.ready =>
       subscriptions = channel.spec /\ channel.status = channel.spec

Served(s) ==
  /\ sub[s].ready = "True" /\ sub[s].observed = sub[s].gen
  /\ subscriptions # None
  /\ \E i \in DOMAIN subscriptions : subscriptions[i] = [uid |-> s, gen |-> sub[s].gen]

\* A subscription that is not deleted is ready in the end, and the handlers of the
\* channel serve its last generation and no one who is not on the list, also when
\* patches made from old lists undo one another, the two writers of the channel's
\* status overwrite one another, or one write fails or one process restarts.
EventuallyServed ==
  <>[](subscriptions = channel.spec /\ \A s \in Subs : Live(s) => Served(s))

\* "Remove the Subscription from the Channel's subscribers list only if it was
\* actually added in the first place" (FinalizeKind): one that was added and is
\* gone is not on the list once everything is quiet.
GoneIsRemoved ==
  Quiet => \A s \in Subs : sub[s].phase = "gone" => ~ Has(channel.spec, s)

=============================================================================
