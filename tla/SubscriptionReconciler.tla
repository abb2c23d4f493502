------------------------ MODULE SubscriptionReconciler ------------------------
(***************************************************************************)
(* The reconciler of subscriptions (pkg/reconciler/subscription), with the *)
(* part of the generated reconciler that sets and clears finalizers and    *)
(* writes the status.  The channel is read from a lister that is behind    *)
(* the API server by any time; a slow worker is one whose lister is old.   *)
(***************************************************************************)
EXTENDS ChannelState

VARIABLES
  sub,      \* sub[s]: the subscription in the API server
  lister,   \* the channel as the reconciler's lister has it
  queued,   \* keys in the work queue
  tracked   \* subscriptions that are queued when the channel changes

subscriptionVars == <<sub, lister, queued, tracked>>

\* added and ready: the conditions AddedToChannel and ChannelReady.
Subscription ==
  [phase : {"new", "live", "deleting", "gone"}, finalizer : BOOLEAN,
   gen : Gens, observed : 0..MaxGen,
   added : {"Unknown", "True", "False"}, ready : {"Unknown", "True"}]

NewSubscription ==
  [phase |-> "new", finalizer |-> FALSE, gen |-> 1, observed |-> 0,
   added |-> "Unknown", ready |-> "Unknown"]

\* What is left of a subscription that is gone.
GoneSubscription == [NewSubscription EXCEPT !.phase = "gone"]

Exists(s) == sub[s].phase \in {"live", "deleting"}
Live(s) == sub[s].phase = "live"

SubscriptionTypeOK ==
  /\ sub \in [Subs -> Subscription]
  /\ lister \in Channel
  /\ queued \subseteq Subs /\ tracked \subseteq Subs

SubscriptionInit ==
  /\ sub = [s \in Subs |-> NewSubscription]
  /\ lister = channel
  /\ queued = {} /\ tracked = {}

-----------------------------------------------------------------------------
(***************************************************************************)
(* Users.                                                                  *)
(***************************************************************************)

Create(s) ==
  /\ sub[s].phase = "new"
  /\ sub' = [sub EXCEPT ![s].phase = "live"]
  /\ queued' = queued \union {s}
  /\ UNCHANGED <<channelVars, faults, lister, tracked>>

UpdateSpec(s) ==
  /\ Live(s) /\ s \in Updated /\ sub[s].gen < MaxGen
  /\ sub' = [sub EXCEPT ![s].gen = @ + 1]
  /\ queued' = queued \union {s}
  /\ UNCHANGED <<channelVars, faults, lister, tracked>>

\* Without a finalizer the subscription is gone at once.
Delete(s) ==
  /\ Live(s) /\ s \in Deleted
  /\ sub' = [sub EXCEPT ![s] = IF @.finalizer THEN [@ EXCEPT !.phase = "deleting"]
                                 ELSE GoneSubscription]
  /\ queued' = queued \union {s}
  /\ UNCHANGED <<channelVars, faults, lister, tracked>>

-----------------------------------------------------------------------------
(***************************************************************************)
(* The reconciler.                                                         *)
(***************************************************************************)

\* A worker takes s from the queue and finds the subscription in phase ph.
Take(s, ph) == s \in queued /\ sub[s].phase = ph

\* The subscription is not there any more.
Forget(s) ==
  /\ Take(s, "gone")
  /\ queued' = queued \ {s}
  /\ UNCHANGED <<channelVars, faults, sub, lister, tracked>>

\* Mutant: an entry of another generation is not recognised.
addNewGeneration(list, s, g) ==
  IF \E i \in DOMAIN list : list[i] = [uid |-> s, gen |-> g] THEN list
  ELSE Append(list, [uid |-> s, gen |-> g])

\* The list with s in it, updated where it is or added at the end.
updateChannelAddSubscriptionSpec(list, s, g) ==
  IF Has(list, s)
  THEN [i \in DOMAIN list |-> IF list[i].uid = s THEN [uid |-> s, gen |-> g] ELSE list[i]]
  ELSE Append(list, [uid |-> s, gen |-> g])

\* The list without the first entry of s.
updateChannelRemoveSubscription(list, s) ==
  LET k == Min({i \in DOMAIN list : list[i].uid = s})
  IN IF Has(list, s) THEN SubSeq(list, 1, k - 1) \o SubSeq(list, k + 1, Len(list)) ELSE list

\* Mutant: a status of any generation will do.
getAnySubStatus(c, s, g) == Has(c.status, s)

\* getSubStatus: the channel tells of this generation of s.
getSubStatus(c, s, g) == \E i \in DOMAIN c.status : c.status[i] = [uid |-> s, gen |-> g]

\* The finalizer is added to a subscription that is not being deleted and has none.
setFinalizerIfFinalizer(o) == IF o.phase = "live" THEN [o EXCEPT !.finalizer = TRUE] ELSE o

\* Mutant: the finalizer is not set.
updateStatusOnly(s, written) ==
  /\ sub' = [sub EXCEPT ![s] = written]
  /\ queued' = IF written = sub[s] THEN queued \ {s} ELSE queued

\* The status is written unless it has not changed.  A write comes back through
\* the informer and queues s.
updateStatus(s, written) ==
  /\ sub' = [sub EXCEPT ![s] = setFinalizerIfFinalizer(written)]
  /\ queued' = IF written = sub[s] THEN queued \ {s} ELSE queued

\* The write of the status fails, and s is tried again.
updateStatusFails(s) ==
  /\ Fault("status")
  /\ sub' = [sub EXCEPT ![s] = setFinalizerIfFinalizer(@)]
  /\ UNCHANGED queued

\* The merge patch replaces spec.subscribers by the list made from the lister's;
\* there is none if the list is the same.
patchSubscription(list) ==
  IF list = lister.spec THEN UNCHANGED channelVars
  ELSE WriteChannel([channel EXCEPT !.spec = list])

\* ReconcileKind of a subscription whose destinations are resolved.  Only if
\* nothing is patched does it look at the channel's status.
ReconcileKind(s) ==
  LET list == updateChannelAddSubscriptionSpec(lister.spec, s, sub[s].gen)
      ready == IF list # lister.spec THEN sub[s].ready
               ELSE IF getSubStatus(lister, s, sub[s].gen) THEN "True" ELSE "Unknown"
      written == [sub[s] EXCEPT !.added = "True", !.ready = ready, !.observed = sub[s].gen]
  IN /\ Take(s, "live")
     /\ tracked' = tracked \union {s}
     /\ patchSubscription(list)
     /\ \/ updateStatus(s, written) /\ UNCHANGED faults
        \/ written # sub[s] /\ updateStatusFails(s)
     /\ UNCHANGED lister

\* The patch of ReconcileKind fails.  The event that tells of it is no error, so
\* that s is not queued again but for its status.
SyncFails(s) ==
  /\ Take(s, "live") /\ Fault("patch")
  /\ updateChannelAddSubscriptionSpec(lister.spec, s, sub[s].gen) # lister.spec
  /\ updateStatus(s, [sub[s] EXCEPT !.added = "False", !.observed = sub[s].gen])
  /\ tracked' = tracked \union {s}
  /\ UNCHANGED <<channelVars, lister>>

\* A destination cannot be resolved; it is tracked, and s queued when it changes.
ResolveFails(s) ==
  /\ Take(s, "live") /\ Fault("resolve")
  /\ tracked' = tracked \union {s}
  /\ sub' = [sub EXCEPT ![s] = setFinalizerIfFinalizer([@ EXCEPT !.observed = sub[s].gen])]
  /\ UNCHANGED <<channelVars, queued, lister>>

\* The finalizer is taken off, and the subscription gone; or the patch that does
\* so fails, and s is tried again.
clearFinalizer(s) ==
  \/ /\ sub' = [sub EXCEPT ![s] = GoneSubscription]
     /\ tracked' = tracked \ {s}
     /\ queued' = queued \ {s}
     /\ UNCHANGED faults
  \/ /\ Fault("finalizer")
     /\ UNCHANGED <<sub, tracked, queued>>

FinalizeKind(s) ==
  /\ Take(s, "deleting")
  /\ IF sub[s].added = "True"
     THEN patchSubscription(updateChannelRemoveSubscription(lister.spec, s))
     ELSE UNCHANGED channelVars
  /\ clearFinalizer(s)
  /\ UNCHANGED lister

\* The patch of FinalizeKind fails.
FinalizeFails(s) ==
  /\ Take(s, "deleting") /\ Fault("patch")
  /\ sub[s].added = "True" /\ Has(lister.spec, s)
  /\ updateStatus(s, [sub[s] EXCEPT !.added = "False"])
  /\ UNCHANGED <<channelVars, lister, tracked>>

\* The lister sees the channel, and the tracker queues its subscriptions.
ObserveChannel ==
  /\ Hear("reconciler")
  /\ lister' = channel
  /\ queued' = queued \union tracked
  /\ UNCHANGED <<channel, faults, sub, tracked>>

\* A new controller lists everything and has tracked nothing.
RestartController ==
  /\ Fault("restart")
  /\ lister' = channel
  /\ news' = news \ {"reconciler"}
  /\ queued' = {s \in Subs : Exists(s)}
  /\ tracked' = {}
  /\ UNCHANGED <<channel, sub>>

=============================================================================
