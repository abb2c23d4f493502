--------------------------- MODULE SchedulerSystem ---------------------------
(***************************************************************************)
(* The scheduler and the autoscaler of one controller process, on a        *)
(* cluster that changes under them.  Disturbances names the kinds of       *)
(* change a configuration considers:                                       *)
(*   vpods     vpods come, go and change size                              *)
(*   evict     pods are annotated as unschedulable                         *)
(*   leader    leadership is lost and won, another instance scales         *)
(*   restart   the process restarts                                        *)
(*   failure   API calls fail                                              *)
(* Entries of the scale cache expire, if that is considered, at any time:  *)
(*   expiry    the entry of the scale cache expires                        *)
(***************************************************************************)
EXTENDS StatefulSetScheduler, Autoscaler, TLC

CONSTANTS
  Disturbances,
  MaxDisturbed   \* bound on the number of disturbances

ASSUME DisturbanceAssumption == MaxDisturbed \in Nat

VARIABLE disturbed  \* disturbances so far

vars == <<clusterVars, schedulerVars, autoscalerVars, disturbed>>

Disturb(kind) ==
  /\ kind \in Disturbances
  /\ disturbed < MaxDisturbed
  /\ disturbed' = disturbed + 1

TypeOK ==
  /\ ClusterTypeOK
  /\ SchedulerTypeOK
  /\ AutoscalerTypeOK
  /\ disturbed \in 0..MaxDisturbed

\* The process has just been elected, as the only one; some vpods exist.
Init ==
  /\ vreplicas \in [VPods -> {MaxVReplicas, Absent}]
  /\ "vpods" \in Disturbances \/ Listed = VPods
  /\ placements = [v \in VPods |-> NoPlacement]
  /\ replicas \in {MinReplicas, MaxPods}
  /\ pods = [o \in Ordinals |-> IF o < replicas THEN "ready" ELSE "absent"]
  /\ scaleEntry = Absent /\ scaleCall = NoCalls
  /\ scales = {replicas}
  /\ SchedulerInit
  /\ AutoscalerInit
  /\ disturbed = 0

-----------------------------------------------------------------------------

\* Schedule, with the trigger of the autoscaler if vreplicas are left.
ScheduleVPod(v) ==
  /\ \/ /\ ScheduleWaits(v)
        /\ UNCHANGED trigger
     \/ /\ GetScale("scheduler") >= 0
        /\ \E m \in Asked(v) : \E r \in scheduleVPod(v, m, GetScale("scheduler")) :
             /\ Schedule(v, r)
             /\ trigger' = (trigger \/ r.left > 0)
  /\ UNCHANGED <<phase, attemptScaleDown, seen, version, retrying, autoLeader, promotion, otherRound,
                 disturbed>>

CommitVPod ==
  /\ \E v \in VPods : Commit(v)
  /\ UNCHANGED <<autoscalerVars, disturbed>>

ResyncReserved ==
  /\ ResyncList \/ ResyncDelete
  /\ UNCHANGED <<autoscalerVars, disturbed>>

AutoscalerStep ==
  /\ \/ \E down \in BOOLEAN : Wake(down)
     \/ ReadState
     \/ DecideScale
     \/ UpdateScale
     \/ UpdateReturns
     \/ CompactEnds
     \/ \E v \in VPods, o \in Ordinals : Evict(v, o)
  /\ UNCHANGED <<schedulerVars, disturbed>>

RetryAutoscale ==
  /\ Retry
  /\ UNCHANGED <<schedulerVars, disturbed>>

\* The informers and the kubelets catch up.
ClusterStep ==
  /\ \/ updateStatefulset
     \/ /\ \E o \in Ordinals : PodProgress(o)
        /\ UNCHANGED schedulerVars
  /\ UNCHANGED <<autoscalerVars, disturbed>>

EntryIsOld ==
  /\ "expiry" \in Disturbances
  /\ EntryExpires
  /\ UNCHANGED <<schedulerVars, autoscalerVars, disturbed>>

\* Promote: the autoscaler's flag, its cache, and the scheduler at last.
Promote ==
  /\ \/ /\ AutoscalerPromote
        /\ UNCHANGED schedulerVars
     \/ /\ ResetCache
        /\ UNCHANGED schedulerVars
     \/ /\ promotion = "scheduler"
        /\ promotion' = "none"
        /\ SchedulerPromote
        /\ UNCHANGED <<clusterVars, phase, attemptScaleDown, seen, version, trigger, retrying,
                       autoLeader, otherRound>>
  /\ UNCHANGED disturbed

Demote ==
  /\ Disturb("leader")
  /\ AutoscalerDemote
  /\ schedLeader' = FALSE
  /\ UNCHANGED <<schedReplicas, reserved, offered, scheduling, resyncList>>

OtherLeader ==
  /\ \/ /\ Disturb("leader")
        /\ OtherRoundBegins
     \/ /\ OtherRoundScales
        /\ UNCHANGED disturbed
  /\ UNCHANGED schedulerVars

VPodChanges ==
  /\ Disturb("vpods")
  /\ \/ /\ \E v \in VPods, n \in MinVReplicas..MaxVReplicas : SetVReplicas(v, n)
        /\ UNCHANGED offered
     \/ \E v \in VPods :
          /\ DeleteVPod(v)
          /\ offered' = [offered EXCEPT ![v] = NoOffer]
  /\ UNCHANGED <<schedReplicas, reserved, scheduling, schedLeader, resyncList, autoscalerVars>>

PodIsMarked ==
  /\ Disturb("evict")
  /\ \E o \in Ordinals : MarkUnschedulable(o)
  /\ UNCHANGED <<schedulerVars, autoscalerVars>>

ScheduleError ==
  /\ Disturb("failure")
  /\ \E v \in VPods : ScheduleFails(v)
  /\ UNCHANGED autoscalerVars

AutoscalerError ==
  /\ Disturb("failure")
  /\ CallFails \/ \E v \in VPods, o \in Ordinals : EvictFails(v, o)
  /\ UNCHANGED schedulerVars

Restart ==
  /\ Disturb("restart")
  /\ SchedulerRestart
  /\ phase' = "waiting" /\ attemptScaleDown' = FALSE /\ seen' = NothingSeen /\ version' = "none"
  /\ trigger' = FALSE /\ retrying' = FALSE
  /\ autoLeader' = FALSE /\ promotion' = "none"
  /\ scaleEntry' = Absent /\ scaleCall' = NoCalls
  /\ scales' = {replicas}
  /\ UNCHANGED <<vreplicas, placements, pods, replicas, otherRound>>

Next ==
  \/ \E v \in VPods : ScheduleVPod(v)
  \/ CommitVPod
  \/ ResyncReserved
  \/ AutoscalerStep
  \/ RetryAutoscale
  \/ Promote
  \/ Demote
  \/ OtherLeader
  \/ ClusterStep
  \/ EntryIsOld
  \/ VPodChanges
  \/ PodIsMarked
  \/ ScheduleError
  \/ AutoscalerError
  \/ Restart

Spec == Init /\ [][Next]_vars

(***************************************************************************)
(* Fairness: a vpod that is not placed is requeued, a call of Schedule     *)
(* ends, and the status of the vpod is updated; the autoscaler's loop runs *)
(* (its timer fires when no trigger comes), informers and kubelets catch   *)
(* up, entries of the cache expire, and the elected instance is told.      *)
(***************************************************************************)
MustSchedule(v) == GetTotalVReplicas(placements[v]) < vreplicas[v] \/ scheduling # {}

Fairness ==
  /\ \A v \in VPods : WF_vars(MustSchedule(v) /\ ScheduleVPod(v))
  /\ WF_vars(CommitVPod)
  /\ WF_vars(AutoscalerStep)
  /\ WF_vars(ClusterStep)
  /\ WF_vars(EntryIsOld)
  /\ WF_vars(Promote)

FairSpec == Spec /\ Fairness

-----------------------------------------------------------------------------
(***************************************************************************)
(* Properties.                                                             *)
(***************************************************************************)

\* The reservations never exceed a pod's capacity, whatever the callers, the
\* listers and the leader election do between the calls of Schedule.
ReservedFits == \A o \in Ordinals : SumByPod(reserved)[o] <= Capacity

\* "Only scale down if permitted": a round that was triggered because vreplicas
\* wait for pods may take pods away only where the scale it got was replaced in the
\* meantime, and never leaves fewer than there have been since Promote emptied the
\* cache, unless Promote did so in the middle of the round.
OnlyScaleDownIfPermitted ==
  [][replicas' < replicas /\ AutoscalerStep /\ ~ attemptScaleDown /\ ~ seen.early
       => \E n \in scales : n < replicas']_vars

\* "reset the cache to be empty so that when we access state as the leader it is
\* always the newest values": what the cache has is a scale there was after Promote
\* emptied it, whichever calls were in progress then.  (The newest it need not be: a
\* call of Schedule may store what it read before the autoscaler's last update, and
\* another instance may end a round that it began as the leader.)
EntryIsSincePromotion == scaleEntry \in scales \union {Absent}

\* A call of Schedule moves nothing: it takes vreplicas off a schedulable pod
\* only when there are too many of them, and then adds none elsewhere.
NoNeedlessMove(v) ==
  ~ /\ \E o \in SchedulablePods(GetScale("scheduler")) : reserved'[v][o] < reserved[v][o]
    /\ \E o \in Ordinals : reserved'[v][o] > reserved[v][o]

\* Vreplicas are added to ready pods within the scale only, while s.replicas is
\* up to date: a pod marked for eviction "CANNOT SCHEDULE VREPS".
AddedToSchedulable(v) ==
  schedReplicas = GetScale("scheduler") =>
    \A o \in Ordinals : reserved'[v][o] > reserved[v][o] => o < schedReplicas /\ pods[o] = "ready"

\* What a call of Schedule may do to the vreplicas that are placed: add some to
\* pods that can run them, or take some away, never move one.
PlacesInOrder ==
  [][\A v \in VPods : reserved'[v] # reserved[v] /\ ScheduleVPod(v) =>
                        NoNeedlessMove(v) /\ AddedToSchedulable(v)]_vars

\* No pod has more committed vreplicas than its capacity: updateFreeCapacity
\* says of it "This should not happen anymore."
CommittedFits == \A o \in Ordinals : SumByPod(placements)[o] <= Capacity

\* Listed vpods get the vreplicas they ask for, and keep them.
EventuallyPlaced ==
  \A v \in VPods : <>[](GetTotalVReplicas(placements[v]) >= vreplicas[v])

\* The statefulset ends up with the replicas its vpods need.
ScaleConverges == <>[](replicas = NeededReplicas(TotalExpectedVReplicas))

\* Scheduler and autoscaler, which work in turns and each with caches of what the
\* other does, come to rest with everything placed on as few pods as are needed.
PlacedAndScaled == EventuallyPlaced /\ ScaleConverges

\* The vpods are interchangeable (for TLC; used for safety only).
Symmetry == Permutations(VPods)

=============================================================================
