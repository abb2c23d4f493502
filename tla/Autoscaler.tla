------------------------------ MODULE Autoscaler ------------------------------
(***************************************************************************)
(* The autoscaler of the statefulset scheduler                             *)
(* (pkg/scheduler/statefulset/autoscaler.go): one goroutine that wakes up  *)
(* every refresh period, or when it is triggered, reads the state, updates *)
(* the scale of the statefulset and evicts vreplicas from pods beyond it.  *)
(* Leadership comes and goes while it runs.                                *)
(***************************************************************************)
EXTENDS SchedulerState

VARIABLES
  phase,             \* where Start's loop is
  attemptScaleDown,  \* its flag: this round was started by the refresh period
  seen,              \* the State read in this round, or the replicas it asks for
  version,           \* whether the resource version of the scale it got is the last one
  trigger,           \* the trigger channel, of capacity one, holds a context
  retrying,          \* a goroutine sleeps before it triggers another round
  autoLeader,        \* a.isLeader
  promotion,         \* how far a call of Promote has got
  otherRound         \* the scale that another instance writes in a round that it began
                     \* as the leader, or Absent

autoscalerVars ==
  <<phase, attemptScaleDown, seen, version, trigger, retrying, autoLeader, promotion, otherRound>>

Phases == {"waiting", "started", "scaling", "updating", "compacting", "panicked"}

\* early: Promote has emptied the cache since the round began (history).
Seen == [total : Nat, scale : 0..MaxPods, freeCap : 0..MaxPods, wanted : 0..MaxPods,
         evict : SUBSET (VPods \X Ordinals), early : BOOLEAN]

NothingSeen == [total |-> 0, scale |-> 0, freeCap |-> 0, wanted |-> 0, evict |-> {}, early |-> FALSE]

AutoscalerTypeOK ==
  /\ phase \in Phases
  /\ attemptScaleDown \in BOOLEAN
  /\ seen \in Seen
  /\ version \in {"none", "current", "old"}
  /\ trigger \in BOOLEAN
  /\ retrying \in BOOLEAN
  /\ autoLeader \in BOOLEAN
  /\ promotion \in {"none", "reset", "scheduler"}
  /\ otherRound \in 0..MaxPods \union {Absent}

AutoscalerInit ==
  /\ phase = "waiting"
  /\ attemptScaleDown = FALSE
  /\ seen = NothingSeen
  /\ version = "none"
  /\ trigger = FALSE
  /\ retrying = FALSE
  /\ autoLeader = FALSE
  /\ promotion = "none"
  /\ otherRound = Absent

-----------------------------------------------------------------------------

\* The replicas it takes to hold total vreplicas.
NeededReplicas(total) == Max({(total + Capacity - 1) \div Capacity, MinReplicas})

\* A round ends, and what it read and its flag are of no use any more; after
\* an error another round is triggered later.
RoundEnds(failed) ==
  /\ phase' = "waiting"
  /\ seen' = NothingSeen
  /\ version' = "none"
  /\ attemptScaleDown' = FALSE
  /\ retrying' = (retrying \/ failed)

-----------------------------------------------------------------------------
(***************************************************************************)
(* The loop.                                                               *)
(***************************************************************************)

\* Start's select: the refresh period is over (down) or a trigger arrives.
\* doautoscale does nothing unless the instance is the leader.
Wake(down) ==
  /\ phase = "waiting"
  /\ down \/ trigger
  /\ trigger' = (trigger /\ down)
  /\ attemptScaleDown' = (down /\ autoLeader)
  /\ phase' = IF autoLeader THEN "started" ELSE "waiting"
  /\ UNCHANGED <<clusterVars, seen, version, retrying, autoLeader, promotion, otherRound>>

\* doautoscale gets the state.  State lists the vpods before it gets the scale,
\* and looks at the pods after that.
Listing == [seen EXCEPT !.total = TotalExpectedVReplicas, !.freeCap = FreeCapLen(PlacedOn)]

StateOf(listing, n) ==
  [listing EXCEPT !.scale = n, !.freeCap = Max({@, FreeCapLen(SchedulablePods(n))})]

ReadState ==
  LET listing == IF scaleCall["autoscaler"] = Absent THEN Listing ELSE seen
  IN /\ phase = "started"
     /\ \/ /\ GetScaleAsks("autoscaler")
           /\ seen' = listing
           /\ UNCHANGED phase
        \/ /\ GetScaleReturns("autoscaler")
           /\ seen' = StateOf(listing, GetScale("autoscaler"))
           /\ phase' = "scaling"
     /\ UNCHANGED <<vreplicas, placements, pods, replicas, scales, attemptScaleDown, trigger,
                    retrying, version, autoLeader, promotion, otherRound>>

\* Some call fails: listing, getting the scale, updating it (possibly after the API
\* server has taken the update, or because the status of the statefulset is not the
\* one that was read), evicting.
CallFails ==
  /\ phase \in {"started", "scaling", "updating", "compacting"}
  /\ RoundEnds(TRUE)
  /\ scaleCall' = [scaleCall EXCEPT !["autoscaler"] = Absent]
  /\ UNCHANGED <<vreplicas, placements, pods, replicas, scaleEntry, scales, trigger, autoLeader,
                 promotion, otherRound>>

\* Mutant: every round may scale down.
WantedReplicasAlwaysDown(current) == NeededReplicas(seen.total)

\* Mutant: no round scales down.
WantedReplicasNeverDown(current) == Max({NeededReplicas(seen.total), current})

\* The replicas this round asks for, given the scale's current spec.
WantedReplicas(current) ==
  IF attemptScaleDown THEN NeededReplicas(seen.total)
  ELSE Max({NeededReplicas(seen.total), current})

\* The placements compact has evicted: those beyond the replicas of the state,
\* if State.FreeCap tells of pods the scale does not have.
Evictable ==
  {x \in Listed \X Ordinals :
     seen.scale # seen.freeCap /\ x[2] >= seen.scale /\ placements[x[1]][x[2]] > 0}

\* doautoscale gets the scale, once more: it updates a scale that has to change;
\* otherwise mayCompact lists what is to be evicted, unless it did so less than a
\* refresh period ago.  The API server's answer has a resource version; an entry
\* of the cache has none.
DecideScale ==
  LET current == GetScale("autoscaler")
      wanted == WantedReplicas(current)
  IN /\ phase = "scaling"
     /\ \/ /\ GetScaleAsks("autoscaler")
           /\ version' = "current"
           /\ UNCHANGED <<phase, attemptScaleDown, seen, retrying>>
        \/ /\ GetScaleReturns("autoscaler") /\ wanted # current
           /\ phase' = "updating"
           /\ seen' = [NothingSeen EXCEPT !.wanted = wanted, !.early = seen.early]
           /\ UNCHANGED <<attemptScaleDown, retrying, version>>
        \/ /\ GetScaleReturns("autoscaler") /\ wanted = current /\ attemptScaleDown
           /\ phase' = "compacting"
           /\ \E pairs \in {{}, Evictable} : seen' = [NothingSeen EXCEPT !.evict = pairs]
           /\ version' = "none"
           /\ UNCHANGED <<attemptScaleDown, retrying>>
        \/ /\ GetScaleReturns("autoscaler") /\ wanted = current /\ ~ attemptScaleDown
           /\ RoundEnds(FALSE)
     /\ UNCHANGED <<vreplicas, placements, pods, replicas, scales, trigger, autoLeader, promotion,
                    otherRound>>

\* The API server takes the update, or refuses it because another instance has
\* updated the scale that was read.
UpdateScale ==
  /\ phase = "updating" /\ scaleCall["autoscaler"] = Absent
  /\ \/ /\ version # "old"
        /\ ScaleIsWritten("autoscaler", seen.wanted)
        /\ UNCHANGED <<phase, attemptScaleDown, seen, retrying, version>>
     \/ /\ version = "old"
        /\ RoundEnds(TRUE)
        /\ UNCHANGED <<replicas, cacheVars, scales>>
  /\ UNCHANGED <<vreplicas, placements, pods, trigger, autoLeader, promotion, otherRound>>

\* UpdateScale stores the new scale and returns.
UpdateReturns ==
  /\ phase = "updating" /\ scaleCall["autoscaler"] # Absent
  /\ GetScaleReturns("autoscaler")
  /\ RoundEnds(FALSE)
  /\ UNCHANGED <<vreplicas, placements, pods, replicas, scales, trigger, autoLeader, promotion,
                 otherRound>>

CompactEnds ==
  /\ phase = "compacting" /\ seen.evict = {}
  /\ RoundEnds(FALSE)
  /\ UNCHANGED <<clusterVars, trigger, autoLeader, promotion, otherRound>>

\* compact has one placement evicted.
Evict(v, o) ==
  /\ phase = "compacting" /\ <<v, o>> \in seen.evict
  /\ seen' = [seen EXCEPT !.evict = @ \ {<<v, o>>}]
  /\ placements' = [placements EXCEPT ![v][o] = 0]
  /\ UNCHANGED <<vreplicas, pods, replicas, cacheVars, scales, phase, attemptScaleDown, version,
                 trigger, retrying, autoLeader, promotion, otherRound>>

\* The evictor fails.  The error message names the pod, which is nil if the
\* lister has none.
EvictFails(v, o) ==
  /\ phase = "compacting" /\ <<v, o>> \in seen.evict
  /\ \/ /\ pods[o] = "absent"
        /\ phase' = "panicked"
        /\ UNCHANGED <<retrying, attemptScaleDown, seen, version>>
     \/ /\ pods[o] # "absent"
        /\ RoundEnds(TRUE)
  /\ UNCHANGED <<clusterVars, trigger, autoLeader, promotion, otherRound>>

\* The sleep after a failed round is over: Autoscale.
Retry ==
  /\ retrying
  /\ retrying' = FALSE
  /\ trigger' = TRUE
  /\ UNCHANGED <<clusterVars, phase, attemptScaleDown, seen, version, autoLeader, promotion, otherRound>>

-----------------------------------------------------------------------------
(***************************************************************************)
(* Leadership.                                                             *)
(***************************************************************************)

\* Promote sets the flag first ...
AutoscalerPromote ==
  /\ promotion = "none" /\ ~ autoLeader
  /\ autoLeader' = TRUE
  /\ promotion' = "reset"
  /\ UNCHANGED <<clusterVars, phase, attemptScaleDown, seen, version, trigger, retrying, otherRound>>

\* The round under way, if any, has begun before the cache was emptied.
RoundIsEarly == seen' = [seen EXCEPT !.early = (phase \notin {"waiting", "panicked"})]

\* Mutant: the cache is kept.
ResetCacheKeeps ==
  /\ promotion = "reset"
  /\ promotion' = "scheduler"
  /\ scales' = {replicas}
  /\ RoundIsEarly
  /\ UNCHANGED <<vreplicas, placements, pods, replicas, cacheVars, phase, attemptScaleDown, version,
                 trigger, retrying, autoLeader, otherRound>>

\* Mutant: the entries are replaced without the lock, under a call that has an answer.
ResetCacheUnlocked ==
  /\ promotion = "reset"
  /\ promotion' = "scheduler"
  /\ scaleEntry' = Absent
  /\ scales' = {replicas}
  /\ RoundIsEarly
  /\ UNCHANGED <<vreplicas, placements, pods, replicas, scaleCall, phase, attemptScaleDown, version,
                 trigger, retrying, autoLeader, otherRound>>

\* ... and empties the cache next.
ResetCache ==
  /\ promotion = "reset"
  /\ promotion' = "scheduler"
  /\ Reset
  /\ RoundIsEarly
  /\ UNCHANGED <<vreplicas, placements, pods, replicas, phase, attemptScaleDown, version, trigger,
                 retrying, autoLeader, otherRound>>

AutoscalerDemote ==
  /\ promotion = "none" /\ autoLeader
  /\ autoLeader' = FALSE
  /\ UNCHANGED <<clusterVars, phase, attemptScaleDown, seen, version, trigger, retrying, promotion,
                 otherRound>>

\* Another instance, which leads, begins a round ...
OtherRoundBegins ==
  /\ promotion = "none" /\ ~ autoLeader /\ otherRound = Absent
  /\ otherRound' = NeededReplicas(TotalExpectedVReplicas)
  /\ UNCHANGED <<clusterVars, phase, attemptScaleDown, seen, version, trigger, retrying, autoLeader,
                 promotion>>

\* ... and scales the statefulset, no matter who leads by then.
OtherRoundScales ==
  /\ otherRound # Absent
  /\ otherRound' = Absent
  /\ replicas' = otherRound
  /\ scales' = scales \union {otherRound}
  /\ version' = IF version = "current" THEN "old" ELSE version
  /\ UNCHANGED <<vreplicas, placements, pods, cacheVars, phase, attemptScaleDown, seen, trigger,
                 retrying, autoLeader, promotion>>

=============================================================================
