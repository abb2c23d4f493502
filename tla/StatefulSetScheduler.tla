-------------------------- MODULE StatefulSetScheduler --------------------------
(***************************************************************************)
(* StatefulSetScheduler (pkg/scheduler/statefulset/scheduler.go): placing  *)
(* vreplicas on pods, with reservations for placements that are not        *)
(* committed to the vpod yet.  Schedule holds both locks from its first to *)
(* its last step; the informer callback, the resync goroutine and the      *)
(* callers' status updates run beside it.                                  *)
(***************************************************************************)
EXTENDS SchedulerState, Sequences

CONSTANT
  AutoscalerIsLeaderAware  \* s.autoscaler implements LeaderAware, as the one of New does

ASSUME LeaderAwareAssumption == AutoscalerIsLeaderAware \in BOOLEAN

VARIABLES
  schedReplicas,  \* s.replicas, kept by the statefulset informer
  reserved,       \* reserved[v][o]: s.reserved, 0 where the map has no entry
  offered,        \* offered[v]: placements Schedule returned and v's status lacks
  scheduling,     \* the call of Schedule that waits for the scale, if there is one:
                  \* its vpod, and the vreplicas that asks for
  schedLeader,    \* s.isLeader
  resyncList      \* the vpods resyncReserved has listed, or Idle

schedulerVars == <<schedReplicas, reserved, offered, scheduling, schedLeader, resyncList>>

Idle == {Absent}
NoOffer == <<>>

SchedulerTypeOK ==
  /\ schedReplicas \in 0..MaxPods
  /\ reserved \in [VPods -> Placements]
  /\ offered \in [VPods -> Placements \union {NoOffer}]
  /\ scheduling \subseteq VPods \X (0..MaxVReplicas) /\ \A x, y \in scheduling : x = y
  /\ schedLeader \in BOOLEAN
  /\ resyncList \in (SUBSET VPods) \union {Idle}

SchedulerInit ==
  /\ schedReplicas = replicas
  /\ reserved = [v \in VPods |-> NoPlacement]
  /\ offered = [v \in VPods |-> NoOffer]
  /\ scheduling = {}
  /\ schedLeader = FALSE
  /\ resyncList = Idle

-----------------------------------------------------------------------------
(***************************************************************************)
(* scheduleVPod.                                                           *)
(***************************************************************************)

\* Mutant: a full pod counts as overcommitted.
OvercommitOffByOne(n, r) == Min({n, Max({0, r + 1 - Capacity})})

\* Vreplicas of a placement of n that do not fit a pod with r reserved.
Overcommit(n, r) == Min({n, Max({0, r - Capacity})})

\* The placements that stay: schedulable pods, less what is overcommitted.
Kept(own, byPod, S) ==
  [o \in Ordinals |-> IF o \in S THEN own[o] - Overcommit(own[o], byPod[o]) ELSE 0]

\* reservedByPodName once overcommitted placements have been cut.
ByPodAfterCut(own, byPod, S) ==
  [o \in Ordinals |-> IF o \in S THEN byPod[o] - Overcommit(own[o], byPod[o]) ELSE byPod[o]]

\* The vreplicas to place: at least one on each of MinReplicas pods, if there
\* are as many.
TargetVReplicas(n, S) ==
  IF MinReplicas > n THEN Max({n, Min({MinReplicas, Cardinality(S)})}) ELSE n

\* removeReplicas: takes diff vreplicas away, highest ordinals first.
removeReplicas(diff, pl) ==
  [o \in Ordinals |->
     LET above == Total(pl, {p \in Ordinals : p > o})
     IN pl[o] - Min({pl[o], Max({0, diff - above})})]

\* The lists of a set, and those in ascending order, of which there is one.
Lists(S) == {s \in [1..Cardinality(S) -> S] : IsInjective(s)}
Ascending(S) == {s \in Lists(S) : \A i, j \in DOMAIN s : i < j => s[i] < s[j]}

\* The slots of a slice that nothing is written to name pod 0.
Unwritten(n) == [i \in 1..n |-> 0]

\* Slices with the pods of A in any order, n slots, the pods of B and those of C.
Slices(A, n, B, C) ==
  {a \o Unwritten(n) \o b \o c : a \in Lists(A), b \in Ascending(B), c \in Ascending(C)}

\* candidatesOrdered: pods with reservations only (in the map's order), then
\* the others up to s.replicas, then those with a placement, in a slice with
\* one slot per schedulable pod.
candidatesOrdered(own, pl, S) ==
  LET placed == {o \in S : pl[o] > 0}
      onlyReserved == {o \in S \ placed : own[o] > 0}
      others == {o \in S \ (placed \union onlyReserved) : o < schedReplicas}
      rest == Cardinality(S) - Cardinality(placed \union onlyReserved \union others)
  IN Slices(onlyReserved, rest, others, placed)

\* Mutant: no check for space.
AllocateAlways(a, o) ==
  IF a.left > 0
  THEN [a EXCEPT !.pl[o] = @ + 1, !.byPod[o] = @ + 1, !.left = @ - 1]
  ELSE a

\* One vreplica for pod o, if some are left and there is space.
Allocate(a, o) ==
  IF a.left > 0 /\ Capacity - a.byPod[o] > 0
  THEN [a EXCEPT !.pl[o] = @ + 1, !.byPod[o] = @ + 1, !.left = @ - 1]
  ELSE a

\* The loop of addReplicas: one vreplica per candidate and round.  No pod takes
\* more than Capacity, so that many rounds leave nothing to do for another.
AllocateInRounds(start, candidates) ==
  LET n == Len(candidates)
      after[k \in 0..(Capacity * n)] ==
        IF k = 0 THEN start ELSE Allocate(after[k - 1], candidates[((k - 1) % n) + 1])
  IN after[Capacity * n]

addReplicas(n, diff, pl, byPod, candidates) ==
  LET start == [pl |-> pl, byPod |-> byPod, left |-> diff]
  IN IF n <= 0 THEN start ELSE AllocateInRounds(start, candidates)

\* The outcomes of scheduleVPod for a vpod that asks for m vreplicas, with a scale
\* of n replicas: placements, and the vreplicas left over.
scheduleVPod(v, m, n) ==
  LET S == SchedulablePods(n)
      byPod == SumByPod(reserved)
      kept == Kept(reserved[v], byPod, S)
      tr == GetTotalVReplicas(kept)
      target == TargetVReplicas(m, S)
  IN IF tr >= target
     THEN {[pl |-> removeReplicas(tr - target, kept), left |-> 0]}
     ELSE {addReplicas(n, target - tr, kept, ByPodAfterCut(reserved[v], byPod, S), c) :
             c \in candidatesOrdered(reserved[v], kept, S)}

-----------------------------------------------------------------------------
(***************************************************************************)
(* Actions.                                                                *)
(***************************************************************************)

\* The vreplicas that the vpod in the hands of a call of Schedule asks for: a call
\* that waits for the scale has v as it was, and keeps others off the locks.
Asked(v) ==
  IF scheduling = {} THEN {vreplicas[w] : w \in Listed \intersect {v}}
  ELSE {x[2] : x \in {y \in scheduling : y[1] = v}}

\* Schedule takes the locks, and asks for the scale that the cache does not have.
ScheduleWaits(v) ==
  /\ v \in Listed /\ scheduling = {}
  /\ GetScaleAsks("scheduler")
  /\ scheduling' = {<<v, vreplicas[v]>>}
  /\ UNCHANGED <<vreplicas, placements, pods, replicas, scales, schedReplicas, reserved, offered,
                 schedLeader, resyncList>>

\* Schedule gets the scale, with outcome r.  The caller gets placements to commit
\* if they are not the vpod's already, or an error and tries again later.
Schedule(v, r) ==
  /\ GetScaleReturns("scheduler")
  /\ reserved' = [reserved EXCEPT ![v] = r.pl]
  /\ offered' = [offered EXCEPT ![v] =
                    IF r.left > 0 \/ r.pl = placements[v] \/ v \notin Listed THEN NoOffer ELSE r.pl]
  /\ scheduling' = {}
  /\ UNCHANGED <<vreplicas, placements, pods, replicas, scales, schedReplicas, schedLeader,
                 resyncList>>

\* Schedule fails to list the vpods or to get the scale: no placements are
\* returned, and the reservations of v are cleared.
ScheduleFails(v) ==
  /\ Asked(v) # {}
  /\ reserved' = [reserved EXCEPT ![v] = NoPlacement]
  /\ offered' = [offered EXCEPT ![v] = NoOffer]
  /\ scheduling' = {}
  /\ scaleCall' = [scaleCall EXCEPT !["scheduler"] = Absent]
  /\ UNCHANGED <<vreplicas, placements, pods, replicas, scaleEntry, scales, schedReplicas,
                 schedLeader, resyncList>>

\* The caller of Schedule updates the vpod's status and the lister sees it.
Commit(v) ==
  /\ v \in Listed /\ offered[v] # NoOffer
  /\ placements' = [placements EXCEPT ![v] = offered[v]]
  /\ offered' = [offered EXCEPT ![v] = NoOffer]
  /\ UNCHANGED <<vreplicas, pods, replicas, cacheVars, scales, schedReplicas, reserved, scheduling,
                 schedLeader, resyncList>>

\* The informer tells of the statefulset.
updateStatefulset ==
  /\ schedReplicas # replicas
  /\ schedReplicas' = replicas
  /\ UNCHANGED <<clusterVars, reserved, offered, scheduling, schedLeader, resyncList>>

\* resyncReserved lists the vpods before it takes the lock ...
ResyncList ==
  /\ schedLeader /\ resyncList = Idle
  /\ resyncList' = Listed
  /\ UNCHANGED <<clusterVars, schedReplicas, reserved, offered, scheduling, schedLeader>>

\* ... and drops the reservations of those it has not seen.
ResyncDelete ==
  /\ resyncList # Idle /\ scheduling = {}
  /\ reserved' = [v \in VPods |-> IF v \in resyncList THEN reserved[v] ELSE NoPlacement]
  /\ resyncList' = Idle
  /\ UNCHANGED <<clusterVars, schedReplicas, offered, scheduling, schedLeader>>

\* initReserved: the committed placements of the listed vpods.
initReserved == [v \in VPods |-> IF v \in Listed THEN placements[v] ELSE NoPlacement]

\* The end of Promote.  An autoscaler that is told of the promotion itself
\* ends the method before initReserved.
SchedulerPromote ==
  /\ AutoscalerIsLeaderAware \/ scheduling = {}
  /\ schedLeader' = TRUE
  /\ reserved' = IF AutoscalerIsLeaderAware THEN reserved ELSE initReserved
  /\ UNCHANGED <<schedReplicas, offered, scheduling, resyncList>>

\* The process starts again: everything in memory is new.
SchedulerRestart ==
  /\ schedReplicas' = replicas
  /\ reserved' = [v \in VPods |-> NoPlacement]
  /\ offered' = [v \in VPods |-> NoOffer]
  /\ scheduling' = {}
  /\ schedLeader' = FALSE
  /\ resyncList' = Idle

=============================================================================
