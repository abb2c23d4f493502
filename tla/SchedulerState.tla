---------------------------- MODULE SchedulerState ----------------------------
(***************************************************************************)
(* What the statefulset scheduler and its autoscaler see of the cluster:   *)
(* the listed vpods with their placements, the listed pods, the scale of   *)
(* the statefulset behind a cache (pkg/scheduler/scheduler.go), and the    *)
(* State computed from them (pkg/scheduler/state/state.go).                *)
(*                                                                         *)
(* A pod is named by its ordinal, and a list of placements is a function   *)
(* from ordinals to vreplicas (0: no placement), which is what the code's  *)
(* sorted, duplicate free lists amount to.                                 *)
(***************************************************************************)
EXTENDS Integers, FiniteSets, FiniteSetsExt

CONSTANTS
  VPods,         \* keys of virtual pods
  MaxPods,       \* bound on the replicas of the statefulset
  MinVReplicas,  \* bounds on the vreplicas a vpod asks for
  MaxVReplicas,
  Capacity,      \* Config.PodCapacity
  MinReplicas    \* Config.MinReplicas

ASSUME SchedulerAssumption ==
  /\ MaxPods \in Nat \ {0} /\ MaxVReplicas \in Nat \ {0} /\ Capacity \in Nat \ {0}
  /\ MinVReplicas \in 0..MaxVReplicas
  /\ MinReplicas \in 0..MaxPods
  /\ IsFiniteSet(VPods)
  /\ Cardinality(VPods) * MaxVReplicas <= MaxPods * Capacity

VARIABLES
  vreplicas,   \* vreplicas[v]: GetVReplicas of a listed vpod, or Absent
  placements,  \* placements[v]: GetPlacements of a listed vpod
  pods,        \* pods[o]: the listed pod with ordinal o
  replicas,    \* spec.replicas of the statefulset in the API server
  scaleEntry,  \* the scale cache's entry for it, or Absent
  scaleCall,   \* scaleCall[c]: what the API server has answered c, to be stored, or Absent
  scales       \* history: the scales there were since the cache was last emptied

cacheVars == <<scaleEntry, scaleCall>>
clusterVars == <<vreplicas, placements, pods, replicas, cacheVars, scales>>

-----------------------------------------------------------------------------

Absent == -1
Ordinals == 0..(MaxPods - 1)
Placements == [Ordinals -> Nat]
NoPlacement == [o \in Ordinals |-> 0]

\* pending: not on a node yet; evicting: annotated as unschedulable.
PodStates == {"absent", "pending", "ready", "evicting"}

\* Schedule and the autoscaler's loop, each in one call of the cache at a time.
Callers == {"scheduler", "autoscaler"}
NoCalls == [c \in Callers |-> Absent]

Listed == {v \in VPods : vreplicas[v] # Absent}

\* The sum of n[x] over S, counted out.
Total(n, S) == Cardinality(UNION {{x} \X (1..n[x]) : x \in S})

GetTotalVReplicas(pl) == Total(pl, Ordinals)

\* Placements of several vpods, added up by pod.
SumByPod(pls) == [o \in Ordinals |-> Total([v \in VPods |-> pls[v][o]], VPods)]

ClusterTypeOK ==
  /\ vreplicas \in [VPods -> 0..MaxVReplicas \union {Absent}]
  /\ placements \in [VPods -> Placements]
  /\ pods \in [Ordinals -> PodStates]
  /\ replicas \in 0..MaxPods
  /\ scaleEntry \in 0..MaxPods \union {Absent}
  /\ scaleCall \in [Callers -> 0..MaxPods \union {Absent}]
  /\ scales \subseteq 0..MaxPods

-----------------------------------------------------------------------------
(***************************************************************************)
(* The scale cache.  GetScale and UpdateScale hold its lock for reading    *)
(* only: between the API server's answer to one call and the moment it is  *)
(* stored, the other one may get, store and update the scale.  (A call     *)
(* that finds no entry is answered at once: an answer is as old as it can  *)
(* be when it is stored.)                                                  *)
(***************************************************************************)

\* What GetScale returns, once it can: the entry, or the answer to its request.
GetScale(c) == IF scaleCall[c] = Absent THEN scaleEntry ELSE scaleCall[c]

\* A call finds no entry and asks the API server.
GetScaleAsks(c) ==
  /\ scaleCall[c] = Absent /\ scaleEntry = Absent
  /\ scaleCall' = [scaleCall EXCEPT ![c] = replicas]
  /\ UNCHANGED scaleEntry

\* A call returns; an answer of the API server is stored first.
GetScaleReturns(c) ==
  /\ GetScale(c) >= 0
  /\ scaleEntry' = GetScale(c)
  /\ scaleCall' = [scaleCall EXCEPT ![c] = Absent]

\* The API server has taken an update, which has still to be stored.
ScaleIsWritten(c, n) ==
  /\ replicas' = n
  /\ scales' = scales \union {n}
  /\ scaleCall' = [scaleCall EXCEPT ![c] = n]
  /\ UNCHANGED scaleEntry

\* Reset takes the lock for writing: it waits for the calls in progress.
Reset ==
  /\ scaleCall = NoCalls
  /\ scaleEntry' = Absent
  /\ scales' = {replicas}
  /\ UNCHANGED scaleCall

\* The entry reaches the end of its refresh period.
EntryExpires ==
  /\ scaleEntry # Absent
  /\ scaleEntry' = Absent
  /\ UNCHANGED <<vreplicas, placements, pods, replicas, scaleCall, scales>>

-----------------------------------------------------------------------------
(***************************************************************************)
(* The State built from the listers and a scale of n replicas.             *)
(***************************************************************************)

\* Mutant: the eviction annotation is not looked at.
isPodPending(o) == pods[o] = "pending"

\* isPodUnschedulable, for a pod the lister knows.
isPodUnschedulable(o) == pods[o] \in {"pending", "evicting"}

\* State.SchedulablePods.
SchedulablePods(n) ==
  {o \in Ordinals : o < n /\ pods[o] # "absent" /\ ~ isPodUnschedulable(o)}

TotalExpectedVReplicas == Total(vreplicas, Listed)

\* len(State.FreeCap): one entry up to the last pod that is schedulable or
\* that some placement names.
FreeCapLen(named) == IF named = {} THEN 0 ELSE 1 + Max(named)

PlacedOn == {o \in Ordinals : \E v \in Listed : placements[v][o] > 0}

-----------------------------------------------------------------------------
(***************************************************************************)
(* The rest of the cluster.                                                *)
(***************************************************************************)

\* A vpod is created, or its vreplicas are changed.
SetVReplicas(v, n) ==
  /\ vreplicas[v] # n
  /\ vreplicas' = [vreplicas EXCEPT ![v] = n]
  /\ UNCHANGED <<placements, pods, replicas, cacheVars, scales>>

DeleteVPod(v) ==
  /\ v \in Listed
  /\ vreplicas' = [vreplicas EXCEPT ![v] = Absent]
  /\ placements' = [placements EXCEPT ![v] = NoPlacement]
  /\ UNCHANGED <<pods, replicas, cacheVars, scales>>

\* The statefulset controller and the kubelets work towards spec.replicas.
PodProgress(o) ==
  /\ \/ o < replicas /\ pods[o] = "absent" /\ pods' = [pods EXCEPT ![o] = "pending"]
     \/ o < replicas /\ pods[o] = "pending" /\ pods' = [pods EXCEPT ![o] = "ready"]
     \/ o >= replicas /\ pods[o] # "absent" /\ pods' = [pods EXCEPT ![o] = "absent"]
  /\ UNCHANGED <<vreplicas, placements, replicas, cacheVars, scales>>

\* A pod is annotated for eviction.
MarkUnschedulable(o) ==
  /\ pods[o] = "ready"
  /\ pods' = [pods EXCEPT ![o] = "evicting"]
  /\ UNCHANGED <<vreplicas, placements, replicas, cacheVars, scales>>

=============================================================================
