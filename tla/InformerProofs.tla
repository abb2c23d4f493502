--------------------------- MODULE InformerProofs ---------------------------
(***************************************************************************)
(* Theorems about what processes keep of the channels that their informers *)
(* report: the handlers of the in-memory dispatcher, and the channels that *)
(* Subscriptions track.                                                    *)
(***************************************************************************)
EXTENDS ChannelInformers, FiniteSetTheorems, TLAPS

-----------------------------------------------------------------------------
(***************************************************************************)
(* The channels that Subscriptions track.                                  *)
(***************************************************************************)

Work == [pc : {"lock", "get", "typed"}, kind : ChannelKinds]

(* The assumption of what follows: None is a delivery specification that   *)
(* channels may have, and nothing else.                                    *)
NoneIsNoObject ==
  /\ None \in DeliverySpecs
  /\ None \notin Backings \cup Work \cup
       {"unready", "ready", "missing", "subscription", "not found", "no sink", "not added", "channel"}

TrackTypeOK ==
  /\ chan \in ChanStates /\ backing \in BackingStates
  /\ DOMAIN entry = Followers /\ DOMAIN caches = Informers /\ DOMAIN outcome = Followers
  /\ concrete \subseteq ChannelKinds /\ behind \subseteq TrackedRunning /\ notifying \subseteq TrackedRunning
  /\ observers \in [ChannelKinds -> SUBSET Followers]
  /\ subQueue \subseteq Followers
  /\ subWork \in [Followers -> Work \cup {None}]

(* An informer that is not behind has the object, and only what has an     *)
(* informer is tracked.                                                    *)
CachesInv ==
  /\ \A i \in TrackedRunning \ behind : caches[i] = Object(KindOf(i))
  /\ \A k \in ChannelKinds \ concrete : observers[k] = {}

(* An event is to come that queues s.                                      *)
Hears(s) == \E i \in behind \cup notifying : s \in observers[KindOf(i)]

Follows(s) ==
  IF Resolvable(s) THEN outcome[s] = "resolved" /\ entry[s] = Wanted(s)
  ELSE outcome[s] # "resolved"

(* A Subscription that rests has the Channel tracked, and either hears of  *)
(* a change or follows the channels as they are; and it has the backing    *)
(* channel tracked unless the Channel keeps it from being of interest.     *)
RestInv(s) ==
  s \notin subQueue /\ subWork[s] = None =>
    /\ s \in ViaChannel => s \in observers["Channel"]
    /\ \/ Hears(s)
       \/ Follows(s) /\ (s \in observers["imc"] \/ (s \in ViaChannel /\ chan # "ready"))

(* One that is reconciled has tracked what it reads next, and a Channel    *)
(* that was ready when it was read still is, or s will be told.            *)
WorkInv(s) ==
  subWork[s] # None =>
    /\ subWork[s].kind = "Channel" => s \in ViaChannel
    /\ subWork[s].pc = "typed" => subWork[s].kind = "Channel"
    /\ subWork[s].pc # "lock" => s \in observers[subWork[s].kind]
    /\ subWork[s].kind = "imc" /\ s \in ViaChannel =>
         s \in observers["Channel"] /\ (s \in subQueue \/ Hears(s) \/ chan = "ready")

(* The first failure of an informer is news.                               *)
FaultsInv ==
  /\ informerFaults \in Nat
  /\ informerFaults = 0 => \A s \in Followers : outcome[s] # "untracked"

TrackInv ==
  /\ TrackTypeOK /\ CachesInv /\ FaultsInv
  /\ \A s \in Followers : RestInv(s) /\ WorkInv(s)

LEMMA TrackInitInv == ASSUME NoneIsNoObject, TrackedChannelsInit PROVE TrackInv
<1>1. backing \in BackingStates
  <2> DEFINE new == [delivery |-> None, resolved |-> FALSE]
  <2>1. new \in Backings
    BY Zenon DEF Backings, NoneIsNoObject
  <2>2. ~ new.resolved
    OBVIOUS
  <2> QED BY <2>1, <2>2, Zenon DEF TrackedChannelsInit, BackingStates
<1>2. TrackTypeOK /\ CachesInv /\ FaultsInv
  BY <1>1 DEF TrackedChannelsInit, TrackTypeOK, CachesInv, FaultsInv, ChanStates,
    TrackedRunning, Informers, ChannelKinds, KindOf, Object, Followers
<1> QED BY <1>2 DEF TrackedChannelsInit, TrackInv, RestInv, WorkInv

(* A change of the Channel, or of the backing channel.                     *)
LEMMA ChannelChangesInv ==
  ASSUME TrackInv, ChannelChanges
  PROVE  TrackInv'
<1> USE DEF ChannelChanges, Changed, TrackInv
<1>1. TrackTypeOK' /\ FaultsInv' /\ CachesInv'
  BY Zenon DEF TrackTypeOK, FaultsInv, CachesInv, TrackedRunning, KindOf, Object, ChannelKinds, ChanStates
<1>2. ASSUME NEW s \in Followers PROVE RestInv(s)' /\ WorkInv(s)'
  <2>1. Hears(s) => Hears(s)'
    BY DEF Hears
  <2>2. s \in observers["Channel"] => Hears(s)'
    BY DEF Hears, TrackedRunning, KindOf
  <2>3. WorkInv(s)'
    BY <2>1, <2>2 DEF WorkInv
  <2>4. s \notin ViaChannel => (Follows(s) <=> Follows(s)')
    BY DEF Follows, Resolvable, Wanted
  <2>5. RestInv(s)'
    BY <2>1, <2>2, <2>4 DEF RestInv
  <2> QED BY <2>3, <2>5
<1> QED BY <1>1, <1>2

LEMMA BackingChangesInv ==
  ASSUME TrackInv, BackingChanges
  PROVE  TrackInv'
<1> USE DEF BackingChanges, Changed, TrackInv
<1>1. TrackTypeOK' /\ FaultsInv' /\ CachesInv'
  BY Zenon DEF TrackTypeOK, FaultsInv, CachesInv, TrackedRunning, KindOf, Object, ChannelKinds
<1>2. ASSUME NEW s \in Followers PROVE RestInv(s)' /\ WorkInv(s)'
  <2>1. Hears(s) => Hears(s)'
    BY DEF Hears
  <2>2. s \in observers["imc"] => Hears(s)'
    <3>1. s \in observers["imc"] => "imc" \in concrete
      BY DEF CachesInv, ChannelKinds
    <3> QED BY <3>1 DEF Hears, TrackedRunning, KindOf
  <2>3. WorkInv(s)'
    BY <2>1 DEF WorkInv
  <2>4. s \in ViaChannel /\ chan # "ready" => (Follows(s) <=> Follows(s)')
    BY DEF Follows, Resolvable
  <2>5. RestInv(s)'
    BY <2>1, <2>2, <2>4 DEF RestInv
  <2> QED BY <2>3, <2>5
<1> QED BY <1>1, <1>2

(* The informers only tell.                                                *)
LEMMA TrackedObserveInv ==
  ASSUME TrackInv, NEW i \in Informers, TrackedObserve(i) \/ OnChanged(i)
  PROVE  TrackInv'
<1>1. CASE TrackedObserve(i)
  <2> USE <1>1 DEF TrackedObserve, TrackInv
  <2>1. TrackTypeOK' /\ FaultsInv' /\ CachesInv'
    BY DEF TrackTypeOK, FaultsInv, CachesInv, TrackedRunning, KindOf, Object, objectVars, trackBounds
  <2>2. ASSUME NEW s \in Followers PROVE RestInv(s)' /\ WorkInv(s)'
    <3>1. Hears(s) => Hears(s)'
      BY DEF Hears
    <3>2. Follows(s) <=> Follows(s)'
      BY DEF Follows, Resolvable, Wanted, objectVars
    <3> QED BY <3>1, <3>2 DEF RestInv, WorkInv, objectVars
  <2> QED BY <2>1, <2>2
<1>2. CASE OnChanged(i)
  <2> USE <1>2 DEF OnChanged, TrackInv
  <2>1. TrackTypeOK' /\ FaultsInv' /\ CachesInv'
    BY DEF TrackTypeOK, FaultsInv, CachesInv, TrackedRunning, Informers, ChannelKinds, KindOf, Object, Told,
      objectVars, trackBounds
  <2>2. ASSUME NEW s \in Followers PROVE RestInv(s)' /\ WorkInv(s)'
    <3>1. Hears(s) => Hears(s)' \/ s \in subQueue'
      BY DEF Hears, Told
    <3>2. Follows(s) <=> Follows(s)'
      BY DEF Follows, Resolvable, Wanted, objectVars
    <3> QED BY <3>1, <3>2 DEF RestInv, WorkInv, objectVars
  <2> QED BY <2>1, <2>2
<1> QED BY <1>1, <1>2

(* What s would hear of, it hears of still.                                *)
LEMMA HearsStill ==
  ASSUME TrackInv, NEW s, \A k \in ChannelKinds : s \in observers[k] => s \in observers'[k],
         behind \cup notifying \subseteq behind' \cup notifying'
  PROVE  Hears(s) => Hears(s)'
<1>1. \A i \in behind \cup notifying : KindOf(i) \in ChannelKinds
  BY DEF TrackInv, TrackTypeOK, TrackedRunning, KindOf, ChannelKinds
<1> QED BY <1>1 DEF Hears

(* A step of s that tells the informers nothing leaves the others alone.   *)
LEMMA OthersStay ==
  ASSUME TrackInv, NEW t \in Followers,
         UNCHANGED <<chan, backing, entry[t], outcome[t], subWork[t]>>,
         t \in subQueue' <=> t \in subQueue,
         \A k \in ChannelKinds : t \in observers'[k] <=> t \in observers[k],
         behind \cup notifying \subseteq behind' \cup notifying'
  PROVE  RestInv(t)' /\ WorkInv(t)'
<1>1. Hears(t) => Hears(t)'
  BY HearsStill
<1>2. Follows(t) <=> Follows(t)'
  BY DEF Follows, Resolvable, Wanted
<1>3. RestInv(t)'
  BY <1>1, <1>2, Zenon DEF TrackInv, RestInv, ChannelKinds
<1>4. WorkInv(t)'
  <2>1. subWork[t] # None => subWork[t] \in Work
    BY DEF TrackInv, TrackTypeOK
  <2> QED BY <1>1, <2>1 DEF TrackInv, WorkInv, ChannelKinds, Work
<1> QED BY <1>3, <1>4

(* What becomes of s when it refers to kind k.                             *)
References(s, k) ==
  /\ subWork' \in [Followers -> Work \cup {None}] /\ observers' \in [ChannelKinds -> SUBSET Followers]
  /\ subWork'[s] \in Work /\ subWork'[s].kind = k /\ subWork'[s].pc \in {"lock", "get"}
  /\ subWork'[s].pc = "get" => s \in observers'[k]
  /\ \A j \in ChannelKinds : observers[j] \subseteq observers'[j]
  /\ \A j \in ChannelKinds \ concrete' : observers'[j] = observers[j]
  /\ \A t \in Followers \ {s} :
       subWork'[t] = subWork[t] /\ \A j \in ChannelKinds : t \in observers'[j] <=> t \in observers[j]

LEMMA Referred ==
  ASSUME TrackInv, NEW s \in Followers, NEW k \in ChannelKinds, TrackReference(s, k), k \in concrete'
  PROVE  References(s, k) /\ subWork'[s].pc = "get"
<1>1. [pc |-> "get", kind |-> k] \in Work
  BY DEF Work
<1> QED BY <1>1 DEF TrackReference, References, TrackInv, TrackTypeOK

LEMMA EnsureTracking ==
  ASSUME TrackInv, NEW s \in Followers, NEW k \in ChannelKinds, TrackKReference(s, k), concrete' = concrete
  PROVE  References(s, k)
<1>1. [pc |-> "lock", kind |-> k] \in Work
  BY DEF Work
<1>2. CASE k \in concrete
  BY <1>2, Referred DEF TrackKReference
<1>3. CASE k \notin concrete
  BY <1>1, <1>3 DEF TrackKReference, References, TrackInv, TrackTypeOK
<1> QED BY <1>2, <1>3

LEMMA TakeInv ==
  ASSUME NoneIsNoObject, TrackInv, NEW s \in Followers, Take(s)
  PROVE  TrackInv'
<1> USE DEF Take
<1> DEFINE k == SpecKind(s)
<1>1. k \in ChannelKinds /\ TrackKReference(s, k) /\ concrete' = concrete /\ (k = "Channel" <=> s \in ViaChannel) /\ (k = "imc" <=> s \notin ViaChannel)
  BY DEF SpecKind, ChannelKinds, informerVars
<1>2. References(s, k)
  BY <1>1, EnsureTracking
<1> HIDE DEF k
<1>3. TrackTypeOK' /\ CachesInv' /\ FaultsInv'
  BY <1>2 DEF References, TrackInv, TrackTypeOK, CachesInv, FaultsInv, TrackedRunning, Object, objectVars,
    informerVars, trackBounds
<1>4. RestInv(s)' /\ WorkInv(s)'
  BY <1>1, <1>2, Zenon DEF References, NoneIsNoObject, RestInv, WorkInv
<1>5. ASSUME NEW t \in Followers, t # s PROVE RestInv(t)' /\ WorkInv(t)'
  BY <1>2, <1>5, OthersStay DEF References, objectVars, informerVars
<1> QED BY <1>3, <1>4, <1>5 DEF TrackInv

LEMMA StartInformerInv ==
  ASSUME NoneIsNoObject, TrackInv, NEW s \in Followers, StartInformer(s)
  PROVE  TrackInv'
<1>0. subWork[s] # None /\ subWork[s] \in Work /\ subWork[s].pc = "lock"
  BY DEF StartInformer, At, TrackInv, TrackTypeOK
<1> PICK k \in ChannelKinds : k = subWork[s].kind
  BY <1>0 DEF Work
<1>1. /\ TrackReference(s, k)
      /\ UNCHANGED <<chan, backing, entry, subQueue, outcome, trackChanges, informerFaults>>
  BY DEF StartInformer, objectVars, trackBounds
<1>2. \/ /\ k \notin concrete /\ concrete' = concrete \cup {k}
         /\ caches' = [caches EXCEPT ![k] = Object(k)]
         /\ behind' = behind \ {k} /\ notifying' = notifying \cup {k}
      \/ k \in concrete /\ UNCHANGED <<caches, behind, notifying, concrete>>
  BY DEF StartInformer, AddHandler, informerVars
<1>3. WorkInv(s)
  BY DEF TrackInv
<1>4. References(s, k) /\ subWork'[s].pc = "get"
  BY <1>1, <1>2, Referred
<1>5. TrackTypeOK' /\ CachesInv' /\ FaultsInv'
  <2>1. TrackTypeOK' /\ FaultsInv'
    BY <1>1, <1>2, <1>4, Zenon DEF References, TrackInv, TrackTypeOK, FaultsInv, TrackedRunning, Informers
  <2>2. k \in Informers /\ DOMAIN caches = Informers /\ KindOf(k) = k
    BY DEF TrackInv, TrackTypeOK, Informers, ChannelKinds, KindOf
  <2>3. ASSUME NEW i \in TrackedRunning' \ behind' PROVE caches'[i] = Object(KindOf(i))'
    <3>1. Object(KindOf(i))' = Object(KindOf(i))
      BY <1>1 DEF Object, KindOf
    <3>2. i # k \/ k \in concrete => i \in TrackedRunning \ behind /\ caches'[i] = caches[i]
      BY <1>2, <2>2, <2>3 DEF TrackInv, TrackTypeOK, TrackedRunning, Informers
    <3>3. i = k /\ k \notin concrete => caches'[i] = Object(k)
      BY <1>2, <2>2
    <3> QED BY <2>2, <3>1, <3>2, <3>3 DEF TrackInv, CachesInv
  <2>4. \A j \in ChannelKinds \ concrete' : observers'[j] = {}
    BY <1>2, <1>4 DEF References, TrackInv, CachesInv
  <2> QED BY <2>1, <2>3, <2>4 DEF CachesInv
<1>6. behind \cup notifying \subseteq behind' \cup notifying'
  BY <1>2
<1>7. RestInv(s)' /\ WorkInv(s)'
  <2>1. Hears(s) => Hears(s)'
    BY <1>4, <1>6, HearsStill DEF References
  <2> QED BY <1>0, <1>1, <1>3, <1>4, <2>1, Zenon DEF References, NoneIsNoObject, RestInv, WorkInv, ChannelKinds
<1>8. ASSUME NEW t \in Followers, t # s PROVE RestInv(t)' /\ WorkInv(t)'
  BY <1>1, <1>4, <1>6, <1>8, OthersStay DEF References
<1> QED BY <1>5, <1>7, <1>8 DEF TrackInv

(* A reconciliation that ends with the status unchanged has to be right.   *)
LEMMA FinishInv ==
  ASSUME TrackInv, NEW s \in Followers, NEW result, Finish(s, result),
         UNCHANGED <<chan, backing, informerVars, observers, trackChanges>>,
         DOMAIN entry' = Followers, \A t \in Followers \ {s} : entry'[t] = entry[t],
         FaultsInv',
         s \in ViaChannel => s \in observers["Channel"],
         s \notin subQueue /\ outcome[s] = result =>
           \/ Hears(s)
           \/ Follows(s)' /\ (s \in observers["imc"] \/ (s \in ViaChannel /\ chan # "ready"))
  PROVE  TrackInv'
<1> USE DEF Finish
<1>1. TrackTypeOK' /\ CachesInv'
  BY DEF TrackInv, TrackTypeOK, CachesInv, TrackedRunning, Object, informerVars
<1>2. RestInv(s)' /\ WorkInv(s)'
  <2>1. s \notin subQueue' => s \notin subQueue /\ outcome[s] = result
    OBVIOUS
  <2>2. Hears(s) => Hears(s)'
    BY DEF Hears, informerVars
  <2>3. subWork'[s] = None
    BY DEF TrackInv, TrackTypeOK
  <2> QED BY <2>1, <2>2, <2>3 DEF RestInv, WorkInv
<1>3. ASSUME NEW t \in Followers, t # s PROVE RestInv(t)' /\ WorkInv(t)'
  BY <1>3, OthersStay DEF TrackInv, TrackTypeOK, informerVars
<1> QED BY <1>1, <1>2, <1>3 DEF TrackInv

LEMMA StartInformerFailsInv ==
  ASSUME MaxInformerFaults \in {0, 1}, TrackInv, NEW s \in Followers, StartInformerFails(s)
  PROVE  TrackInv'
<1>1. informerFaults = 0 /\ informerFaults' = 1 /\ outcome[s] # "untracked"
  BY DEF StartInformerFails, TrackInv, FaultsInv
<1>2. FaultsInv'
  BY <1>1 DEF FaultsInv
<1>3. subQueue' = subQueue \cup {s} /\ subWork' = [subWork EXCEPT ![s] = None]
      /\ outcome' = [outcome EXCEPT ![s] = "untracked"]
      /\ UNCHANGED <<objectVars, informerVars, observers>>
  BY <1>1 DEF StartInformerFails, Finish
<1>4. TrackTypeOK' /\ CachesInv'
  BY <1>3 DEF TrackInv, TrackTypeOK, CachesInv, TrackedRunning, Object, objectVars, informerVars
<1>5. RestInv(s)' /\ WorkInv(s)'
  BY <1>3 DEF TrackInv, TrackTypeOK, RestInv, WorkInv
<1>6. ASSUME NEW t \in Followers, t # s PROVE RestInv(t)' /\ WorkInv(t)'
  BY <1>3, <1>6, OthersStay DEF TrackInv, TrackTypeOK, objectVars, informerVars
<1> QED BY <1>2, <1>4, <1>5, <1>6 DEF TrackInv

(* What an informer shows of an object that s tracks is so, or s hears.    *)
LEMMA ShownOrHeard ==
  ASSUME TrackInv, NEW s \in Followers, NEW i \in Informers,
         s \in observers[KindOf(i)], i = "typed" \/ i \in concrete
  PROVE  Hears(s) \/ caches[i] = Object(KindOf(i))
BY Zenon DEF TrackInv, CachesInv, Hears, TrackedRunning

LEMMA OnlyFirstFault ==
  ASSUME TrackInv, NEW s \in Followers, NEW result, result # "untracked", Finish(s, result),
         UNCHANGED informerFaults
  PROVE  FaultsInv'
BY DEF TrackInv, TrackTypeOK, FaultsInv, Finish

LEMMA FetchInv ==
  ASSUME NoneIsNoObject, TrackInv, NEW s \in Followers, trackAndFetchChannel(s)
  PROVE  TrackInv'
<1>1. /\ subWork[s] # None /\ subWork[s] \in Work /\ subWork[s].kind = "Channel" /\ subWork[s].pc = "get"
      /\ s \in ViaChannel /\ s \in observers["Channel"] /\ "Channel" \in concrete
  BY Zenon DEF trackAndFetchChannel, At, TrackInv, TrackTypeOK, WorkInv, CachesInv, ChannelKinds
<1>2. CASE caches["Channel"] = None
  <2>1. Finish(s, "not found") /\ UNCHANGED <<chan, backing, entry, informerVars, observers, trackChanges, informerFaults>>
    BY <1>2, Zenon DEF trackAndFetchChannel, ListerFor, objectVars, trackBounds
  <2>2. Hears(s) \/ chan = None
    BY <1>1, <1>2, ShownOrHeard DEF Informers, ChannelKinds, KindOf, Object
  <2>3. outcome[s] = "not found" => Hears(s) \/ (Follows(s)' /\ s \in ViaChannel /\ chan # "ready")
    BY <1>1, <2>1, <2>2, Zenon DEF NoneIsNoObject, Follows, Resolvable, Finish, TrackInv, TrackTypeOK
  <2>4. FaultsInv'
    BY <2>1, OnlyFirstFault, Zenon
  <2> QED BY <1>1, <2>1, <2>3, <2>4, FinishInv, Zenon DEF TrackInv, TrackTypeOK
<1>3. CASE caches["Channel"] # None
  <2>1. /\ subWork' = [subWork EXCEPT ![s].pc = "typed"]
        /\ UNCHANGED <<chan, backing, entry, informerVars, observers, subQueue, outcome, trackBounds>>
    BY <1>3 DEF trackAndFetchChannel, ListerFor, objectVars
  <2>2. subWork'[s] = [pc |-> "typed", kind |-> "Channel"] /\ subWork'[s] \in Work
    BY <1>1, <2>1 DEF TrackInv, TrackTypeOK, Work, ChannelKinds
  <2>3. TrackTypeOK' /\ CachesInv' /\ FaultsInv'
    BY <2>1, <2>2 DEF TrackInv, TrackTypeOK, CachesInv, FaultsInv, TrackedRunning, Object, informerVars, trackBounds
  <2>4. RestInv(s)' /\ WorkInv(s)'
    <3>1. subWork'[s].pc = "typed" /\ subWork'[s].kind = "Channel"
      BY <2>2
    <3>2. subWork'[s] # None
      BY <2>2, Zenon DEF NoneIsNoObject
    <3> QED BY <1>1, <2>1, <3>1, <3>2 DEF RestInv, WorkInv
  <2>5. ASSUME NEW t \in Followers, t # s PROVE RestInv(t)' /\ WorkInv(t)'
    BY <2>1, <2>5, OthersStay DEF TrackInv, TrackTypeOK, informerVars
  <2> QED BY <2>3, <2>4, <2>5 DEF TrackInv
<1> QED BY <1>2, <1>3

LEMMA GetChannelInv ==
  ASSUME NoneIsNoObject, TrackInv, NEW s \in Followers, getChannel(s)
  PROVE  TrackInv'
<1> USE DEF getChannel, At
<1>1. /\ subWork[s] # None /\ subWork[s] \in Work /\ subWork[s].kind = "Channel" /\ subWork[s].pc = "typed"
      /\ s \in ViaChannel /\ s \in observers["Channel"]
  BY Zenon DEF TrackInv, TrackTypeOK, WorkInv
<1>2. Hears(s) \/ caches["typed"] = chan
  BY <1>1, ShownOrHeard, Zenon DEF Informers, KindOf, Object
<1>3. CASE caches["typed"] # "ready"
  <2>1. PICK r \in {"not found", "not ready"} : Finish(s, r)
    BY <1>3, Zenon
  <2>2. UNCHANGED <<chan, backing, entry, informerVars, observers, trackChanges, informerFaults>>
    BY <1>3, Zenon DEF objectVars, trackBounds
  <2>3. outcome[s] = r => Hears(s) \/ (Follows(s)' /\ s \in ViaChannel /\ chan # "ready")
    BY <1>1, <1>2, <1>3, <2>1, <2>2, Zenon DEF Follows, Resolvable, Finish, TrackInv, TrackTypeOK
  <2>4. FaultsInv'
    BY <2>1, <2>2, OnlyFirstFault, Zenon
  <2> QED BY <1>1, <2>1, <2>2, <2>3, <2>4, FinishInv, Zenon DEF TrackInv, TrackTypeOK
<1>4. CASE caches["typed"] = "ready"
  <2>1. References(s, "imc")
    BY <1>4, EnsureTracking DEF ChannelKinds, informerVars
  <2>2. UNCHANGED <<chan, backing, entry, informerVars, subQueue, outcome, trackBounds>>
    BY <1>4 DEF objectVars
  <2>3. TrackTypeOK' /\ CachesInv' /\ FaultsInv'
    <3>1. TrackTypeOK'
      BY <2>1, <2>2, Zenon DEF References, TrackInv, TrackTypeOK, TrackedRunning, informerVars
    <3>2. CachesInv'
      <4>1. \A j \in ChannelKinds \ concrete' : observers'[j] = {}
        BY <2>1, <2>2, Zenon DEF References, TrackInv, CachesInv, informerVars
      <4>2. \A i \in TrackedRunning' \ behind' : caches'[i] = Object(KindOf(i))'
        BY <2>2, Zenon DEF TrackInv, CachesInv, TrackedRunning, Object, informerVars
      <4> QED BY <4>1, <4>2, Zenon DEF CachesInv
    <3>3. FaultsInv'
      BY <2>2, Zenon DEF TrackInv, FaultsInv, trackBounds
    <3> QED BY <3>1, <3>2, <3>3, Zenon
  <2>4. Hears(s) => Hears(s)'
    BY <2>1, <2>2, HearsStill, Zenon DEF References, informerVars
  <2>5. s \in observers'["Channel"]
    BY <1>1, <2>1, Zenon DEF References, ChannelKinds
  <2>6. RestInv(s)' /\ WorkInv(s)'
    BY <1>2, <1>4, <2>1, <2>2, <2>4, <2>5, Zenon DEF References, NoneIsNoObject, RestInv, WorkInv
  <2>7. ASSUME NEW t \in Followers, t # s PROVE RestInv(t)' /\ WorkInv(t)'
    BY <2>1, <2>2, <2>7, OthersStay, Zenon DEF References, informerVars
  <2> QED BY <2>3, <2>6, <2>7, Zenon DEF TrackInv
<1> QED BY <1>3, <1>4, Zenon

LEMMA SyncChannelInv ==
  ASSUME NoneIsNoObject, TrackInv, NEW s \in Followers, syncChannel(s)
  PROVE  TrackInv'
<1> DEFINE c == caches["imc"]
           failure == IF c = None THEN "not found"
                      ELSE IF resolveDeadLetterSink(s, c) = "missing" THEN "no sink"
                      ELSE IF backing = None THEN "not added" ELSE None
           result == IF failure # None THEN failure ELSE "resolved"
<1>1. /\ subWork[s] # None /\ subWork[s].kind = "imc" /\ subWork[s].pc = "get"
      /\ s \in observers["imc"] /\ "imc" \in concrete
      /\ s \in ViaChannel => s \in observers["Channel"] /\ (s \in subQueue \/ Hears(s) \/ chan = "ready")
  BY Zenon DEF syncChannel, At, TrackInv, TrackTypeOK, WorkInv, CachesInv, ChannelKinds
<1>2. /\ Finish(s, result)
      /\ entry' = IF failure # None THEN entry ELSE [entry EXCEPT ![s] = deliverySpec(s, c)]
      /\ UNCHANGED <<chan, backing, informerVars, observers, trackChanges, informerFaults>>
  BY Zenon DEF syncChannel, ListerFor, trackBounds
<1>3. Hears(s) \/ c = backing
  BY <1>1, ShownOrHeard DEF Informers, ChannelKinds, KindOf, Object
<1>4. result # "untracked"
  BY Zenon
<1>5. FaultsInv'
  BY <1>2, <1>4, OnlyFirstFault, Zenon
<1>6. ASSUME c = backing, s \in ViaChannel => chan = "ready"
      PROVE  Follows(s)'
  <2>1. backing = None \/ backing \in Backings
    BY DEF TrackInv, TrackTypeOK, BackingStates
  <2>2. outcome'[s] = result /\ DOMAIN entry = Followers
    BY <1>2, Zenon DEF Finish, TrackInv, TrackTypeOK
  <2>3. CASE ~ Resolvable(s)
    <3>1. failure # None /\ failure # "resolved"
      BY <1>6, <2>1, <2>3, Zenon DEF Resolvable, resolveDeadLetterSink, NoneIsNoObject
    <3> QED BY <1>2, <2>2, <2>3, <3>1, Zenon DEF Follows, Resolvable
  <2>4. CASE Resolvable(s)
    <3>1. failure = None
      BY <1>6, <2>1, <2>4, Zenon DEF Resolvable, resolveDeadLetterSink, NoneIsNoObject
    <3>2. deliverySpec(s, c) = Wanted(s)
      BY <1>6, <2>4 DEF Resolvable, resolveDeadLetterSink, deliverySpec, Wanted
    <3>3. Wanted(s)' = Wanted(s) /\ Resolvable(s)'
      BY <1>2, <2>4, Zenon DEF Wanted, Resolvable
    <3> QED BY <1>2, <2>2, <3>1, <3>2, <3>3, Zenon DEF Follows
  <2> QED BY <2>3, <2>4
<1>7. DOMAIN entry' = Followers /\ \A t \in Followers \ {s} : entry'[t] = entry[t]
  BY <1>2, Zenon DEF TrackInv, TrackTypeOK
<1>8. s \notin subQueue /\ outcome[s] = result => Hears(s) \/ (Follows(s)' /\ s \in observers["imc"])
  BY <1>1, <1>3, <1>6, Zenon
<1> HIDE DEF c, failure, result
<1>9. Finish(s, result) /\ UNCHANGED <<chan, backing, informerVars, observers, trackChanges>>
  BY <1>2
<1>10. s \in ViaChannel => s \in observers["Channel"]
  BY <1>1
<1> QED BY <1>5, <1>7, <1>8, <1>9, <1>10, FinishInv, Zenon

LEMMA TrackStepInv ==
  ASSUME NoneIsNoObject, MaxInformerFaults \in {0, 1}, TrackInv, [TrackedChannelsNext]_trackedVars
  PROVE  TrackInv'
<1>1. CASE UNCHANGED trackedVars
  BY <1>1 DEF trackedVars, objectVars, informerVars, trackBounds, TrackInv, TrackTypeOK, CachesInv, FaultsInv,
    RestInv, WorkInv, Hears, Follows, Resolvable, Wanted, TrackedRunning, Object
<1> QED BY <1>1, ChannelChangesInv, BackingChangesInv, TrackedObserveInv, TakeInv, StartInformerInv,
      StartInformerFailsInv, FetchInv, GetChannelInv, SyncChannelInv DEF TrackedChannelsNext, TrackedIdle

(* For any number of Subscriptions and changes of the two channels: when   *)
(* everything has settled, the Subscriptions are resolved that can be, and *)
(* the backing channel lists them with the delivery that follows from both *)
(* (pkg/duck/listable.go, TrackKReference; subscription.go, getChannel,    *)
(* deliverySpec).  One informer may fail to start: a second failure in the *)
(* same words would be no change of the status, and nothing would queue    *)
(* the Subscription again.                                                 *)
THEOREM SubscriptionsFollowChannels ==
  ASSUME NoneIsNoObject, MaxInformerFaults \in {0, 1}
  PROVE  TrackedChannelsSpec => []SubscriptionsFollow
<1>1. TrackedChannelsInit => TrackInv
  BY TrackInitInv
<1>2. TrackInv /\ [TrackedChannelsNext]_trackedVars => TrackInv'
  BY TrackStepInv
<1>3. TrackInv => SubscriptionsFollow
  BY Zenon DEF TrackInv, RestInv, Hears, Follows, SubscriptionsFollow, TrackedQuiet
<1> QED BY <1>1, <1>2, <1>3, PTL DEF TrackedChannelsSpec

(* However many workers come upon a kind at once, the tracker adds one     *)
(* handler to one informer for it, for any number of Subscriptions and     *)
(* failures (ensureTracking).                                              *)
THEOREM TrackerStartsOnce == TrackedChannelsSpec => []OneInformerEach
<1> DEFINE Started == OneInformerEach /\ DOMAIN registered = ChannelKinds
<1>1. TrackedChannelsInit => Started
  BY DEF TrackedChannelsInit, OneInformerEach
<1>2. Started /\ [TrackedChannelsNext]_trackedVars => Started'
  <2> SUFFICES ASSUME Started, [TrackedChannelsNext]_trackedVars PROVE Started'
    OBVIOUS
  <2>1. ASSUME NEW s \in Followers, StartInformer(s) PROVE Started'
    <3>1. \/ UNCHANGED <<concrete, registered>>
          \/ \E k : /\ k \notin concrete /\ concrete' = concrete \cup {k}
                   /\ registered' = [registered EXCEPT ![k] = @ + 1]
      BY <2>1 DEF StartInformer, AddHandler, informerVars
    <3> QED BY <3>1 DEF OneInformerEach
  <2>2. (\E s \in Followers : StartInformer(s)) \/ UNCHANGED <<concrete, registered>>
    BY Zenon DEF TrackedChannelsNext, trackedVars, informerVars, ChannelChanges, BackingChanges, TrackedObserve,
      OnChanged, Take, StartInformerFails, trackAndFetchChannel, getChannel, syncChannel, TrackedIdle
  <2> QED BY <2>1, <2>2 DEF OneInformerEach
<1> QED BY <1>1, <1>2, PTL DEF TrackedChannelsSpec

-----------------------------------------------------------------------------
(***************************************************************************)
(* The handlers of the in-memory dispatcher.                               *)
(***************************************************************************)

Imc == [subs : SubscriberLists, ready : BOOLEAN, addressed : BOOLEAN]
ImcWork == [subs : SubscriberLists, at : {"host", "path"}]
HandlerFor(resolve) == [resolve : {resolve}, subs : SubscriberLists]

(* The assumption of all that follows: None is nothing else.               *)
NoneIsNothing ==
  None \notin Channels \cup Imc \cup ImcWork \cup HandlerFor("host") \cup HandlerFor("path")

HandlersTypeOK ==
  /\ strict \in BOOLEAN /\ oidc \in BOOLEAN
  /\ imcs \in [Channels -> Imc \cup {None}]
  /\ imcQueue \subseteq Channels
  /\ imcWork \in [Channels -> ImcWork \cup {None}]
  /\ handlers \in [Keys -> HandlerFor("host") \cup HandlerFor("path") \cup {None}]
  /\ \A c \in Channels : handlers[Path(c)] \in HandlerFor("path") \cup {None}
  /\ \A c \in Channels : handlers[<<"host", c>>] \in HandlerFor("host") \cup {None}
  /\ handlers[<<"dispatcher">>] \in HandlerFor("host") \cup {None}

(* Hosts are of one form.                                                  *)
HostsInv ==
  /\ strict => \A c \in Channels : handlers[<<"host", c>>] = None
  /\ ~strict => handlers[<<"dispatcher">>] = None

(* A handler of the host of c has the subscribers l.                       *)
ServesHost(c, l) == ~strict => handlers[<<"host", c>>] = NewFanoutEventHandler("host", l)

(* A channel that is not queued, and is ready, is served, or its           *)
(* reconciliation is under way with the object there is.                   *)
ServedInv(c) ==
  c \notin imcQueue /\ imcs[c] # None /\ imcs[c].ready =>
    /\ imcWork[c] = None =>
         /\ ServesHost(c, imcs[c].subs)
         /\ handlers[Path(c)] = NewFanoutEventHandler("path", imcs[c].subs)
    /\ imcWork[c] # None =>
         /\ imcWork[c].subs = imcs[c].subs
         /\ imcWork[c].at = "path" => ServesHost(c, imcs[c].subs)

(* A channel that is gone, or has no address, has no handler of its host,  *)
(* unless that has outlived it.                                            *)
GoneInv(c) ==
  /\ imcs[c] # None /\ imcs[c].ready => imcs[c].addressed
  /\ c \notin outlived /\ (imcs[c] = None \/ ~ imcs[c].addressed) =>
       imcWork[c] = None /\ handlers[<<"host", c>>] = None

HandlersInv ==
  /\ HandlersTypeOK
  /\ HostsInv
  /\ \A c \in Channels : ServedInv(c) /\ GoneInv(c)

-----------------------------------------------------------------------------
LEMMA KeysDiffer ==
  ASSUME NEW c \in Channels, NEW d \in Channels
  PROVE  /\ Path(c) \in Keys /\ <<"host", c>> \in Keys /\ HostName(c) \in Keys
         /\ <<"dispatcher">> \in Keys
         /\ Path(c) # <<"host", d>> /\ Path(c) # HostName(d)
         /\ Path(c) # <<"dispatcher">> /\ <<"host", c>> # <<"dispatcher">>
         /\ Path(c) = Path(d) => c = d
         /\ <<"host", c>> = <<"host", d>> => c = d
         /\ Path(c) # <<"/">>
BY DEF Path, HostName, Keys

(* A step that leaves the handlers and the workers alone and changes one   *)
(* channel, which is queued then.                                          *)
LEMMA IMCChangesInv ==
  ASSUME NoneIsNothing, HandlersInv, NEW c \in Channels, IMCChanges(c)
  PROVE  HandlersInv'
<1> USE DEF IMCChanges, HandlersChange
<1>1. PICK l \in SubscriberLists, b \in BOOLEAN :
        imcs' = [imcs EXCEPT ![c] = [subs |-> l, ready |-> b,
                   addressed |-> b \/ (imcs[c] # None /\ imcs[c].addressed)]]
  BY Zenon
<1> DEFINE o == [subs |-> l, ready |-> b, addressed |-> b \/ (imcs[c] # None /\ imcs[c].addressed)]
<1>2. o \in Imc
  <2>1. (b \/ (imcs[c] # None /\ imcs[c].addressed)) \in BOOLEAN
    OBVIOUS
  <2> QED BY <2>1 DEF Imc
<1>3. imcs' \in [Channels -> Imc \cup {None}]
  BY <1>1, <1>2 DEF HandlersInv, HandlersTypeOK
<1>4. \A d \in Channels : imcs'[d] = IF d = c THEN o ELSE imcs[d]
  BY <1>1 DEF HandlersInv, HandlersTypeOK
<1>5. HandlersTypeOK' /\ HostsInv'
  BY <1>3 DEF HandlersInv, HandlersTypeOK, HostsInv, Keys, Path
<1>6. ASSUME NEW d \in Channels PROVE ServedInv(d)'
  BY <1>4 DEF HandlersInv, ServedInv, ServesHost, Path
<1>7. ASSUME NEW d \in Channels PROVE GoneInv(d)'
  <2>1. CASE d = c
    <3>1. o # None
      BY <1>2 DEF NoneIsNothing
    <3>2. o.ready => o.addressed
      BY Zenon
    <3>3. ~ o.addressed => imcs[c] = None \/ ~ imcs[c].addressed
      BY Zenon
    <3> QED BY <1>4, <2>1, <3>1, <3>2, <3>3, Zenon DEF HandlersInv, GoneInv
  <2>2. CASE d # c
    BY <1>4, <2>2, Zenon DEF HandlersInv, GoneInv
  <2> QED BY <2>1, <2>2, SMTT(30)
<1> QED BY <1>5, <1>6, <1>7 DEF HandlersInv

LEMMA IMCDeletedInv ==
  ASSUME NoneIsNothing, HandlersInv, NEW c \in Channels, IMCDeleted(c)
  PROVE  HandlersInv'
<1> USE DEF IMCDeleted, HandlersChange
<1>1. imcs' \in [Channels -> Imc \cup {None}]
      /\ \A d \in Channels : imcs'[d] = IF d = c THEN None ELSE imcs[d]
  BY DEF HandlersInv, HandlersTypeOK
<1>2. handlers' \in [Keys -> HandlerFor("host") \cup HandlerFor("path") \cup {None}]
      /\ \A k \in Keys : handlers'[k] = IF imcs[c].addressed /\ k = HostName(c) THEN None
                                        ELSE handlers[k]
  BY KeysDiffer, Zenon DEF HandlersInv, HandlersTypeOK, deleteFunc
<1>3. \A d \in Channels :
        /\ handlers'[Path(d)] = handlers[Path(d)]
        /\ handlers'[<<"host", d>>] = IF imcs[c].addressed /\ d = c /\ ~strict THEN None
                                      ELSE handlers[<<"host", d>>]
  BY <1>2, KeysDiffer DEF HostName
<1>4. ~strict => handlers'[<<"dispatcher">>] = handlers[<<"dispatcher">>]
  BY <1>2, KeysDiffer, Zenon DEF HostName
<1>5. HandlersTypeOK' /\ HostsInv'
  BY <1>1, <1>2, <1>3, <1>4 DEF HandlersInv, HandlersTypeOK, HostsInv, Keys, Path
<1>6. ASSUME NEW d \in Channels PROVE ServedInv(d)'
  BY <1>1, <1>3 DEF HandlersInv, ServedInv, ServesHost, Path
<1>7. ASSUME NEW d \in Channels PROVE GoneInv(d)'
  <2>1. CASE d = c
    BY <1>1, <1>3, <2>1 DEF HandlersInv, GoneInv, HostsInv
  <2>2. CASE d # c
    BY <1>1, <1>3, <2>2 DEF HandlersInv, GoneInv
  <2> QED BY <2>1, <2>2
<1> QED BY <1>5, <1>6, <1>7 DEF HandlersInv

LEMMA ReconcileStartsInv ==
  ASSUME NoneIsNothing, HandlersInv, NEW c \in Channels, ReconcileStarts(c)
  PROVE  HandlersInv'
<1> USE DEF ReconcileStarts
<1> DEFINE w == [subs |-> imcs[c].subs, at |-> "host"]
<1>1. imcs[c] # None => w \in ImcWork /\ w # None
  BY DEF HandlersInv, HandlersTypeOK, Imc, ImcWork, NoneIsNothing
<1>2. imcWork' \in [Channels -> ImcWork \cup {None}]
      /\ \A d \in Channels : imcWork'[d] = IF d = c /\ imcs[c] # None /\ imcs[c].ready THEN w
                                           ELSE imcWork[d]
  BY <1>1 DEF HandlersInv, HandlersTypeOK
<1>3. HandlersTypeOK' /\ HostsInv'
  BY <1>2 DEF HandlersInv, HandlersTypeOK, HostsInv, Keys, Path
<1>4. ASSUME NEW d \in Channels PROVE ServedInv(d)'
  <2>1. CASE d = c
    BY <1>1, <1>2, <2>1, SMTT(30) DEF HandlersInv, ServedInv, ServesHost, Path
  <2>2. CASE d # c
    BY <1>2, <2>2, SMTT(30) DEF HandlersInv, ServedInv, ServesHost, Path
  <2> QED BY <2>1, <2>2, SMTT(30)
<1>5. ASSUME NEW d \in Channels PROVE GoneInv(d)'
  BY <1>2 DEF HandlersInv, GoneInv
<1> QED BY <1>3, <1>4, <1>5, Zenon DEF HandlersInv

(* What becomes of the handler of a key when a worker sets it.             *)
LEMMA SetHandler ==
  ASSUME NoneIsNothing, HandlersInv, NEW key \in Keys, NEW resolve \in {"host", "path"},
         NEW l \in SubscriberLists, SetChannelHandler(key, resolve, l),
         handlers[key] \in HandlerFor(resolve) \cup {None}
  PROVE  /\ handlers' \in [Keys -> HandlerFor("host") \cup HandlerFor("path") \cup {None}]
         /\ \A k \in Keys : handlers'[k] = IF k = key THEN NewFanoutEventHandler(resolve, l)
                                           ELSE handlers[k]
         /\ NewFanoutEventHandler(resolve, l) \in HandlerFor(resolve)
<1>1. NewFanoutEventHandler(resolve, l) \in HandlerFor(resolve)
  BY DEF NewFanoutEventHandler, HandlerFor
<1>2. handlers[key] # None => SetSubscriptions(handlers[key], l) = NewFanoutEventHandler(resolve, l)
  BY DEF SetSubscriptions, HandlerFor, NewFanoutEventHandler
<1> QED BY <1>1, <1>2 DEF HandlersInv, HandlersTypeOK, SetChannelHandler

LEMMA ReconcileHostInv ==
  ASSUME NoneIsNothing, HandlersInv, NEW c \in Channels, reconcileHost(c)
  PROVE  HandlersInv'
<1> USE DEF reconcileHost
<1> DEFINE l == imcWork[c].subs
           h == NewFanoutEventHandler("host", l)
<1>1. imcWork[c] \in ImcWork /\ l \in SubscriberLists
  BY DEF HandlersInv, HandlersTypeOK, ImcWork
<1>2. handlers[HostName(c)] \in HandlerFor("host") \cup {None} /\ HostName(c) \in Keys
  BY KeysDiffer DEF HandlersInv, HandlersTypeOK, HostName
<1>3. /\ handlers' \in [Keys -> HandlerFor("host") \cup HandlerFor("path") \cup {None}]
      /\ \A k \in Keys : handlers'[k] = IF k = HostName(c) THEN h ELSE handlers[k]
      /\ h \in HandlerFor("host")
  BY <1>1, <1>2, SetHandler
<1>4. /\ \A d \in Channels :
           /\ handlers'[Path(d)] = handlers[Path(d)]
           /\ handlers'[<<"host", d>>] = IF d = c /\ ~strict THEN h ELSE handlers[<<"host", d>>]
      /\ handlers'[<<"dispatcher">>] = IF strict THEN h ELSE handlers[<<"dispatcher">>]
  <2>1. CASE strict
    BY <1>3, <2>1, KeysDiffer, Zenon DEF HostName
  <2>2. CASE ~strict
    BY <1>3, <2>2, KeysDiffer DEF HostName
  <2> QED BY <2>1, <2>2
<1>5. imcWork' \in [Channels -> ImcWork \cup {None}]
      /\ \A d \in Channels : imcWork'[d] = IF d = c THEN [imcWork[c] EXCEPT !.at = "path"]
                                           ELSE imcWork[d]
  <2>1. [imcWork[c] EXCEPT !.at = "path"] \in ImcWork
    BY <1>1 DEF ImcWork
  <2> QED BY <2>1 DEF HandlersInv, HandlersTypeOK
<1>6. imcWork'[c].subs = l /\ imcWork'[c].at = "path" /\ imcWork'[c] # None
  BY <1>1, <1>5 DEF ImcWork, NoneIsNothing
<1>7. HandlersTypeOK' /\ HostsInv'
  <2>1. ASSUME NEW d \in Channels
        PROVE  /\ handlers'[Path(d)] \in HandlerFor("path") \cup {None}
               /\ handlers'[<<"host", d>>] \in HandlerFor("host") \cup {None}
    BY <1>3, <1>4 DEF HandlersInv, HandlersTypeOK
  <2>2. handlers'[<<"dispatcher">>] \in HandlerFor("host") \cup {None}
    BY <1>3, <1>4 DEF HandlersInv, HandlersTypeOK
  <2>3. Keys' = Keys /\ \A d \in Channels : Path(d)' = Path(d)
    BY DEF Keys, Path
  <2>4. HandlersTypeOK'
    BY <1>3, <1>5, <2>1, <2>2, <2>3, Zenon DEF HandlersInv, HandlersTypeOK
  <2>5. HostsInv'
    BY <1>4 DEF HandlersInv, HostsInv
  <2> QED BY <2>4, <2>5
<1>8. ASSUME NEW d \in Channels PROVE ServedInv(d)'
  <2>1. CASE d = c
    BY <1>4, <1>6, <2>1 DEF HandlersInv, ServedInv, ServesHost, Path
  <2>2. CASE d # c
    BY <1>4, <1>5, <2>2 DEF HandlersInv, ServedInv, ServesHost, Path
  <2> QED BY <2>1, <2>2
<1>9. ASSUME NEW d \in Channels PROVE GoneInv(d)'
  <2>1. CASE d = c
    BY <2>1 DEF HandlersInv, GoneInv
  <2>2. CASE d # c
    BY <1>4, <1>5, <2>2 DEF HandlersInv, GoneInv
  <2> QED BY <2>1, <2>2
<1> QED BY <1>7, <1>8, <1>9 DEF HandlersInv

LEMMA ReconcilePathInv ==
  ASSUME NoneIsNothing, HandlersInv, NEW c \in Channels, reconcilePath(c)
  PROVE  HandlersInv'
<1> USE DEF reconcilePath
<1> DEFINE l == imcWork[c].subs
           h == NewFanoutEventHandler("path", l)
<1>1. imcWork[c] \in ImcWork /\ l \in SubscriberLists
  BY DEF HandlersInv, HandlersTypeOK, ImcWork
<1>2. handlers[Path(c)] \in HandlerFor("path") \cup {None} /\ Path(c) \in Keys
  BY KeysDiffer, Zenon DEF HandlersInv, HandlersTypeOK
<1>3. /\ handlers' \in [Keys -> HandlerFor("host") \cup HandlerFor("path") \cup {None}]
      /\ \A k \in Keys : handlers'[k] = IF k = Path(c) THEN h ELSE handlers[k]
      /\ h \in HandlerFor("path")
  BY <1>1, <1>2, SetHandler
<1>4. /\ \A d \in Channels :
           /\ handlers'[Path(d)] = IF d = c THEN h ELSE handlers[Path(d)]
           /\ handlers'[<<"host", d>>] = handlers[<<"host", d>>]
      /\ handlers'[<<"dispatcher">>] = handlers[<<"dispatcher">>]
  BY <1>3, KeysDiffer, Zenon
<1>5. imcWork' \in [Channels -> ImcWork \cup {None}]
      /\ \A d \in Channels : imcWork'[d] = IF d = c THEN None ELSE imcWork[d]
  BY DEF HandlersInv, HandlersTypeOK
<1>6. HandlersTypeOK' /\ HostsInv'
  BY <1>3, <1>4, <1>5 DEF HandlersInv, HandlersTypeOK, HostsInv, Keys, Path
<1>7. ASSUME NEW d \in Channels PROVE ServedInv(d)'
  <2>1. CASE d = c
    BY <1>4, <1>5, <2>1, SMTT(30) DEF HandlersInv, ServedInv, ServesHost, Path
  <2>2. CASE d # c
    BY <1>4, <1>5, <2>2, SMTT(30) DEF HandlersInv, ServedInv, ServesHost, Path
  <2> QED BY <2>1, <2>2, SMTT(30)
<1>8. ASSUME NEW d \in Channels PROVE GoneInv(d)'
  BY <1>4, <1>5 DEF HandlersInv, GoneInv
<1> QED BY <1>6, <1>7, <1>8 DEF HandlersInv

LEMMA HandlersInitInv == ASSUME ChannelHandlersInit PROVE HandlersInv
<1> USE DEF ChannelHandlersInit
<1>1. <<"dispatcher">> \in Keys
      /\ \A c \in Channels : Path(c) \in Keys /\ <<"host", c>> \in Keys
  BY DEF Keys, Path
<1>2. HandlersTypeOK /\ HostsInv
  BY <1>1, Zenon DEF HandlersTypeOK, HostsInv
<1>3. ASSUME NEW c \in Channels PROVE ServedInv(c) /\ GoneInv(c)
  BY <1>1 DEF ServedInv, GoneInv
<1> QED BY <1>2, <1>3 DEF HandlersInv

LEMMA HandlersNewControllerInv ==
  ASSUME HandlersInv, HandlersNewController
  PROVE  HandlersInv'
<1> USE DEF HandlersNewController
<1>1. HandlersTypeOK' /\ HostsInv'
  BY KeysDiffer, SMTT(30) DEF HandlersInv, HandlersTypeOK, HostsInv, Keys, Path
<1>2. ASSUME NEW d \in Channels PROVE ServedInv(d)' /\ GoneInv(d)'
  BY KeysDiffer DEF HandlersInv, ServedInv, GoneInv
<1> QED BY <1>1, <1>2, SMTT(30) DEF HandlersInv

LEMMA HandlersStepInv ==
  ASSUME NoneIsNothing, HandlersInv, [ChannelHandlersNext]_channelHandlerVars
  PROVE  HandlersInv'
<1>1. ASSUME NEW c \in Channels,
             \/ IMCChanges(c) \/ IMCDeleted(c)
             \/ ReconcileStarts(c) \/ reconcileHost(c) \/ reconcilePath(c)
      PROVE  HandlersInv'
  BY <1>1, IMCChangesInv, IMCDeletedInv, ReconcileStartsInv, ReconcileHostInv, ReconcilePathInv
<1>2. CASE HandlersNewController
  BY <1>2, HandlersNewControllerInv, SMTT(30)
<1>3. CASE IsReady \/ ChannelsIdle \/ UNCHANGED channelHandlerVars
  <2>1. UNCHANGED <<strict, oidc, imcs, imcQueue, imcWork, handlers, outlived>>
    BY <1>3 DEF IsReady, ChannelsIdle, channelHandlerVars
  <2> QED BY <2>1 DEF HandlersInv, HandlersTypeOK, HostsInv, ServedInv, ServesHost, GoneInv,
                      Keys, Path
<1> QED BY <1>1, <1>2, <1>3 DEF ChannelHandlersNext

LEMMA ServedWhenSettled == ASSUME NoneIsNothing, HandlersInv PROVE ChannelsAreServed
<1>1. SUFFICES ASSUME HandlersSettled, NEW c \in Channels
               PROVE  /\ c \in readyChannels =>
                           /\ HandlersServeHTTP(ByPath(c)) = Answer(202, imcs[c].subs)
                           /\ ~strict => HandlersServeHTTP(ByHost(c)) = Answer(202, imcs[c].subs)
                      /\ imcs[c] = None =>
                           /\ oidc => HandlersServeHTTP(ByPath(c)).status = 500
                           /\ ~strict /\ c \notin outlived =>
                                HandlersServeHTTP(ByHost(c)).status = 500
  BY DEF ChannelsAreServed
<1>2. c # None /\ imcWork[c] = None /\ c \notin imcQueue
  BY <1>1 DEF HandlersSettled, NoneIsNothing
<1>3. HandlersServeHTTP(ByPath(c)) =
        IF handlers[Path(c)] = None THEN Answer(500, None)
        ELSE Receive(handlers[Path(c)], ByPath(c))
  BY KeysDiffer, Zenon DEF HandlersServeHTTP, ByPath
<1>4. HandlersServeHTTP(ByHost(c)) =
        IF handlers[HostName(c)] = None THEN Answer(500, None)
        ELSE Receive(handlers[HostName(c)], ByHost(c))
  BY DEF HandlersServeHTTP, ByHost
<1>5. handlers[Path(c)] # None =>
        Receive(handlers[Path(c)], ByPath(c)) =
          IF oidc /\ imcs[c] = None THEN Answer(500, None) ELSE Answer(202, handlers[Path(c)].subs)
  <2>1. handlers[Path(c)] # None => handlers[Path(c)].resolve = "path"
    BY DEF HandlersInv, HandlersTypeOK, HandlerFor
  <2>2. ParseChannelFromPath(ByPath(c).path) = c
    BY SMTT(30) DEF ParseChannelFromPath, ByPath, Path
  <2> QED BY <1>2, <2>1, <2>2 DEF Receive, getAppliedEventPolicyRef
<1>6. ~strict /\ handlers[HostName(c)] # None =>
        Receive(handlers[HostName(c)], ByHost(c)) =
          IF oidc /\ imcs[c] = None THEN Answer(500, None)
          ELSE Answer(202, handlers[HostName(c)].subs)
  <2>1. ~strict /\ handlers[HostName(c)] # None => handlers[HostName(c)].resolve = "host"
    BY DEF HandlersInv, HandlersTypeOK, HandlerFor, HostName
  <2>2. ~strict => ParseChannelFromHost(ByHost(c).host) = c
    BY KeysDiffer, SMTT(30) DEF ParseChannelFromHost, ByHost, HostName
  <2> QED BY <1>2, <2>1, <2>2 DEF Receive, getAppliedEventPolicyRef
<1>7. ASSUME c \in readyChannels
      PROVE  /\ HandlersServeHTTP(ByPath(c)) = Answer(202, imcs[c].subs)
             /\ ~strict => HandlersServeHTTP(ByHost(c)) = Answer(202, imcs[c].subs)
  <2>1. /\ imcs[c] # None
        /\ handlers[Path(c)] = NewFanoutEventHandler("path", imcs[c].subs)
        /\ ~strict => handlers[HostName(c)] = NewFanoutEventHandler("host", imcs[c].subs)
    BY <1>2, <1>7, SMTT(30) DEF HandlersInv, ServedInv, ServesHost, readyChannels, HostName
  <2>2. NewFanoutEventHandler("path", imcs[c].subs) \in HandlerFor("path")
        /\ NewFanoutEventHandler("host", imcs[c].subs) \in HandlerFor("host")
    BY <2>1 DEF HandlersInv, HandlersTypeOK, Imc, NewFanoutEventHandler, HandlerFor
  <2>3. NewFanoutEventHandler("path", imcs[c].subs) # None
        /\ NewFanoutEventHandler("host", imcs[c].subs) # None
    BY <2>2 DEF NoneIsNothing
  <2>4. NewFanoutEventHandler("path", imcs[c].subs).subs = imcs[c].subs
        /\ NewFanoutEventHandler("host", imcs[c].subs).subs = imcs[c].subs
    BY SMTT(30) DEF NewFanoutEventHandler
  <2> QED BY <1>3, <1>4, <1>5, <1>6, <2>1, <2>3, <2>4, SMTT(30)
<1>8. ASSUME imcs[c] = None
      PROVE  /\ oidc => HandlersServeHTTP(ByPath(c)).status = 500
             /\ ~strict /\ c \notin outlived => HandlersServeHTTP(ByHost(c)).status = 500
  <2>1. Answer(500, None).status = 500
    BY DEF Answer
  <2>2. ~strict /\ c \notin outlived => handlers[HostName(c)] = None
    BY <1>8 DEF HandlersInv, GoneInv, HostName
  <2> QED BY <1>3, <1>4, <1>5, <1>8, <2>1, <2>2
<1> QED BY <1>7, <1>8

(* For any number of channels and changes: when everything was reconciled, *)
(* the dispatcher serves the channels that are ready, each with its own    *)
(* subscribers, and refuses events for the hosts of those that are gone,   *)
(* unless a handler outlived its channel.                                  *)
THEOREM ChannelsStayServed == ASSUME NoneIsNothing PROVE ChannelHandlersSpec => []ChannelsAreServed
<1>1. ChannelHandlersInit => HandlersInv
  BY HandlersInitInv
<1>2. HandlersInv /\ [ChannelHandlersNext]_channelHandlerVars => HandlersInv'
  BY HandlersStepInv
<1>3. HandlersInv => ChannelsAreServed
  BY ServedWhenSettled
<1> QED BY <1>1, <1>2, <1>3, PTL DEF ChannelHandlersSpec

-----------------------------------------------------------------------------
(* The keys that the channels of C have handlers under.                    *)
KeysOf(C) == {HostName(c) : c \in C} \cup {Path(c) : c \in C}

LEMMA TwoKeysEach ==
  ASSUME NEW C, IsFiniteSet(C)
  PROVE  IsFiniteSet(KeysOf(C)) /\ Cardinality(KeysOf(C)) <= 2 * Cardinality(C)
<1> DEFINE H == {HostName(c) : c \in C}
           P == {Path(c) : c \in C}
           h == [c \in C |-> HostName(c)]
           p == [c \in C |-> Path(c)]
<1>1. h \in Surjection(C, H) /\ p \in Surjection(C, P)
  BY DEF Surjection
<1>2. /\ IsFiniteSet(H) /\ Cardinality(H) <= Cardinality(C)
      /\ IsFiniteSet(P) /\ Cardinality(P) <= Cardinality(C)
  BY <1>1, FS_Surjection
<1>3. /\ IsFiniteSet(H \cup P)
      /\ Cardinality(H \cup P) = Cardinality(H) + Cardinality(P) - Cardinality(H \cap P)
  BY <1>2, FS_Union
<1>4. IsFiniteSet(H \cap P)
  BY <1>2, FS_Subset
<1>5. /\ Cardinality(C) \in Nat /\ Cardinality(H) \in Nat /\ Cardinality(P) \in Nat
      /\ Cardinality(H \cap P) \in Nat
  BY <1>2, <1>4, FS_CardinalityType
<1>6. KeysOf(C) = H \cup P
  BY DEF KeysOf
<1> HIDE DEF H, P
<1> QED BY <1>2, <1>3, <1>5, <1>6

(* Without a handler of another channel, there are enough of them only if  *)
(* none is missing.                                                        *)
LEMMA NoneMissing ==
  ASSUME IsFiniteSet(Channels), HandlersInv, EnoughHandlers,
         \A c \in Channels \ readyChannels : handlers[Path(c)] = None /\ handlers[HostName(c)] = None
  PROVE  \A c \in readyChannels : handlers[HostName(c)] # None /\ handlers[Path(c)] # None
<1> DEFINE K == {k \in Keys : handlers[k] # None}
           S == KeysOf(readyChannels)
<1>1. IsFiniteSet(readyChannels) /\ Cardinality(readyChannels) \in Nat
  <2>1. readyChannels \in SUBSET Channels
    BY DEF readyChannels
  <2> QED BY <2>1, FS_Subset, FS_CardinalityType
<1>2. CASE readyChannels = {}
  BY <1>2
<1>3. CASE readyChannels # {}
  <2>1. ASSUME NEW k \in K PROVE k \in S
    <3>1. CASE k = <<"dispatcher">>
      <4>1. strict
        BY <2>1, <3>1 DEF HandlersInv, HostsInv
      <4> QED BY <1>3, <3>1, <4>1 DEF KeysOf, HostName
    <3>2. ASSUME NEW c \in Channels, k = <<"host", c>> PROVE k \in S
      <4>1. ~strict
        BY <2>1, <3>2 DEF HandlersInv, HostsInv
      <4>2. k = HostName(c)
        BY <3>2, <4>1 DEF HostName
      <4> QED BY <2>1, <4>2 DEF KeysOf
    <3>3. ASSUME NEW c \in Channels, k = <<"path", c>> PROVE k \in S
      BY <2>1, <3>3 DEF KeysOf, Path
    <3> QED BY <3>1, <3>2, <3>3 DEF Keys
  <2>2. K \in SUBSET S
    BY <2>1
  <2>3. IsFiniteSet(S) /\ Cardinality(S) <= 2 * Cardinality(readyChannels)
    BY <1>1, TwoKeysEach
  <2>4. /\ IsFiniteSet(K) /\ Cardinality(K) <= Cardinality(S)
        /\ Cardinality(S) = Cardinality(K) => S = K
    BY <2>2, <2>3, FS_Subset
  <2>5. Cardinality(K) \in Nat /\ Cardinality(S) \in Nat
    BY <2>3, <2>4, FS_CardinalityType
  <2>6. Cardinality(K) >= 2 * Cardinality(readyChannels)
    BY DEF EnoughHandlers, CountChannelHandlers
  <2>7. Cardinality(S) = Cardinality(K)
    <3> HIDE DEF K, S
    <3> QED BY <1>1, <2>3, <2>4, <2>5, <2>6
  <2> QED BY <2>4, <2>7 DEF KeysOf
<1> QED BY <1>2, <1>3

(* The readiness probe is right for any number of channels and changes,    *)
(* and in both modes of encryption: by counting handlers alone, as long as *)
(* no channel that is not ready has one.                                   *)
THEOREM ReadyMeansServed ==
  ASSUME NoneIsNothing, IsFiniteSet(Channels)
  PROVE  ChannelHandlersSpec => ReadyWhenServed
<1>1. ChannelHandlersInit => HandlersInv
  BY HandlersInitInv
<1>2. HandlersInv /\ [ChannelHandlersNext]_channelHandlerVars => HandlersInv'
  BY HandlersStepInv
<1> DEFINE Right ==
      ~dispatcherReady /\ dispatcherReady' =>
        \/ \A c \in readyChannels : handlers[HostName(c)] # None /\ handlers[Path(c)] # None
        \/ \E c \in Channels \ readyChannels :
             handlers[Path(c)] # None \/ handlers[HostName(c)] # None
<1>3. HandlersInv /\ [ChannelHandlersNext]_channelHandlerVars => [Right]_channelHandlerVars
  <2> SUFFICES ASSUME HandlersInv, ChannelHandlersNext, ~dispatcherReady, dispatcherReady'
               PROVE  Right
    BY DEF channelHandlerVars
  <2>1. IsReady
    BY Zenon DEF ChannelHandlersNext, IMCChanges, IMCDeleted, HandlersChange, ReconcileStarts,
           reconcileHost, reconcilePath, HandlersNewController, ChannelsIdle, channelHandlerVars
  <2>2. EnoughHandlers
    BY <2>1 DEF IsReady
  <2> QED BY <2>2, NoneMissing, SMTT(30)
<1> QED BY <1>1, <1>2, <1>3, PTL DEF ChannelHandlersSpec, ReadyWhenServed

===============================================================================
