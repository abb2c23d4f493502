----------------------------- MODULE ChannelProofs -----------------------------
(***************************************************************************)
(* Theorems about the list of a channel's subscribers and about what the   *)
(* conditions of a subscription say of it, for any number of               *)
(* subscriptions, generations, failures and restarts.                      *)
(***************************************************************************)
EXTENDS ChannelSystem, WellFoundedInduction, TLAPS

Fields == {"spec", "status", "ready"}

SubTypeOK ==
  /\ sub \in [Subs -> Subscription]
  /\ DOMAIN channel = Fields /\ DOMAIN lister = Fields
  /\ channel.spec \in Seq(Subscriber) /\ lister.spec \in Seq(Subscriber)

Distinct(list) == \A i, j \in DOMAIN list : list[i].uid = list[j].uid => i = j

\* The subscription o can be on a list: it was created, and if it is still there
\* it has its finalizer.
Listable(o) == o.phase # "new" /\ (o.phase \in {"live", "deleting"} => o.finalizer)

Prepared(list, subs) == \A i \in DOMAIN list : Listable(subs[list[i].uid])

\* The inductive invariant of the lists.  The next list is made from the
\* lister's, so the lister's has to be as good as the channel's.
ListInv ==
  /\ SubTypeOK
  /\ Distinct(channel.spec) /\ Distinct(lister.spec)
  /\ Prepared(channel.spec, sub) /\ Prepared(lister.spec, sub)

-----------------------------------------------------------------------------
(***************************************************************************)
(* What the two functions that make a new list return.                     *)
(***************************************************************************)

Less == {x \in Nat \X Nat : x[1] < x[2]}

LEMMA LessIsWellFounded == IsWellFoundedOn(Less, Nat)
  BY NatLessThanWellFounded DEF OpToRel, Less

LEMMA LessMeaning == ASSUME NEW x \in Nat, NEW y \in Nat PROVE <<y, x>> \in Less <=> y < x
  BY DEF Less

\* The smallest of a set of natural numbers is one of them.
LEMMA MinIsMember == ASSUME NEW S \in SUBSET Nat, S # {} PROVE Min(S) \in S
<1>1. PICK x \in S : \A y \in S : ~ (<<y, x>> \in Less)
  BY LessIsWellFounded, WFMin, Zenon
<1>2. ASSUME NEW y \in S PROVE x <= y
  <2>1. x \in Nat /\ y \in Nat
    OBVIOUS
  <2>2. ~ (y < x)
    BY <1>1, <2>1, LessMeaning, Zenon
  <2> QED BY <2>1, <2>2
<1> QED BY <1>2, Zenon DEF Min

LEMMA AddKeepsList ==
  ASSUME NEW list \in Seq(Subscriber), Distinct(list), NEW s \in Subs, NEW g \in Gens
  PROVE  LET new == updateChannelAddSubscriptionSpec(list, s, g)
         IN /\ new \in Seq(Subscriber)
            /\ Distinct(new)
            /\ \A i \in DOMAIN new :
                 new[i].uid = s \/ \E j \in DOMAIN list : new[i].uid = list[j].uid
            /\ new = list =>
                 \E i \in DOMAIN list : list[i] = [uid |-> s, gen |-> g]
<1> DEFINE new == updateChannelAddSubscriptionSpec(list, s, g)
           e == [uid |-> s, gen |-> g]
<1>0. e \in Subscriber /\ e.uid = s
  BY DEF Subscriber
<1>1. CASE Has(list, s)
  <2>1. /\ new = [i \in DOMAIN list |->
                    IF list[i].uid = s THEN e ELSE list[i]]
    BY <1>1 DEF updateChannelAddSubscriptionSpec
  <2>2. ASSUME NEW i \in DOMAIN list PROVE new[i] \in Subscriber /\ new[i].uid = list[i].uid
    <3>1. new[i] = IF list[i].uid = s THEN e ELSE list[i]
      BY <2>1
    <3>2. list[i] \in Subscriber
      OBVIOUS
    <3> HIDE DEF new, e
    <3> QED BY <1>0, <3>1, <3>2
  <2>3. new \in Seq(Subscriber) /\ DOMAIN new = DOMAIN list
    BY <2>1, <2>2
  <2>4. PICK i \in DOMAIN list : list[i].uid = s
    BY <1>1 DEF Has
  <2>5. new[i] = e
    BY <2>1, <2>4 DEF Subscriber
  <2>6. Distinct(new)
    BY <2>2, <2>3 DEF Distinct
  <2> HIDE DEF new
  <2> QED BY <2>2, <2>3, <2>4, <2>5, <2>6 DEF new
<1>2. CASE ~ Has(list, s)
  <2>1. new = Append(list, e)
    BY <1>2 DEF updateChannelAddSubscriptionSpec
  <2>2. \A i \in DOMAIN list : list[i].uid # s
    BY <1>2 DEF Has
  <2> HIDE DEF new, e
  <2>3. /\ new \in Seq(Subscriber) /\ Len(list) \in Nat
        /\ DOMAIN list = 1..Len(list) /\ DOMAIN new = 1..(Len(list) + 1)
        /\ \A i \in 1..Len(list) : new[i] = list[i]
        /\ new[Len(list) + 1] = e
    BY <1>0, <2>1
  <2>4. new # list
    BY <2>3
  <2>5. Distinct(new)
    BY <1>0, <2>2, <2>3 DEF Distinct
  <2> QED BY <1>0, <2>3, <2>4, <2>5 DEF new
<1> QED BY <1>1, <1>2

LEMMA RemoveKeepsList ==
  ASSUME NEW list \in Seq(Subscriber), Distinct(list), NEW s \in Subs
  PROVE  LET new == updateChannelRemoveSubscription(list, s)
         IN /\ new \in Seq(Subscriber)
            /\ Distinct(new)
            /\ \A i \in DOMAIN new : \E j \in DOMAIN list : new[i] = list[j]
<1> DEFINE new == updateChannelRemoveSubscription(list, s)
           I == {i \in DOMAIN list : list[i].uid = s}
           k == Min(I)
<1>1. CASE Has(list, s)
  <2>1. I \in SUBSET Nat /\ I # {}
    BY <1>1 DEF Has
  <2>2. k \in I
    BY <2>1, MinIsMember, Zenon
  <2>3. k \in 1..Len(list) /\ Len(list) \in Nat
    BY <2>2
  <2> DEFINE front == SubSeq(list, 1, k - 1)
             back == SubSeq(list, k + 1, Len(list))
  <2>4. new = front \o back
    BY <1>1, Zenon DEF updateChannelRemoveSubscription
  <2> HIDE DEF new, k, I
  <2>10. /\ front \in Seq(Subscriber) /\ Len(front) = k - 1
         /\ \A i \in 1..(k - 1) : front[i] = list[i]
    BY <2>3
  <2>11. /\ back \in Seq(Subscriber) /\ Len(back) = Len(list) - k
         /\ \A i \in 1..(Len(list) - k) : back[i] = list[i + k]
    BY <2>3
  <2> HIDE DEF front, back
  <2>5. new \in Seq(Subscriber)
    BY <2>4, <2>10, <2>11
  <2>6. DOMAIN new = 1..(Len(list) - 1)
    BY <2>3, <2>4, <2>10, <2>11
  <2>7. ASSUME NEW i \in DOMAIN new PROVE new[i] = IF i < k THEN list[i] ELSE list[i + 1]
    <3>1. new[i] = IF i <= k - 1 THEN front[i] ELSE back[i - (k - 1)]
      BY <2>3, <2>4, <2>6, <2>10, <2>11
    <3>2. CASE i < k
      BY <2>3, <2>6, <2>10, <3>1, <3>2
    <3>3. CASE i >= k
      <4>1. i - (k - 1) \in 1..(Len(list) - k) /\ i - (k - 1) + k = i + 1 /\ ~ (i <= k - 1)
        BY <2>3, <2>6, <3>3
      <4>2. new[i] = back[i - (k - 1)]
        BY <3>1, <4>1
      <4>3. back[i - (k - 1)] = list[i - (k - 1) + k]
        BY <2>11, <4>1
      <4> QED BY <2>3, <2>6, <3>3, <4>1, <4>2, <4>3
    <3> QED BY <2>3, <2>6, <3>2, <3>3
  <2> DEFINE old(i) == IF i < k THEN i ELSE i + 1
  <2>12. ASSUME NEW i \in DOMAIN new PROVE old(i) \in DOMAIN list /\ new[i] = list[old(i)]
    BY <2>3, <2>6, <2>7
  <2>13. ASSUME NEW i \in DOMAIN new, NEW j \in DOMAIN new, old(i) = old(j) PROVE i = j
    BY <2>3, <2>6, <2>13
  <2> HIDE DEF old
  <2>8. Distinct(new)
    BY <2>12, <2>13 DEF Distinct
  <2>9. \A i \in DOMAIN new : \E j \in DOMAIN list : new[i] = list[j]
    BY <2>12
  <2> QED BY <2>5, <2>8, <2>9 DEF new
<1>2. CASE ~ Has(list, s)
  <2>1. new = list
    BY <1>2 DEF updateChannelRemoveSubscription
  <2> QED BY <2>1
<1> QED BY <1>1, <1>2

-----------------------------------------------------------------------------
(***************************************************************************)
(* The lists.                                                              *)
(***************************************************************************)

\* A step that writes o as the subscription s.
LEMMA WriteSub ==
  ASSUME ListInv, NEW s \in Subs, NEW o \in Subscription, sub' = [sub EXCEPT ![s] = o],
         Listable(sub[s]) => Listable(o)
  PROVE  /\ sub' \in [Subs -> Subscription]
         /\ \A q \in Subs : Listable(sub[q]) => Listable(sub'[q])
         /\ sub'[s] = o
<1>1. \A q \in Subs : sub'[q] = IF q = s THEN o ELSE sub[q]
  BY DEF ListInv, SubTypeOK
<1>2. sub' \in [Subs -> Subscription]
  BY DEF ListInv, SubTypeOK
<1> QED BY <1>1, <1>2

\* A list whose subscriptions could be listed before a step is as good after it.
LEMMA ListStays ==
  ASSUME NEW list \in Seq(Subscriber), Prepared(list, sub),
         \A q \in Subs : Listable(sub[q]) => Listable(sub'[q])
  PROVE  Prepared(list, sub')
<1>1. ASSUME NEW i \in DOMAIN list PROVE list[i].uid \in Subs
  <2>1. list[i] \in Subscriber
    OBVIOUS
  <2> QED BY <2>1 DEF Subscriber
<1> QED BY <1>1 DEF Prepared

\* What a step has to do for the invariant.
LEMMA ListStep ==
  ASSUME ListInv, sub' \in [Subs -> Subscription],
         \A q \in Subs : Listable(sub[q]) => Listable(sub'[q]),
         DOMAIN channel' = Fields, DOMAIN lister' = Fields,
         lister'.spec = lister.spec \/ lister'.spec = channel.spec,
         \/ channel'.spec = channel.spec
         \/ channel'.spec \in Seq(Subscriber) /\ Distinct(channel'.spec)
               /\ Prepared(channel'.spec, sub')
  PROVE  ListInv'
<1>1. /\ channel.spec \in Seq(Subscriber) /\ Prepared(channel.spec, sub)
      /\ lister.spec \in Seq(Subscriber) /\ Prepared(lister.spec, sub)
  BY DEF ListInv, SubTypeOK
<1>2. Prepared(channel.spec, sub') /\ Prepared(lister.spec, sub')
  BY <1>1, ListStays
<1>3. SubTypeOK'
  BY <1>1 DEF SubTypeOK
<1>4. Prepared(channel'.spec, sub') /\ Prepared(lister'.spec, sub')
  BY <1>2
<1>5. Distinct(channel'.spec) /\ Distinct(lister'.spec)
  BY DEF ListInv
<1> QED BY <1>3, <1>4, <1>5 DEF ListInv

\* A write of the channel leaves the list of subscribers alone, or replaces it.
LEMMA WriteSpec ==
  ASSUME ListInv, NEW list, patchSubscription(list)
  PROVE  DOMAIN channel' = Fields /\ (channel'.spec = channel.spec \/ channel'.spec = list)
  BY DEF ListInv, SubTypeOK, Fields, patchSubscription, WriteChannel, channelVars

\* The list with s in it, once s has its finalizer.
LEMMA AddStep ==
  ASSUME ListInv, NEW s \in Subs, NEW g \in Gens, UNCHANGED lister,
         sub' \in [Subs -> Subscription],
         \A q \in Subs : Listable(sub[q]) => Listable(sub'[q]), Listable(sub'[s]),
         patchSubscription(updateChannelAddSubscriptionSpec(lister.spec, s, g))
  PROVE  ListInv'
<1> DEFINE new == updateChannelAddSubscriptionSpec(lister.spec, s, g)
<1>1. lister.spec \in Seq(Subscriber) /\ Distinct(lister.spec) /\ Prepared(lister.spec, sub)
  BY DEF ListInv, SubTypeOK
<1>2. /\ new \in Seq(Subscriber) /\ Distinct(new)
      /\ \A i \in DOMAIN new :
           new[i].uid = s \/ \E j \in DOMAIN lister.spec : new[i].uid = lister.spec[j].uid
  BY <1>1, AddKeepsList, Zenon
<1>3. DOMAIN channel' = Fields /\ (channel'.spec = channel.spec \/ channel'.spec = new)
  BY WriteSpec
<1> HIDE DEF new
<1>4. Prepared(lister.spec, sub')
  BY <1>1, ListStays
<1>5. Prepared(new, sub')
  BY <1>2, <1>4 DEF Prepared
<1>6. DOMAIN lister' = Fields
  BY DEF ListInv, SubTypeOK
<1> QED BY <1>2, <1>3, <1>5, <1>6, ListStep

LEMMA RemoveStep ==
  ASSUME ListInv, NEW s \in Subs, UNCHANGED lister,
         sub' \in [Subs -> Subscription],
         \A q \in Subs : Listable(sub[q]) => Listable(sub'[q]),
         patchSubscription(updateChannelRemoveSubscription(lister.spec, s))
  PROVE  ListInv'
<1> DEFINE new == updateChannelRemoveSubscription(lister.spec, s)
<1>1. lister.spec \in Seq(Subscriber) /\ Distinct(lister.spec) /\ Prepared(lister.spec, sub)
  BY DEF ListInv, SubTypeOK
<1>2. /\ new \in Seq(Subscriber) /\ Distinct(new)
      /\ \A i \in DOMAIN new : \E j \in DOMAIN lister.spec : new[i] = lister.spec[j]
  BY <1>1, RemoveKeepsList
<1>3. DOMAIN channel' = Fields /\ (channel'.spec = channel.spec \/ channel'.spec = new)
  BY WriteSpec
<1> HIDE DEF new
<1>4. Prepared(lister.spec, sub')
  BY <1>1, ListStays
<1>5. Prepared(new, sub')
  BY <1>2, <1>4 DEF Prepared
<1>6. DOMAIN lister' = Fields
  BY DEF ListInv, SubTypeOK
<1> QED BY <1>2, <1>3, <1>5, <1>6, ListStep

LEMMA ListInitInv == Init => ListInv
<1> SUFFICES ASSUME Init PROVE ListInv
  OBVIOUS
<1>1. sub \in [Subs -> Subscription]
  <2>1. NewSubscription \in Subscription
    BY ChannelAssumption DEF NewSubscription, Subscription, Gens
  <2> QED BY <2>1 DEF Init, SubscriptionInit
<1>2. channel.spec = <<>> /\ lister.spec = <<>> /\ DOMAIN channel = Fields /\ DOMAIN lister = Fields
  BY DEF Init, SubscriptionInit, Fields
<1> QED BY <1>1, <1>2 DEF ListInv, SubTypeOK, Distinct, Prepared

LEMMA GoneType == GoneSubscription \in Subscription /\ GoneSubscription.phase = "gone"
<1>1. 1 \in Gens /\ 0 \in 0..MaxGen
  BY ChannelAssumption DEF Gens
<1>2. NewSubscription \in Subscription
  BY <1>1 DEF NewSubscription, Subscription
<1> HIDE DEF NewSubscription
<1>3. /\ [NewSubscription EXCEPT !.phase = "gone"] \in Subscription
      /\ [NewSubscription EXCEPT !.phase = "gone"].phase = "gone"
  BY <1>2 DEF Subscription
<1> QED BY <1>3 DEF GoneSubscription

LEMMA UserStepInv == ASSUME ListInv, NEW s \in Subs, UserStep(s) PROVE ListInv'
<1>0. sub[s] \in Subscription
  BY DEF ListInv, SubTypeOK
<1>1. PICK o \in Subscription :
        sub' = [sub EXCEPT ![s] = o] /\ (Listable(sub[s]) => Listable(o))
  <2>1. CASE Create(s)
    <3> DEFINE o == [sub[s] EXCEPT !.phase = "live"]
    <3>1. o \in Subscription
      BY <1>0 DEF Subscription
    <3>2. sub' = [sub EXCEPT ![s] = o]
      BY <2>1 DEF Create
    <3>3. ~ Listable(sub[s])
      BY <2>1 DEF Create, Listable
    <3> HIDE DEF o
    <3> QED BY <3>1, <3>2, <3>3, Zenon
  <2>2. CASE UpdateSpec(s)
    <3> DEFINE o == [sub[s] EXCEPT !.gen = sub[s].gen + 1]
    <3>0. sub[s].gen \in Gens /\ sub[s].gen + 1 \in Gens
      <4>1. sub[s].gen \in 1..MaxGen
        BY <1>0 DEF Subscription, Gens
      <4> QED BY <2>2, <4>1, ChannelAssumption DEF UpdateSpec, Gens
    <3>1. o \in Subscription /\ o.phase = sub[s].phase /\ o.finalizer = sub[s].finalizer
      BY <1>0, <3>0 DEF Subscription
    <3>2. sub' = [sub EXCEPT ![s] = o]
      BY <2>2 DEF UpdateSpec
    <3> HIDE DEF o
    <3> QED BY <3>1, <3>2, Zenon DEF Listable
  <2>3. CASE Delete(s)
    <3> DEFINE o == IF sub[s].finalizer THEN [sub[s] EXCEPT !.phase = "deleting"]
                    ELSE GoneSubscription
    <3>1. GoneSubscription \in Subscription /\ GoneSubscription.phase = "gone"
      BY GoneType
    <3>2. CASE sub[s].finalizer
      <4>1. o \in Subscription /\ Listable(o)
        BY <1>0, <3>2 DEF Subscription, Listable
      <4>2. sub' = [sub EXCEPT ![s] = o]
        BY <2>3 DEF Delete
      <4> HIDE DEF o
      <4> QED BY <4>1, <4>2, Zenon
    <3>3. CASE ~ sub[s].finalizer
      <4>1. o \in Subscription /\ Listable(o)
        BY <3>1, <3>3 DEF Listable
      <4>2. sub' = [sub EXCEPT ![s] = o]
        BY <2>3 DEF Delete
      <4> HIDE DEF o
      <4> QED BY <4>1, <4>2, Zenon
    <3> QED BY <3>2, <3>3
  <2> QED BY <2>1, <2>2, <2>3 DEF UserStep
<1>2. UNCHANGED <<channel, lister>>
  BY DEF UserStep, Create, UpdateSpec, Delete, channelVars
<1>3. DOMAIN channel' = Fields /\ DOMAIN lister' = Fields
  BY <1>2 DEF ListInv, SubTypeOK
<1> QED BY <1>1, <1>2, <1>3, WriteSub, ListStep, Zenon

\* A status that is written with the finalizer.
LEMMA Finalized ==
  ASSUME NEW o \in Subscription, o.phase = "live"
  PROVE  setFinalizerIfFinalizer(o) \in Subscription /\ Listable(setFinalizerIfFinalizer(o))
<1>1. /\ setFinalizerIfFinalizer(o) = [o EXCEPT !.finalizer = TRUE]
  BY DEF setFinalizerIfFinalizer
<1>2. [o EXCEPT !.finalizer = TRUE] \in Subscription /\ [o EXCEPT !.finalizer = TRUE].finalizer
      /\ [o EXCEPT !.finalizer = TRUE].phase = "live"
  BY Zenon DEF Subscription
<1> QED BY <1>1, <1>2 DEF Listable

LEMMA ReconcileInv == ASSUME ListInv, NEW s \in Subs, ReconcileKind(s) PROVE ListInv'
<1> DEFINE list == updateChannelAddSubscriptionSpec(lister.spec, s, sub[s].gen)
           ready == IF list # lister.spec THEN sub[s].ready
                    ELSE IF getSubStatus(lister, s, sub[s].gen) THEN "True" ELSE "Unknown"
           written == [sub[s] EXCEPT !.added = "True", !.ready = ready, !.observed = sub[s].gen]
<1>0. sub[s] \in Subscription /\ sub[s].phase = "live" /\ sub[s].gen \in Gens
  <2>1. sub[s] \in Subscription
    BY DEF ListInv, SubTypeOK
  <2> QED BY <2>1 DEF ReconcileKind, Take, Subscription
<1>1. ready \in {"Unknown", "True"} /\ sub[s].gen \in 0..MaxGen
  BY <1>0, ChannelAssumption DEF Subscription, Gens
<1>2. patchSubscription(list) /\ UNCHANGED lister
  BY DEF ReconcileKind
<1>3. \/ sub' = [sub EXCEPT ![s] = setFinalizerIfFinalizer(written)]
      \/ sub' = [sub EXCEPT ![s] = setFinalizerIfFinalizer(sub[s])]
  BY DEF ReconcileKind, updateStatus, updateStatusFails
<1> HIDE DEF ready, list
<1>4. written \in Subscription /\ written.phase = "live"
  BY <1>0, <1>1, Zenon DEF Subscription
<1> HIDE DEF written
<1>5. PICK o \in Subscription : Listable(o) /\ sub' = [sub EXCEPT ![s] = o]
  BY <1>0, <1>3, <1>4, Finalized
<1> QED BY <1>0, <1>2, <1>5, WriteSub, AddStep, Zenon DEF list

LEMMA OtherReconcileInv ==
  ASSUME ListInv, NEW s \in Subs, Forget(s) \/ SyncFails(s) \/ ResolveFails(s)
  PROVE  ListInv'
<1>0. sub[s] \in Subscription
  BY DEF ListInv, SubTypeOK
<1>1. UNCHANGED <<channel, lister>> /\ DOMAIN channel' = Fields /\ DOMAIN lister' = Fields
  BY DEF ListInv, SubTypeOK, Forget, SyncFails, ResolveFails, channelVars
<1>2. CASE Forget(s)
  <2>1. sub' = sub
    BY <1>2 DEF Forget
  <2> QED BY <1>1, <2>1, ListStep DEF ListInv, SubTypeOK
<1>3. ASSUME NEW o \in Subscription, o.phase = "live",
             sub' = [sub EXCEPT ![s] = setFinalizerIfFinalizer(o)]
      PROVE  ListInv'
  BY <1>1, <1>3, Finalized, WriteSub, ListStep, Zenon
<1>4. sub[s].gen \in 0..MaxGen
  BY <1>0, ChannelAssumption DEF Subscription, Gens
<1>5. CASE SyncFails(s)
  <2> DEFINE o == [sub[s] EXCEPT !.added = "False", !.observed = sub[s].gen]
  <2>1. o \in Subscription /\ o.phase = "live"
    BY <1>0, <1>4, <1>5, Zenon DEF Subscription, SyncFails, Take
  <2>2. sub' = [sub EXCEPT ![s] = setFinalizerIfFinalizer(o)]
    BY <1>5 DEF SyncFails, updateStatus
  <2> HIDE DEF o
  <2> QED BY <1>3, <2>1, <2>2, Zenon
<1>6. CASE ResolveFails(s)
  <2> DEFINE o == [sub[s] EXCEPT !.observed = sub[s].gen]
  <2>1. o \in Subscription /\ o.phase = "live"
    BY <1>0, <1>4, <1>6 DEF Subscription, ResolveFails, Take
  <2>2. sub' = [sub EXCEPT ![s] = setFinalizerIfFinalizer(o)]
    BY <1>6 DEF ResolveFails
  <2> HIDE DEF o
  <2> QED BY <1>3, <2>1, <2>2, Zenon
<1> QED BY <1>2, <1>5, <1>6

LEMMA FinalizeInv ==
  ASSUME ListInv, NEW s \in Subs, FinalizeKind(s) \/ FinalizeFails(s) PROVE ListInv'
<1>0. sub[s] \in Subscription /\ sub[s].phase = "deleting"
  <2>1. sub[s] \in Subscription
    BY DEF ListInv, SubTypeOK
  <2> QED BY <2>1 DEF FinalizeKind, FinalizeFails, Take
<1>1. UNCHANGED lister /\ DOMAIN lister' = Fields
  BY DEF ListInv, SubTypeOK, FinalizeKind, FinalizeFails
<1>2. CASE FinalizeKind(s)
  <2>1. sub' \in [Subs -> Subscription] /\ \A q \in Subs : Listable(sub[q]) => Listable(sub'[q])
    <3>1. GoneSubscription \in Subscription /\ Listable(GoneSubscription)
      BY GoneType DEF Listable
    <3>2. sub' = sub \/ sub' = [sub EXCEPT ![s] = GoneSubscription]
      BY <1>2 DEF FinalizeKind, clearFinalizer
    <3>3. sub \in [Subs -> Subscription]
      BY DEF ListInv, SubTypeOK
    <3> QED BY <3>1, <3>2, <3>3, WriteSub
  <2>2. CASE sub[s].added = "True"
    BY <1>1, <1>2, <2>1, <2>2, RemoveStep DEF FinalizeKind
  <2>3. CASE sub[s].added # "True"
    <3>1. UNCHANGED channel
      BY <1>2, <2>3 DEF FinalizeKind, channelVars
    <3> QED BY <1>1, <2>1, <3>1, ListStep DEF ListInv, SubTypeOK
  <2> QED BY <2>2, <2>3
<1>3. CASE FinalizeFails(s)
  <2> DEFINE o == [sub[s] EXCEPT !.added = "False"]
  <2>1. /\ o \in Subscription /\ o.phase = "deleting" /\ o.finalizer = sub[s].finalizer
    BY <1>0 DEF Subscription
  <2>2. sub' = [sub EXCEPT ![s] = setFinalizerIfFinalizer(o)] /\ UNCHANGED channel
    BY <1>3 DEF FinalizeFails, updateStatus, channelVars
  <2> HIDE DEF o
  <2>3. sub' = [sub EXCEPT ![s] = o]
    BY <2>1, <2>2 DEF setFinalizerIfFinalizer
  <2>4. Listable(sub[s]) => Listable(o)
    BY <1>0, <2>1 DEF Listable
  <2> QED BY <1>1, <2>1, <2>2, <2>3, <2>4, WriteSub, ListStep DEF ListInv, SubTypeOK
<1> QED BY <1>2, <1>3

LEMMA ListStepInv == ASSUME ListInv, [Next]_vars PROVE ListInv'
<1>0. sub \in [Subs -> Subscription] /\ DOMAIN channel = Fields /\ DOMAIN lister = Fields
  BY DEF ListInv, SubTypeOK
<1>1. ASSUME UNCHANGED sub, lister' = lister \/ lister' = channel, DOMAIN channel' = Fields,
             channel'.spec = channel.spec
      PROVE  ListInv'
  BY <1>0, <1>1, ListStep
<1>2. ASSUME NEW c, WriteChannel(c), DOMAIN c = Fields, c.spec = channel.spec
      PROVE  DOMAIN channel' = Fields /\ channel'.spec = channel.spec
  BY <1>2 DEF WriteChannel
<1>3. CASE SubscriptionInformer
  BY <1>0, <1>1, <1>3 DEF SubscriptionInformer, ObserveChannel
<1>4. CASE Restart
  BY <1>0, <1>1, <1>4 DEF Restart, RestartController, RestartDispatcher, subscriptionVars
<1>5. CASE DispatcherStep
  <2>1. UNCHANGED <<sub, lister>>
    BY <1>5 DEF DispatcherStep, subscriptionVars
  <2>2. DOMAIN channel' = Fields /\ channel'.spec = channel.spec
    <3>1. CASE ReconcileIMC
      <4>1. CASE UNCHANGED channelVars
        BY <1>0, <4>1 DEF channelVars
      <4>2. ASSUME NEW list, WriteChannel([channel EXCEPT !.status = list])
            PROVE  DOMAIN channel' = Fields /\ channel'.spec = channel.spec
        <5>1. /\ DOMAIN [channel EXCEPT !.status = list] = Fields
              /\ [channel EXCEPT !.status = list].spec = channel.spec
          BY <1>0 DEF Fields
        <5> QED BY <1>2, <4>2, <5>1, Zenon
      <4> QED BY <3>1, <4>1, <4>2 DEF ReconcileIMC, patchSubscriberStatus
    <3>2. CASE ObserveIMC \/ ReconcileIMCFails
      BY <1>0, <3>2 DEF ObserveIMC, ReconcileIMCFails, channelVars
    <3> QED BY <1>5, <3>1, <3>2 DEF DispatcherStep
  <2> QED BY <1>1, <2>1, <2>2
<1>6. CASE ControllerStep
  <2> DEFINE c == [channel EXCEPT !.status = <<>>, !.ready = TRUE]
  <2>1. DOMAIN c = Fields /\ c.spec = channel.spec
    BY <1>0 DEF Fields
  <2>2. WriteChannel(c) /\ UNCHANGED <<sub, lister>>
    BY <1>6 DEF ControllerStep, ControllerWrites, subscriptionVars
  <2> HIDE DEF c
  <2> QED BY <1>1, <1>2, <2>1, <2>2
<1>7. CASE UNCHANGED vars
  BY <1>0, <1>1, <1>7 DEF vars, channelVars, subscriptionVars
<1>8. ASSUME NEW s \in Subs, Reconcile(s) \/ ReconcileFails(s) PROVE ListInv'
  BY <1>8, ReconcileInv, OtherReconcileInv, FinalizeInv DEF Reconcile, ReconcileFails
<1> QED BY <1>3, <1>4, <1>5, <1>6, <1>7, <1>8, UserStepInv DEF Next

\* No subscription is twice among the channel's subscribers
\* (updateChannelAddSubscriptionSpec), however old the lister's channel is from
\* which the merge patches are made.
THEOREM SpecIsAlwaysSet == Spec => []SpecIsSet
<1>1. ListInv => SpecIsSet
  BY DEF ListInv, SpecIsSet, Distinct
<1> QED BY <1>1, ListInitInv, ListStepInv, PTL DEF Spec

\* A subscription has its finalizer before it is on the channel's list, so that
\* none is deleted without FinalizeKind.
THEOREM FinalizersComeFirst == Spec => []FinalizerComesFirst
<1>1. ListInv => FinalizerComesFirst
  <2> SUFFICES ASSUME ListInv, NEW s \in Subs, Has(channel.spec, s), Exists(s)
               PROVE  sub[s].finalizer
    BY DEF FinalizerComesFirst
  <2>1. PICK i \in DOMAIN channel.spec : channel.spec[i].uid = s
    BY DEF Has
  <2>2. Listable(sub[s])
    BY <2>1 DEF ListInv, Prepared
  <2> QED BY <2>2 DEF Listable, Exists
<1> QED BY <1>1, ListInitInv, ListStepInv, PTL DEF Spec

-----------------------------------------------------------------------------
(***************************************************************************)
(* The conditions.                                                         *)
(***************************************************************************)

On(list, s, g) == \E i \in DOMAIN list : list[i] = [uid |-> s, gen |-> g]

\* What the conditions of the subscription o say is so in the channel c.
TrueOf(o, s, c) ==
  o.added = "True" => On(c.spec, s, o.gen) /\ (o.ready = "True" => On(c.status, s, o.gen))

\* The inductive invariant of the conditions.  They are true of the channel that
\* the reconciler sees, or it will look again: the key is in the queue, or the
\* channel's news are on their way and will put it there.
NoticeInv ==
  /\ "reconciler" \notin news => lister = channel
  /\ \A s \in Subs : Live(s) /\ s \notin queued =>
       s \in tracked /\ ("reconciler" \in news \/ TrueOf(sub[s], s, lister))

\* A write of the channel is news to the reconciler if it changes anything.
LEMMA WriteIsNews ==
  ASSUME NEW c, WriteChannel(c)
  PROVE  \/ "reconciler" \in news'
         \/ news' = news /\ channel' = channel
  BY DEF WriteChannel, Informers

\* A step of the others.
LEMMA OthersNotice ==
  ASSUME NoticeInv, UNCHANGED <<sub, lister, queued, tracked>>,
         \/ "reconciler" \in news'
         \/ channel' = channel /\ ("reconciler" \in news => "reconciler" \in news')
  PROVE  NoticeInv'
  BY DEF NoticeInv, Live

\* A step of the reconciler for s.
LEMMA ReconcilerNotices ==
  ASSUME ListInv, NoticeInv, NEW s \in Subs, NEW o, sub' = [sub EXCEPT ![s] = o],
         UNCHANGED lister, queued \ {s} \subseteq queued', tracked \ {s} \subseteq tracked',
         "reconciler" \in news' \/ (news' = news /\ channel' = channel),
         o.phase = "live" /\ s \notin queued' =>
           s \in tracked' /\ ("reconciler" \in news' \/ TrueOf(o, s, lister))
  PROVE  NoticeInv'
<1>1. \A q \in Subs : sub'[q] = IF q = s THEN o ELSE sub[q]
  BY DEF ListInv, SubTypeOK
<1> QED BY <1>1 DEF NoticeInv, Live

LEMMA ReconcileNotices ==
  ASSUME ListInv, NoticeInv, NEW s \in Subs, ReconcileKind(s) PROVE NoticeInv'
<1> DEFINE list == updateChannelAddSubscriptionSpec(lister.spec, s, sub[s].gen)
           ready == IF list # lister.spec THEN sub[s].ready
                    ELSE IF getSubStatus(lister, s, sub[s].gen) THEN "True" ELSE "Unknown"
           written == [sub[s] EXCEPT !.added = "True", !.ready = ready, !.observed = sub[s].gen]
<1>0. sub[s] \in Subscription /\ sub[s].phase = "live" /\ sub[s].gen \in Gens
  <2>1. sub[s] \in Subscription
    BY DEF ListInv, SubTypeOK
  <2> QED BY <2>1 DEF ReconcileKind, Take, Subscription
<1>1. patchSubscription(list) /\ UNCHANGED lister /\ tracked' = tracked \union {s} /\ s \in queued
  BY DEF ReconcileKind, Take
<1>2. "reconciler" \in news' \/ (news' = news /\ channel' = channel)
  BY <1>1, WriteIsNews DEF patchSubscription, channelVars
<1>3. list # lister.spec => "reconciler" \in news'
  <2> SUFFICES ASSUME list # lister.spec, "reconciler" \notin news' PROVE FALSE
    OBVIOUS
  <2>1. WriteChannel([channel EXCEPT !.spec = list]) /\ news' = news /\ channel' = channel
    BY <1>1, <1>2 DEF patchSubscription
  <2>2. lister = channel
    BY <2>1 DEF NoticeInv
  <2>3. channel'.spec = list
    BY <2>1 DEF WriteChannel, ListInv, SubTypeOK, Fields
  <2> QED BY <2>1, <2>2, <2>3
<1>4. list = lister.spec => On(lister.spec, s, sub[s].gen)
  <2>1. lister.spec \in Seq(Subscriber) /\ Distinct(lister.spec)
    BY DEF ListInv, SubTypeOK
  <2> QED BY <1>0, <2>1, AddKeepsList DEF On
<1>5. list = lister.spec /\ ready = "True" => On(lister.status, s, sub[s].gen)
  BY DEF getSubStatus, On
<1> HIDE DEF list
<1>6. CASE updateStatus(s, written)
  <2> DEFINE o == setFinalizerIfFinalizer(written)
  <2>1. queued' = IF written = sub[s] THEN queued \ {s} ELSE queued
    BY <1>6 DEF updateStatus
  <2>2. sub' = [sub EXCEPT ![s] = o]
    BY <1>6 DEF updateStatus
  <2>3. written.gen = sub[s].gen /\ written.ready = ready /\ written \in Subscription
    <3>1. ready \in {"Unknown", "True"} /\ sub[s].gen \in 0..MaxGen
      BY <1>0, ChannelAssumption DEF Subscription, Gens
    <3> HIDE DEF ready
    <3> QED BY <1>0, <3>1, Zenon DEF Subscription
  <2> HIDE DEF written, ready
  <2>4. o.gen = sub[s].gen /\ o.ready = ready
    BY <2>3 DEF setFinalizerIfFinalizer, Subscription
  <2> HIDE DEF o
  <2>5. TrueOf(o, s, lister) \/ "reconciler" \in news'
    BY <1>3, <1>4, <1>5, <2>4 DEF TrueOf
  <2> QED BY <1>1, <1>2, <2>1, <2>2, <2>5, ReconcilerNotices, Zenon
<1>7. CASE updateStatusFails(s)
  <2>1. sub' = [sub EXCEPT ![s] = setFinalizerIfFinalizer(sub[s])] /\ UNCHANGED queued
    BY <1>7 DEF updateStatusFails
  <2> QED BY <1>1, <1>2, <2>1, ReconcilerNotices, Zenon
<1> QED BY <1>6, <1>7 DEF ReconcileKind, list

LEMMA NoticeStepInv == ASSUME ListInv, NoticeInv, [Next]_vars PROVE NoticeInv'
<1>1. ASSUME NEW s \in Subs, UserStep(s) PROVE NoticeInv'
  <2>1. /\ queued' = queued \union {s} /\ UNCHANGED <<channel, news, lister, tracked>>
        /\ \A q \in Subs \ {s} : sub'[q] = sub[q]
    BY <1>1 DEF UserStep, Create, UpdateSpec, Delete, channelVars, ListInv, SubTypeOK
  <2> QED BY <2>1 DEF NoticeInv, Live
<1>2. ASSUME NEW s \in Subs, Forget(s) PROVE NoticeInv'
  BY <1>2 DEF Forget, Take, NoticeInv, Live, channelVars
<1>3. ASSUME NEW s \in Subs, SyncFails(s) PROVE NoticeInv'
  <2> DEFINE w == [sub[s] EXCEPT !.added = "False", !.observed = sub[s].gen]
             o == setFinalizerIfFinalizer(w)
  <2>1. sub' = [sub EXCEPT ![s] = o] /\ queued \ {s} \subseteq queued'
    BY <1>3 DEF SyncFails, updateStatus
  <2>2. o.added = "False"
    <3>1. sub[s] \in Subscription
      BY DEF ListInv, SubTypeOK
    <3>2. w.added = "False" /\ DOMAIN w = DOMAIN sub[s]
      BY <3>1 DEF Subscription
    <3> HIDE DEF w
    <3> QED BY <3>1, <3>2 DEF setFinalizerIfFinalizer, Subscription
  <2>3. UNCHANGED <<news, channel, lister>> /\ tracked' = tracked \union {s}
    BY <1>3 DEF SyncFails, channelVars
  <2> HIDE DEF o
  <2> QED BY <2>1, <2>2, <2>3, ReconcilerNotices, Zenon DEF TrueOf
<1>4. ASSUME NEW s \in Subs, ResolveFails(s) PROVE NoticeInv'
  <2>1. PICK o : sub' = [sub EXCEPT ![s] = o]
    BY <1>4, Zenon DEF ResolveFails
  <2>2. /\ UNCHANGED <<news, channel, lister, queued>> /\ tracked' = tracked \union {s}
        /\ s \in queued
    BY <1>4 DEF ResolveFails, channelVars, Take
  <2> QED BY <2>1, <2>2, ReconcilerNotices, Zenon
<1>5. ASSUME NEW s \in Subs, FinalizeKind(s) PROVE NoticeInv'
  <2>1. "reconciler" \in news' \/ (news' = news /\ channel' = channel)
    BY <1>5, WriteIsNews DEF FinalizeKind, patchSubscription, channelVars
  <2>2. /\ UNCHANGED lister /\ sub[s].phase = "deleting"
        /\ tracked \ {s} \subseteq tracked' /\ queued \ {s} \subseteq queued'
    BY <1>5 DEF FinalizeKind, clearFinalizer, Take
  <2>3. PICK o : sub' = [sub EXCEPT ![s] = o] /\ o.phase # "live"
    <3>1. CASE sub' = sub
      <4>1. sub' = [sub EXCEPT ![s] = sub[s]]
        BY <3>1 DEF ListInv, SubTypeOK
      <4> QED BY <2>2, <4>1, Zenon
    <3>2. CASE sub' = [sub EXCEPT ![s] = GoneSubscription]
      BY <3>2, GoneType, Zenon
    <3> QED BY <1>5, <3>1, <3>2 DEF FinalizeKind, clearFinalizer
  <2> QED BY <2>1, <2>2, <2>3, ReconcilerNotices, Zenon
<1>6. ASSUME NEW s \in Subs, FinalizeFails(s) PROVE NoticeInv'
  <2> DEFINE w == [sub[s] EXCEPT !.added = "False"]
             o == setFinalizerIfFinalizer(w)
  <2>1. sub' = [sub EXCEPT ![s] = o] /\ queued \ {s} \subseteq queued'
    BY <1>6 DEF FinalizeFails, updateStatus
  <2>2. o.phase = "deleting"
    <3>1. sub[s] \in Subscription
      BY DEF ListInv, SubTypeOK
    <3>2. w.phase = "deleting"
      BY <1>6, <3>1 DEF Subscription, FinalizeFails, Take
    <3> QED BY <3>2 DEF setFinalizerIfFinalizer
  <2>3. UNCHANGED <<news, channel, lister, tracked>>
    BY <1>6 DEF FinalizeFails, channelVars
  <2> HIDE DEF o
  <2> QED BY <2>1, <2>2, <2>3, ReconcilerNotices, Zenon
<1>7. CASE SubscriptionInformer
  BY <1>7 DEF SubscriptionInformer, ObserveChannel, Hear, NoticeInv, Live
<1>8. CASE Restart
  <2>1. CASE RestartController
    BY <2>1 DEF RestartController, NoticeInv, Live, Exists
  <2>2. CASE RestartDispatcher /\ UNCHANGED subscriptionVars
    BY <2>2, OthersNotice DEF RestartDispatcher, subscriptionVars
  <2> QED BY <1>8, <2>1, <2>2 DEF Restart
<1>9. CASE DispatcherStep
  <2>1. CASE ObserveIMC
    BY <1>9, <2>1, OthersNotice DEF DispatcherStep, ObserveIMC, Hear, subscriptionVars
  <2>2. CASE ReconcileIMC
    <3>1. "reconciler" \in news' \/ (news' = news /\ channel' = channel)
      BY <2>2, WriteIsNews DEF ReconcileIMC, patchSubscriberStatus, channelVars
    <3> QED BY <1>9, <3>1, OthersNotice DEF DispatcherStep, subscriptionVars
  <2>3. CASE ReconcileIMCFails
    BY <1>9, <2>3, OthersNotice DEF DispatcherStep, ReconcileIMCFails, channelVars, subscriptionVars
  <2> QED BY <1>9, <2>1, <2>2, <2>3 DEF DispatcherStep
<1>10. CASE ControllerStep
  <2>1. "reconciler" \in news' \/ (news' = news /\ channel' = channel)
    BY <1>10, WriteIsNews DEF ControllerStep, ControllerWrites
  <2> QED BY <1>10, <2>1, OthersNotice DEF ControllerStep, subscriptionVars
<1>11. CASE UNCHANGED vars
  BY <1>11, OthersNotice DEF vars, channelVars, subscriptionVars
<1> QED BY <1>1, <1>2, <1>3, <1>4, <1>5, <1>6, <1>7, <1>8, <1>9, <1>10, <1>11, ReconcileNotices
        DEF Next, Reconcile, ReconcileFails

-----------------------------------------------------------------------------
(***************************************************************************)
(* The dispatcher, and the types of everything.                            *)
(***************************************************************************)

\* Of two lengths, Min gives the smaller one.
LEMMA MinOfTwo ==
  ASSUME NEW a \in Nat, NEW b \in Nat
  PROVE  Min({a, b}) = IF a <= b THEN a ELSE b
<1>1. Min({a, b}) \in {a, b}
  BY MinIsMember
<1>2. \E x \in {a, b} : \A z \in {a, b} : x <= z
  OBVIOUS
<1>3. \A z \in {a, b} : Min({a, b}) <= z
  BY <1>2 DEF Min
<1> QED BY <1>1, <1>3

\* A patch that applies makes a list of subscribers of any list.
LEMMA PatchIsList ==
  ASSUME NEW old \in Seq(Subscriber), NEW new \in Seq(Subscriber), NEW list \in Seq(Subscriber)
  PROVE  JSONPatch(old, new, list) \in Seq(Subscriber)
<1> DEFINE n == Min({Len(old), Len(new)})
           m == Min({n, Len(list)})
           front == SubSeq(list, 1, m)
           middle == SubSeq(new, n + 1, Len(new))
           back == SubSeq(list, Len(old) + 1, Len(list))
           grown == front \o middle \o back
           replaced(i) == [uid |-> IF old[i].uid = new[i].uid THEN grown[i].uid ELSE new[i].uid,
                           gen |-> IF old[i].gen = new[i].gen THEN grown[i].gen ELSE new[i].gen]
           patched == [i \in DOMAIN grown |-> IF i <= n THEN replaced(i) ELSE grown[i]]
<1>1. n \in Nat /\ n <= Len(old) /\ n <= Len(new)
  BY MinOfTwo
<1> HIDE DEF n
<1>2. m \in Nat /\ m <= Len(list)
  BY <1>1, MinOfTwo
<1> HIDE DEF m
<1>3. front \in Seq(Subscriber) /\ middle \in Seq(Subscriber) /\ back \in Seq(Subscriber)
  BY <1>1, <1>2
<1> HIDE DEF front, middle, back
<1>4. grown \in Seq(Subscriber)
  BY <1>3
<1> HIDE DEF grown
<1>5. ASSUME NEW i \in DOMAIN grown PROVE patched[i] \in Subscriber
  <2>1. grown[i] \in Subscriber /\ i \in Nat \ {0}
    BY <1>4
  <2>2. CASE i <= n
    <3>1. new[i] \in Subscriber
      BY <1>1, <2>1, <2>2
    <3>2. replaced(i) \in Subscriber
      BY <2>1, <3>1 DEF Subscriber
    <3> QED BY <2>2, <3>2
  <2> QED BY <2>1, <2>2
<1>6. patched \in Seq(Subscriber)
  <2>1. DOMAIN grown = 1..Len(grown) /\ Len(grown) \in Nat
    BY <1>4
  <2> HIDE DEF patched
  <2>2. DOMAIN patched = 1..Len(grown) /\ patched = [i \in 1..Len(grown) |-> patched[i]]
    BY <2>1 DEF patched
  <2> QED BY <1>5, <2>1, <2>2
<1>7. PatchList(old, new, list) = patched
  BY DEF PatchList, patched, grown, front, middle, back, m, n
<1> QED BY <1>6, <1>7 DEF JSONPatch

\* A patch that is applied to the list it was made from makes the new list.
LEMMA PatchIsRight ==
  ASSUME NEW old \in Seq(Subscriber), NEW new \in Seq(Subscriber)
  PROVE  JSONPatch(old, new, old) = new
<1> DEFINE n == Min({Len(old), Len(new)})
           m == Min({n, Len(old)})
           front == SubSeq(old, 1, m)
           middle == SubSeq(new, n + 1, Len(new))
           back == SubSeq(old, Len(old) + 1, Len(old))
           grown == front \o middle \o back
           replaced(i) == [uid |-> IF old[i].uid = new[i].uid THEN grown[i].uid ELSE new[i].uid,
                           gen |-> IF old[i].gen = new[i].gen THEN grown[i].gen ELSE new[i].gen]
           patched == [i \in DOMAIN grown |-> IF i <= n THEN replaced(i) ELSE grown[i]]
<1>1. n \in Nat /\ n <= Len(old) /\ n <= Len(new)
  BY MinOfTwo
<1> HIDE DEF n
<1>2. m = n
  BY <1>1, MinOfTwo
<1> HIDE DEF m
<1>3. /\ front \in Seq(Subscriber) /\ Len(front) = n
      /\ \A i \in 1..n : front[i] = old[i]
  BY <1>1, <1>2
<1>4. /\ middle \in Seq(Subscriber) /\ Len(middle) = Len(new) - n
      /\ \A i \in 1..(Len(new) - n) : middle[i] = new[i + n]
  BY <1>1
<1>5. back = <<>>
  OBVIOUS
<1> HIDE DEF front, middle, back
<1>6. /\ grown \in Seq(Subscriber) /\ Len(grown) = Len(new)
      /\ \A i \in 1..Len(new) : grown[i] = IF i <= n THEN front[i] ELSE middle[i - n]
  BY <1>1, <1>3, <1>4, <1>5, SMTT(30)
<1> HIDE DEF grown
<1>7. ASSUME NEW i \in 1..Len(new) PROVE patched[i] = new[i]
  <2>1. i \in DOMAIN grown /\ new[i] \in Subscriber
    BY <1>6
  <2>2. CASE i <= n
    <3>1. grown[i] = old[i] /\ old[i] \in Subscriber
      BY <1>1, <1>3, <1>6, <2>2
    <3>2. replaced(i) = [uid |-> new[i].uid, gen |-> new[i].gen]
      BY <3>1
    <3>3. new[i] = [uid |-> new[i].uid, gen |-> new[i].gen]
      BY <2>1 DEF Subscriber
    <3> QED BY <2>1, <2>2, <3>2, <3>3
  <2>3. CASE ~ (i <= n)
    <3>1. i - n \in 1..(Len(new) - n) /\ (i - n) + n = i
      BY <1>1, <2>3
    <3>2. grown[i] = new[i]
      BY <1>4, <1>6, <2>3, <3>1
    <3> QED BY <2>1, <2>3, <3>2
  <2> QED BY <2>2, <2>3
<1>8. DOMAIN patched = 1..Len(new)
  BY <1>6
<1>9. patched = new
  <2> HIDE DEF patched
  <2>1. patched = [i \in DOMAIN patched |-> patched[i]]
    BY DEF patched
  <2>2. new = [i \in 1..Len(new) |-> new[i]]
    BY SMTT(30)
  <2> QED BY <1>7, <1>8, <2>1, <2>2
<1>10. PatchList(old, new, old) = patched
  BY DEF PatchList, patched, grown, front, middle, back, m, n
<1> QED BY <1>9, <1>10 DEF JSONPatch

\* A write of a channel's status keeps its type.
LEMMA WriteType ==
  ASSUME channel \in Channel, news \subseteq Informers, NEW c \in Channel, WriteChannel(c)
  PROVE  channel' \in Channel /\ news' \subseteq Informers
  BY DEF WriteChannel

LEMMA PatchSpecType ==
  ASSUME channel \in Channel, news \subseteq Informers, NEW list \in Seq(Subscriber),
         patchSubscription(list)
  PROVE  channel' \in Channel /\ news' \subseteq Informers
<1>1. [channel EXCEPT !.spec = list] \in Channel
  BY SMTT(30) DEF Channel
<1> QED BY <1>1, WriteType DEF patchSubscription, channelVars

LEMMA PatchStatusType ==
  ASSUME channel \in Channel, imc \in Channel, news \subseteq Informers, patchSubscriberStatus
  PROVE  channel' \in Channel /\ news' \subseteq Informers
<1> DEFINE new == JSONPatch(imc.status, imc.spec, channel.status)
<1>1. imc.status \in Seq(Subscriber) /\ imc.spec \in Seq(Subscriber)
      /\ channel.status \in Seq(Subscriber)
  BY DEF Channel
<1>2. new \in Seq(Subscriber)
  BY <1>1, PatchIsList
<1>3. UNCHANGED channelVars \/ WriteChannel([channel EXCEPT !.status = new])
  BY DEF patchSubscriberStatus
<1> HIDE DEF new
<1>4. [channel EXCEPT !.status = new] \in Channel
  BY <1>2, Zenon DEF Channel
<1> QED BY <1>3, <1>4, WriteType DEF channelVars

LEMMA TypeInit == Init => TypeOK
<1> SUFFICES ASSUME Init PROVE TypeOK
  OBVIOUS
<1>1. channel \in Channel /\ imc = channel /\ lister = channel
  BY DEF Init, SubscriptionInit, DispatcherInit, Channel
<1>2. sub \in [Subs -> Subscription]
  BY ListInitInv DEF ListInv, SubTypeOK
<1>3. faults \in 0..MaxFaults
  BY ChannelAssumption DEF Init
<1> QED BY <1>1, <1>2, <1>3 DEF Init, SubscriptionInit, DispatcherInit, TypeOK,
          SubscriptionTypeOK, DispatcherTypeOK

LEMMA TypeStep == ASSUME ListInv, ListInv', TypeOK, [Next]_vars PROVE TypeOK'
<1> USE DEF TypeOK, SubscriptionTypeOK, DispatcherTypeOK
<1>0. sub' \in [Subs -> Subscription]
  BY DEF ListInv, SubTypeOK
<1>1. ASSUME NEW kind, Fault(kind) PROVE faults' \in 0..MaxFaults
  BY <1>1, ChannelAssumption DEF Fault
<1>2. CASE UNCHANGED vars
  BY <1>2 DEF vars, channelVars, subscriptionVars, dispatcherVars
<1>3. ASSUME NEW s \in Subs, UserStep(s) PROVE TypeOK'
  BY <1>0, <1>3 DEF UserStep, Create, UpdateSpec, Delete, channelVars, dispatcherVars
<1>4. ASSUME NEW s \in Subs, Reconcile(s) PROVE TypeOK'
  <2>1. CASE Forget(s)
    BY <1>0, <1>4, <2>1 DEF Reconcile, Forget, channelVars, dispatcherVars
  <2>2. CASE ReconcileKind(s)
    <3> DEFINE list == updateChannelAddSubscriptionSpec(lister.spec, s, sub[s].gen)
    <3>1. lister.spec \in Seq(Subscriber) /\ Distinct(lister.spec) /\ sub[s].gen \in Gens
      <4>1. sub[s] \in Subscription
        OBVIOUS
      <4> QED BY <4>1 DEF ListInv, SubTypeOK, Subscription
    <3>2. list \in Seq(Subscriber)
      BY <3>1, AddKeepsList
    <3>3. patchSubscription(list)
      BY <2>2 DEF ReconcileKind
    <3> HIDE DEF list
    <3>4. channel' \in Channel /\ news' \subseteq Informers
      BY <3>2, <3>3, PatchSpecType
    <3>5. /\ tracked' \subseteq Subs /\ queued' \subseteq Subs /\ faults' \in 0..MaxFaults
          /\ UNCHANGED lister
      BY <1>1, <2>2 DEF ReconcileKind, updateStatus, updateStatusFails
    <3> QED BY <1>0, <1>4, <3>4, <3>5, SMTT(30) DEF Reconcile, dispatcherVars
  <2>3. CASE FinalizeKind(s)
    <3> DEFINE list == updateChannelRemoveSubscription(lister.spec, s)
    <3>1. lister.spec \in Seq(Subscriber) /\ Distinct(lister.spec)
      BY DEF ListInv, SubTypeOK
    <3>2. list \in Seq(Subscriber)
      BY <3>1, RemoveKeepsList
    <3>3. patchSubscription(list) \/ UNCHANGED channelVars
      BY <2>3 DEF FinalizeKind
    <3> HIDE DEF list
    <3>4. channel' \in Channel /\ news' \subseteq Informers
      BY <3>2, <3>3, PatchSpecType DEF channelVars
    <3>5. /\ tracked' \subseteq Subs /\ queued' \subseteq Subs /\ faults' \in 0..MaxFaults
          /\ UNCHANGED lister
      BY <1>1, <2>3 DEF FinalizeKind, clearFinalizer
    <3> QED BY <1>0, <1>4, <3>4, <3>5 DEF Reconcile, dispatcherVars
  <2> QED BY <1>4, <2>1, <2>2, <2>3 DEF Reconcile
<1>5. ASSUME NEW s \in Subs, ReconcileFails(s) PROVE TypeOK'
  <2>1. /\ tracked' \subseteq Subs /\ queued' \subseteq Subs /\ faults' \in 0..MaxFaults
        /\ UNCHANGED <<channel, news, lister>>
    BY <1>1, <1>5 DEF ReconcileFails, SyncFails, ResolveFails, FinalizeFails, updateStatus, channelVars
  <2> QED BY <1>0, <1>5, <2>1 DEF ReconcileFails, dispatcherVars
<1>6. CASE SubscriptionInformer
  BY <1>0, <1>6 DEF SubscriptionInformer, ObserveChannel, Hear, dispatcherVars
<1>7. CASE Restart
  <2>1. CASE RestartController /\ UNCHANGED dispatcherVars
    BY <1>0, <1>1, <2>1 DEF RestartController, dispatcherVars
  <2>2. CASE RestartDispatcher /\ UNCHANGED subscriptionVars
    BY <1>0, <1>1, <2>2 DEF RestartDispatcher, subscriptionVars
  <2> QED BY <1>7, <2>1, <2>2 DEF Restart
<1>8. CASE DispatcherStep
  <2>0. imc.spec \in Seq(Subscriber)
    BY DEF Channel
  <2>1. CASE ObserveIMC
    BY <1>0, <1>8, <2>1 DEF DispatcherStep, ObserveIMC, Hear, subscriptionVars
  <2>2. CASE ReconcileIMC
    <3>1. channel' \in Channel /\ news' \subseteq Informers
      BY <2>2, PatchStatusType DEF ReconcileIMC
    <3> QED BY <1>0, <1>8, <2>0, <2>2, <3>1, Zenon DEF DispatcherStep, ReconcileIMC, reconcile, subscriptionVars
  <2>3. CASE ReconcileIMCFails
    BY <1>0, <1>1, <1>8, <2>0, <2>3
       DEF DispatcherStep, ReconcileIMCFails, reconcile, subscriptionVars, channelVars
  <2> QED BY <1>8, <2>1, <2>2, <2>3 DEF DispatcherStep
<1>9. CASE ControllerStep
  <2>0. \A e \in Seq(Subscriber) : [channel EXCEPT !.status = e, !.ready = TRUE] \in Channel
    BY Zenon DEF Channel
  <2>3. <<>> \in Seq(Subscriber)
    OBVIOUS
  <2>1. [channel EXCEPT !.status = <<>>, !.ready = TRUE] \in Channel
    BY <2>0, <2>3, Zenon
  <2>2. channel' \in Channel /\ news' \subseteq Informers
    BY <1>9, <2>1, WriteType DEF ControllerStep, ControllerWrites
  <2> QED BY <1>0, <1>9, <2>2 DEF ControllerStep, ControllerWrites, subscriptionVars
<1> QED BY <1>2, <1>3, <1>4, <1>5, <1>6, <1>7, <1>8, <1>9, SMTT(30) DEF Next

\* Everything keeps its type; in particular what the dispatcher's JSON patches
\* make of a status that has changed since they were computed is a list of
\* subscribers again (patchSubscriberStatus).
THEOREM ChannelTypeCorrect == Spec => []TypeOK
<1>1. ListInv /\ ListInv' /\ TypeOK /\ [Next]_vars => TypeOK'
  BY TypeStep
<1> QED BY <1>1, TypeInit, ListInitInv, ListStepInv, PTL DEF Spec

\* The inductive invariant of the dispatcher.  What it did last is right for the
\* channel it sees, or it will do it again: its key is in the queue, or the news of
\* its own last patch are on their way.
DispatcherInv ==
  /\ "dispatcher" \notin news => imc = channel
  /\ ~ imcQueued =>
       /\ imc.ready => subscriptions = imc.spec
       /\ "dispatcher" \in news \/ imc.status = imc.spec

\* A step of the others.
LEMMA OthersPatch ==
  ASSUME DispatcherInv, UNCHANGED <<imc, imcQueued, subscriptions>>,
         \/ "dispatcher" \in news'
         \/ channel' = channel /\ ("dispatcher" \in news => "dispatcher" \in news')
  PROVE  DispatcherInv'
  BY DEF DispatcherInv

LEMMA WriteIsNewsToDispatcher ==
  ASSUME NEW c, WriteChannel(c)
  PROVE  \/ "dispatcher" \in news'
         \/ news' = news /\ channel' = channel
  BY DEF WriteChannel, Informers

LEMMA DispatcherStepInv == ASSUME TypeOK, DispatcherInv, [Next]_vars PROVE DispatcherInv'
<1>1. ASSUME NEW s \in Subs, UserStep(s) \/ Reconcile(s) \/ ReconcileFails(s) PROVE DispatcherInv'
  <2>1. "dispatcher" \in news' \/ (news' = news /\ channel' = channel)
    BY <1>1, WriteIsNewsToDispatcher
       DEF UserStep, Create, UpdateSpec, Delete, Reconcile, Forget, ReconcileKind, FinalizeKind,
           patchSubscription, ReconcileFails, SyncFails, ResolveFails, FinalizeFails, channelVars
  <2> QED BY <1>1, <2>1, OthersPatch DEF UserStep, Reconcile, ReconcileFails, dispatcherVars
<1>2. CASE SubscriptionInformer
  BY <1>2, OthersPatch DEF SubscriptionInformer, ObserveChannel, Hear, dispatcherVars
<1>3. CASE Restart
  <2>1. CASE RestartController /\ UNCHANGED dispatcherVars
    BY <2>1, OthersPatch DEF RestartController, dispatcherVars
  <2>2. CASE RestartDispatcher
    BY <2>2 DEF RestartDispatcher, DispatcherInv
  <2> QED BY <1>3, <2>1, <2>2 DEF Restart
<1>4. CASE ObserveIMC
  BY <1>4 DEF ObserveIMC, Hear, DispatcherInv
<1>5. CASE ReconcileIMC
  <2>1. imc' = imc /\ ~ imcQueued' /\ (imc.ready => subscriptions' = imc.spec)
    BY <1>5 DEF ReconcileIMC, reconcile
  <2>2. CASE imc.status = imc.spec /\ UNCHANGED channelVars
    BY <2>1, <2>2 DEF DispatcherInv, channelVars
  <2>3. CASE /\ imc.status # imc.spec
             /\ WriteChannel([channel EXCEPT !.status = JSONPatch(imc.status, imc.spec, channel.status)])
    <3>1. "dispatcher" \in news'
      <4> SUFFICES ASSUME "dispatcher" \notin news' PROVE FALSE
        OBVIOUS
      <4>1. news' = news /\ channel' = channel
        BY <2>3, WriteIsNewsToDispatcher
      <4>2. imc = channel
        BY <4>1 DEF DispatcherInv
      <4>3. channel.status \in Seq(Subscriber) /\ channel.spec \in Seq(Subscriber)
        BY DEF TypeOK, Channel
      <4>4. JSONPatch(imc.status, imc.spec, channel.status) = channel.spec
        BY <4>2, <4>3, PatchIsRight
      <4>5. channel' = [channel EXCEPT !.status = channel.spec]
        BY <2>3, <4>4 DEF WriteChannel
      <4>6. channel'.status = channel.spec
        BY <4>5 DEF TypeOK, Channel
      <4> QED BY <2>3, <4>1, <4>2, <4>6
    <3> QED BY <2>1, <3>1 DEF DispatcherInv
  <2> QED BY <1>5, <2>2, <2>3 DEF ReconcileIMC, patchSubscriberStatus
<1>6. CASE ReconcileIMCFails
  BY <1>6 DEF ReconcileIMCFails, DispatcherInv, channelVars
<1>7. CASE ControllerStep
  <2>1. "dispatcher" \in news' \/ (news' = news /\ channel' = channel)
    BY <1>7, WriteIsNewsToDispatcher DEF ControllerStep, ControllerWrites
  <2> QED BY <1>7, <2>1, OthersPatch DEF ControllerStep, ControllerWrites
<1>8. CASE UNCHANGED vars
  BY <1>8, OthersPatch DEF vars, channelVars, dispatcherVars
<1> QED BY <1>1, <1>2, <1>3, <1>4, <1>5, <1>6, <1>7, <1>8 DEF Next, DispatcherStep

\* Once the reconciler has nothing to do and has seen the channel, a subscription
\* that says it is added is on the channel's list at its generation, and one that
\* says it is ready too is so in the channel's status (ReconcileKind,
\* getSubStatus); once the dispatcher has nothing to do and has seen the channel,
\* its handlers have the subscribers that the channel has, and the status reports
\* just these (patchSubscriberStatus); whatever has failed, restarted or
\* overwritten what others wrote before.
THEOREM QuietIsAlwaysTrue == Spec => []QuietIsTrue
<1>1. Init => NoticeInv /\ DispatcherInv
  BY DEF Init, SubscriptionInit, DispatcherInit, NoticeInv, DispatcherInv, Live, NewSubscription
<1>2. ListInv /\ NoticeInv /\ [Next]_vars => NoticeInv'
  BY NoticeStepInv
<1>3. TypeOK /\ DispatcherInv /\ [Next]_vars => DispatcherInv'
  BY DispatcherStepInv
<1>4. NoticeInv /\ DispatcherInv => QuietIsTrue
  BY DEF NoticeInv, DispatcherInv, QuietIsTrue, Quiet, DispatcherQuiet, TrueOf, On
<1> QED BY <1>1, <1>2, <1>3, <1>4, ChannelTypeCorrect, ListInitInv, ListStepInv, PTL DEF Spec

=============================================================================
