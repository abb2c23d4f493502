---------------------------- MODULE IngressProofs -----------------------------
(***************************************************************************)
(* Theorems about processes that take events in: the policies by which     *)
(* requests are let in, the ingress of JobSinks, the EventTypes that       *)
(* brokers register, and the keys of RequestReplies.                       *)
(***************************************************************************)
EXTENDS Authorization, EventIngress, RequestReplySecret, TLAPS

-----------------------------------------------------------------------------
(***************************************************************************)
(* The proxy: a request is decided with the policies of the last change    *)
(* that the handler was told of when it came in, or with newer ones, for   *)
(* any number of requests and changes.                                     *)
(***************************************************************************)

PolicySets == UNION {[D -> PolicyVariants] : D \in SUBSET PolicyNames}

CallStates == [at : {"subjects", "lock", "verify"}, flags : Features, since : Nat,
               entry : Nat \cup {None}]

AuthTypeOK ==
  /\ history \in Seq(PolicySets) /\ history # <<>>
  /\ handled \in Nat
  /\ subjects \in Nat \cup {None}
  /\ flags \in Features
  /\ call \in [Calls -> CallStates \cup {None}]

(* The induction hypothesis: the cache is not older than what the handler  *)
(* was last told, since a change that comes later clears it, and no        *)
(* request began later than that.                                          *)
AuthInv ==
  /\ AuthTypeOK
  /\ handled <= Len(history)
  /\ subjects # None => subjects >= handled
  /\ \A c \in Calls : call[c] # None => call[c].since <= handled
  /\ DecidesWithNewPolicies

-----------------------------------------------------------------------------
LEMMA AuthInitInv == AuthInit => AuthInv
<1> SUFFICES ASSUME AuthInit PROVE AuthInv
  OBVIOUS
<1>1. [n \in {} |-> None] \in [{} -> PolicyVariants]
  OBVIOUS
<1>2. history \in Seq(PolicySets) /\ history # <<>> /\ Len(history) = 1
  BY <1>1 DEF AuthInit, PolicySets
<1> QED BY <1>2 DEF AuthInit, AuthInv, AuthTypeOK, DecidesWithNewPolicies

LEMMA LastIsPolicies == ASSUME AuthTypeOK PROVE Policies \in PolicySets
  BY DEF AuthTypeOK, Policies

(* A change of policies makes the history longer by one.                   *)
LEMMA HistoryGrows ==
  ASSUME AuthTypeOK, NEW n \in PolicyNames, PolicyChanges(n)
  PROVE  history' \in Seq(PolicySets) /\ Len(history') = Len(history) + 1
<1>1. PICK D \in SUBSET PolicyNames : Policies \in [D -> PolicyVariants]
  BY LastIsPolicies DEF PolicySets
<1>2. PICK h : h \in PolicySets /\ history' = Append(history, h)
  <2>1. CASE \E v \in PolicyVariants :
               history' = Append(history,
                 [k \in DOMAIN Policies \cup {n} |-> IF k = n THEN v ELSE Policies[k]])
    <3>1. PICK v \in PolicyVariants :
               history' = Append(history,
                 [k \in DOMAIN Policies \cup {n} |-> IF k = n THEN v ELSE Policies[k]])
      BY <2>1
    <3>2. [k \in DOMAIN Policies \cup {n} |-> IF k = n THEN v ELSE Policies[k]]
            \in [D \cup {n} -> PolicyVariants]
      BY <1>1
    <3>3. D \cup {n} \in SUBSET PolicyNames
      OBVIOUS
    <3> QED BY <3>1, <3>2, <3>3, Zenon DEF PolicySets
  <2>2. CASE history' = Append(history, [k \in DOMAIN Policies \ {n} |-> Policies[k]])
    <3>1. [k \in DOMAIN Policies \ {n} |-> Policies[k]] \in [D \ {n} -> PolicyVariants]
      BY <1>1
    <3>2. D \ {n} \in SUBSET PolicyNames
      OBVIOUS
    <3> QED BY <2>2, <3>1, <3>2, Zenon DEF PolicySets
  <2> QED BY <2>1, <2>2, Zenon DEF PolicyChanges
<1> QED BY <1>2 DEF AuthTypeOK

LEMMA AuthStepInv == ASSUME AuthInv, [AuthNext]_authVars PROVE AuthInv'
<1>1. ASSUME NEW n \in PolicyNames, PolicyChanges(n) PROVE AuthInv'
  <2>1. history' \in Seq(PolicySets) /\ Len(history') = Len(history) + 1 /\ Len(history) \in Nat
    BY <1>1, HistoryGrows DEF AuthInv, AuthTypeOK
  <2>2. history' # <<>> /\ handled' <= Len(history')
    BY <1>1, <2>1 DEF PolicyChanges, AuthInv, AuthTypeOK
  <2> QED BY <1>1, <2>1, <2>2 DEF PolicyChanges, AuthInv, AuthTypeOK, DecidesWithNewPolicies
<1>2. CASE invalidateSubjectsCache
  <2>1. handled' = handled + 1 /\ subjects' = None /\ UNCHANGED <<history, flags, call>>
    BY <1>2 DEF invalidateSubjectsCache
  <2>2. handled' \in Nat /\ handled' <= Len(history') /\ Len(history) \in Nat
    BY <1>2, <2>1 DEF invalidateSubjectsCache, AuthInv, AuthTypeOK
  <2>3. \A c \in Calls : call[c] # None => call[c].since <= handled'
    BY <2>1 DEF AuthInv, AuthTypeOK, CallStates
  <2> QED BY <2>1, <2>2, <2>3 DEF AuthInv, AuthTypeOK, DecidesWithNewPolicies
<1>3. CASE StatusCatchesUp
  BY <1>3 DEF StatusCatchesUp, AuthInv, AuthTypeOK, DecidesWithNewPolicies
<1>4. CASE ConfigUpdate
  BY <1>4 DEF ConfigUpdate, FeaturesChange, AuthInv, AuthTypeOK, DecidesWithNewPolicies
<1>5. ASSUME NEW c \in Calls, AuthServeHTTP(c) PROVE AuthInv'
  <2> DEFINE new == [at |-> "subjects", flags |-> flags, since |-> handled, entry |-> None]
  <2>1. new \in CallStates
    BY DEF AuthInv, AuthTypeOK, CallStates
  <2>2. call' = [call EXCEPT ![c] = new] /\ UNCHANGED <<history, handled, subjects, flags>>
    BY <1>5 DEF AuthServeHTTP
  <2>3. call' \in [Calls -> CallStates \cup {None}]
    BY <2>1, <2>2 DEF AuthInv, AuthTypeOK
  <2>4. \A d \in Calls : call'[d] = IF d = c THEN new ELSE call[d]
    BY <2>2 DEF AuthInv, AuthTypeOK
  <2> QED BY <2>2, <2>3, <2>4 DEF AuthInv, AuthTypeOK, DecidesWithNewPolicies
<1>6. ASSUME NEW c \in Calls, call[c] # None, NEW at \in {"lock", "verify"},
             NEW entry \in Nat \cup {None}, subjects' \in Nat \cup {None},
             call' = [call EXCEPT ![c] = [@ EXCEPT !.at = at, !.entry = entry]],
             at = "verify" => entry \in Nat /\ entry >= handled,
             subjects' # None => subjects' >= handled,
             UNCHANGED <<history, handled, flags>>
      PROVE  AuthInv'
  <2>1. call[c] \in CallStates
    BY <1>6 DEF AuthInv, AuthTypeOK
  <2> DEFINE new == [call[c] EXCEPT !.at = at, !.entry = entry]
  <2>2. new \in CallStates /\ new.at = at /\ new.entry = entry /\ new.since = call[c].since
    BY <2>1, Zenon DEF CallStates
  <2>3. call' = [call EXCEPT ![c] = new]
    BY <1>6 DEF AuthInv, AuthTypeOK
  <2>4. new.since <= handled /\ new.since \in Nat /\ handled \in Nat
    BY <1>6, <2>1, <2>2 DEF AuthInv, AuthTypeOK, CallStates
  <2>5. new.at = "verify" => new.entry >= new.since
    BY <1>6, <2>2, <2>4
  <2> HIDE DEF new
  <2>6. call' \in [Calls -> CallStates \cup {None}]
    BY <2>2, <2>3 DEF AuthInv, AuthTypeOK
  <2>7. \A d \in Calls : call'[d] = IF d = c THEN new ELSE call[d]
    BY <2>3 DEF AuthInv, AuthTypeOK
  <2> QED BY <1>6, <2>4, <2>5, <2>6, <2>7, Zenon DEF AuthInv, AuthTypeOK, DecidesWithNewPolicies
<1>7. ASSUME NEW c \in Calls, getAuthSubjects(c) PROVE AuthInv'
  <2>0. call[c] # None /\ call[c] \in CallStates /\ UNCHANGED <<history, handled, subjects, flags>>
    BY <1>7 DEF getAuthSubjects, AuthInv, AuthTypeOK
  <2>1. CASE subjects # None
    <3>1. call' = [call EXCEPT ![c] = [@ EXCEPT !.at = "verify", !.entry = subjects]]
      BY <1>7, <2>1, SMTT(30) DEF getAuthSubjects
    <3> QED BY <2>0, <2>1, <3>1, <1>6, Zenon DEF AuthInv, AuthTypeOK
  <2>2. CASE subjects = None
    <3>1. [call[c] EXCEPT !.at = "lock"] = [call[c] EXCEPT !.at = "lock", !.entry = call[c].entry]
      BY <2>0, Zenon DEF CallStates
    <3>2. call' = [call EXCEPT ![c] = [@ EXCEPT !.at = "lock", !.entry = call[c].entry]]
      BY <1>7, <2>2, <3>1, Zenon DEF getAuthSubjects, AuthInv, AuthTypeOK
    <3>3. call[c].entry \in Nat \cup {None}
      BY <2>0, SMTT(30) DEF CallStates
    <3> QED BY <2>0, <2>2, <3>2, <3>3, <1>6, Zenon DEF AuthInv, AuthTypeOK
  <2> QED BY <2>1, <2>2
<1>8. ASSUME NEW c \in Calls, FillCache(c) PROVE AuthInv'
  <2>1. /\ call[c] # None /\ UNCHANGED <<history, handled, flags>>
        /\ call' = [call EXCEPT ![c] = [@ EXCEPT !.at = "verify", !.entry = subjects']]
    BY <1>8 DEF FillCache
  <2>2. subjects' \in Nat /\ subjects' >= handled
    BY <1>8 DEF FillCache, AuthInv, AuthTypeOK
  <2> QED BY <2>1, <2>2, <1>6, Zenon
<1>9. ASSUME NEW c \in Calls, VerifyRequestFromSubjectsWithFilters(c) PROVE AuthInv'
  <2>1. call' = [call EXCEPT ![c] = None] /\ UNCHANGED <<history, handled, subjects, flags>>
    BY <1>9 DEF VerifyRequestFromSubjectsWithFilters
  <2>2. \A d \in Calls : call'[d] = IF d = c THEN None ELSE call[d]
    BY <2>1 DEF AuthInv, AuthTypeOK
  <2> QED BY <2>1, <2>2 DEF AuthInv, AuthTypeOK, DecidesWithNewPolicies
<1>10. CASE UNCHANGED authVars
  BY <1>10 DEF authVars, AuthInv, AuthTypeOK, DecidesWithNewPolicies
<1> QED BY <1>1, <1>2, <1>3, <1>4, <1>5, <1>7, <1>8, <1>9, <1>10 DEF AuthNext

(* A request that came in after the informer's handler was told of a       *)
(* change is decided with policies that have the change, however the       *)
(* filling and the clearing of the cache interleave                        *)
(* (cmd/auth_proxy/main.go, getAuthSubjects, invalidateSubjectsCache).     *)
THEOREM DecidesWithTheNew == AuthSpec => []DecidesWithNewPolicies
<1>1. AuthInit => AuthInv
  BY AuthInitInv
<1>2. AuthInv /\ [AuthNext]_authVars => AuthInv'
  BY AuthStepInv
<1>3. AuthInv => DecidesWithNewPolicies
  BY DEF AuthInv
<1> QED BY <1>1, <1>2, <1>3, PTL DEF AuthSpec

-----------------------------------------------------------------------------
(***************************************************************************)
(* The handlers of EventPolicies, for any policies and resources and any   *)
(* number of their changes.                                                *)
(***************************************************************************)

News == [old : EventPolicy \cup {None}, new : EventPolicy \cup {None}, tombstone : BOOLEAN]
Statuses == EventPolicyNames \X BOOLEAN

PolicyTypeOK ==
  /\ eventPolicies \in [EventPolicyNames -> EventPolicy \cup {None}]
  /\ DOMAIN labels = Protected
  /\ policyNews \in Seq(News)
  /\ appliedTo \in [Protected -> SUBSET Statuses]

(* Whether a policy applies to a resource that is there.                   *)
Applies(policy, r) ==
  /\ policy # None
  /\ policy.to # None => r \in policy.to \/ ("labelled" \in policy.to /\ labels[r])

(* The status of r is right about p.                                       *)
InSync(r, p) ==
  \A x \in Statuses :
    x[1] = p =>
      ((x \in appliedTo[r] /\ <<r, p>> \notin unheard)
         <=> (Applies(eventPolicies[p], r) /\ x = <<p, eventPolicies[p].ready>>))

(* A change that the handler is still to be told of will queue r.          *)
Coming(r) == \E i \in DOMAIN policyNews : r \in EventPolicyEventHandler(policyNews[i])

(* The induction hypothesis: the status of a resource is right about every *)
(* policy, or something is on its way that leads to its reconciliation.    *)
Attended(r) ==
  \/ r \in policyQueue \/ r \in resourceNews \/ Coming(r)
  \/ \A p \in EventPolicyNames : InSync(r, p)

PolicyInv == PolicyTypeOK /\ \A r \in There : Attended(r)

-----------------------------------------------------------------------------
(* The handler and the reconciler agree on what a policy applies to.       *)
LEMMA HandlerAgrees ==
  ASSUME NEW r \in There, NEW policy
  PROVE  r \in GetApplyingResourcesOfEventPolicyForGK(policy) <=> Applies(policy, r)
  BY DEF GetApplyingResourcesOfEventPolicyForGK, Applies, There, Selected

(* What the handler queues is a matter of the labels of each resource.     *)
LEMMA HandlerQueues ==
  ASSUME NEW r \in There, NEW e
  PROVE  r \in EventPolicyEventHandler(e) <=>
           ~ e.tombstone /\ (Applies(e.old, r) \/ Applies(e.new, r))
  BY HandlerAgrees DEF EventPolicyEventHandler

LEMMA PolicyInitInv == PolicyHandlersInit => PolicyInv
<1> SUFFICES ASSUME PolicyHandlersInit PROVE PolicyInv
  OBVIOUS
<1>1. PolicyTypeOK
  BY DEF PolicyHandlersInit, PolicyTypeOK
<1>2. ASSUME NEW r \in There, NEW p \in EventPolicyNames PROVE InSync(r, p)
  BY DEF PolicyHandlersInit, InSync, Applies, There
<1> QED BY <1>1, <1>2 DEF PolicyInv, Attended

-----------------------------------------------------------------------------
(* A policy changes: where it applied or now applies, the handler will     *)
(* queue the resource, unless it takes the deletion for something else.    *)
LEMMA PolicyChangesInv ==
  ASSUME PolicyInv, NEW p \in EventPolicyNames, EventPolicyChanges(p) PROVE PolicyInv'
<1>1. PICK new \in EventPolicy \cup {None}, tombstone \in BOOLEAN :
        /\ tombstone => new = None
        /\ eventPolicies' = [eventPolicies EXCEPT ![p] = new]
        /\ policyNews' = Append(policyNews,
                               [old |-> eventPolicies[p], new |-> new, tombstone |-> tombstone])
        /\ unheard' = IF tombstone THEN unheard \cup (Protected \X {p}) ELSE unheard
  BY Zenon DEF EventPolicyChanges
<1>2. UNCHANGED <<labels, resourceNews, policyQueue, appliedTo>>
  BY DEF EventPolicyChanges
<1> DEFINE e == [old |-> eventPolicies[p], new |-> new, tombstone |-> tombstone]
<1>3. e \in News
  BY DEF News, PolicyInv, PolicyTypeOK
<1>4. PolicyTypeOK'
  BY <1>1, <1>2, <1>3 DEF PolicyInv, PolicyTypeOK
<1>5. /\ DOMAIN policyNews' = 1..(Len(policyNews) + 1)
      /\ DOMAIN policyNews = 1..Len(policyNews)
      /\ \A i \in 1..Len(policyNews) : policyNews'[i] = policyNews[i]
      /\ policyNews'[Len(policyNews) + 1] = e
      /\ Len(policyNews) \in Nat
  BY <1>1, <1>3 DEF PolicyInv, PolicyTypeOK
<1>6. There' = There
  BY <1>2 DEF There
<1>7. ASSUME NEW r \in There PROVE Attended(r)'
  <2>2. CASE r \in policyQueue \/ r \in resourceNews
    BY <1>2, <2>2 DEF Attended
  <2>3. CASE Coming(r)
    <3>1. Coming(r)'
      BY <1>2, <1>5, <2>3 DEF Coming, EventPolicyEventHandler,
                              GetApplyingResourcesOfEventPolicyForGK, There, Selected
    <3> QED BY <3>1 DEF Attended
  <2>4. CASE \A q \in EventPolicyNames : InSync(r, q)
    <3>1. CASE ~ tombstone /\ (Applies(eventPolicies[p], r) \/ Applies(new, r))
      <4>1. r \in EventPolicyEventHandler(e)
        BY <3>1, HandlerQueues
      <4>2. Len(policyNews) + 1 \in DOMAIN policyNews'
        BY <1>5
      <4>3. Coming(r)'
        BY <1>2, <1>5, <4>1, <4>2 DEF Coming, EventPolicyEventHandler,
                              GetApplyingResourcesOfEventPolicyForGK, There, Selected
      <4> QED BY <4>3 DEF Attended
    <3>2. CASE ~ (~ tombstone /\ (Applies(eventPolicies[p], r) \/ Applies(new, r)))
      <4>1. ASSUME NEW q \in EventPolicyNames, q # p PROVE InSync(r, q)'
        <5>1. eventPolicies'[q] = eventPolicies[q]
          BY <1>1, <4>1 DEF PolicyInv, PolicyTypeOK
        <5>2. <<r, q>> \in unheard' <=> <<r, q>> \in unheard
          BY <1>1, <4>1
        <5>3. InSync(r, q)
          BY <2>4
        <5> QED BY <1>2, <5>1, <5>2, <5>3 DEF InSync, Applies
      <4>2. InSync(r, p)'
        <5>1. eventPolicies'[p] = new
          BY <1>1 DEF PolicyInv, PolicyTypeOK
        <5>2. CASE tombstone
          <6>1. <<r, p>> \in unheard' /\ new = None
            BY <1>1, <5>2 DEF There
          <6> QED BY <5>1, <6>1 DEF InSync, Applies
        <5>3. CASE ~ tombstone
          <6>1. ~ Applies(eventPolicies[p], r) /\ ~ Applies(new, r) /\ unheard' = unheard
            BY <1>1, <3>2, <5>3
          <6>2. InSync(r, p)
            BY <2>4
          <6> QED BY <1>2, <5>1, <6>1, <6>2 DEF InSync, Applies
        <5> QED BY <5>2, <5>3
      <4> QED BY <4>1, <4>2 DEF Attended
    <3> QED BY <3>1, <3>2
  <2> QED BY <2>2, <2>3, <2>4 DEF PolicyInv, Attended
<1> QED BY <1>4, <1>6, <1>7 DEF PolicyInv

(* The handler is told of the next change.                                 *)
LEMMA PolicyHandlerInv == ASSUME PolicyInv, PolicyHandler PROVE PolicyInv'
<1>1. /\ policyNews # <<>> /\ policyNews' = Tail(policyNews)
      /\ policyQueue' = policyQueue \cup EventPolicyEventHandler(Head(policyNews))
      /\ UNCHANGED <<eventPolicies, labels, resourceNews, appliedTo, unheard>>
  BY DEF PolicyHandler
<1>2. PolicyTypeOK'
  BY <1>1 DEF PolicyInv, PolicyTypeOK
<1>3. /\ DOMAIN policyNews' = 1..(Len(policyNews) - 1)
      /\ DOMAIN policyNews = 1..Len(policyNews)
      /\ Len(policyNews) \in Nat
      /\ \A i \in 1..(Len(policyNews) - 1) : policyNews'[i] = policyNews[i + 1]
      /\ Head(policyNews) = policyNews[1]
  BY <1>1 DEF PolicyInv, PolicyTypeOK
<1>4. ASSUME NEW r \in There PROVE Attended(r)'
  <2>1. CASE r \in policyQueue \/ r \in resourceNews
    BY <1>1, <2>1 DEF Attended
  <2>2. CASE Coming(r)
    <3>1. PICK i \in DOMAIN policyNews : r \in EventPolicyEventHandler(policyNews[i])
      BY <2>2 DEF Coming
    <3>2. CASE i = 1
      BY <1>1, <1>3, <3>1, <3>2 DEF Attended
    <3>3. CASE i # 1
      <4>1. i - 1 \in DOMAIN policyNews' /\ policyNews'[i - 1] = policyNews[i]
        BY <1>3, <3>1, <3>3
      <4>2. Coming(r)'
        BY <1>1, <3>1, <4>1, Zenon DEF Coming, EventPolicyEventHandler,
                              GetApplyingResourcesOfEventPolicyForGK, There, Selected
      <4> QED BY <4>2 DEF Attended
    <3> QED BY <3>2, <3>3
  <2>3. CASE \A p \in EventPolicyNames : InSync(r, p)
    BY <1>1, <2>3 DEF InSync, Applies, Attended
  <2> QED BY <2>1, <2>2, <2>3 DEF PolicyInv, Attended
<1>5. There' = There
  BY <1>1 DEF There
<1> QED BY <1>2, <1>4, <1>5 DEF PolicyInv

(* A resource changes: it will be queued, and nothing is different for the *)
(* others.                                                                 *)
LEMMA ResourceChangesInv ==
  ASSUME PolicyInv, NEW r \in Protected, ResourceChanges(r) PROVE PolicyInv'
<1>1. /\ resourceNews' = resourceNews \cup {r}
      /\ UNCHANGED <<eventPolicies, policyNews, policyQueue, unheard>>
      /\ DOMAIN labels' = Protected
      /\ appliedTo' \in [Protected -> SUBSET Statuses]
      /\ \A q \in Protected \ {r} : labels'[q] = labels[q] /\ appliedTo'[q] = appliedTo[q]
  BY DEF ResourceChanges, PolicyInv, PolicyTypeOK
<1>2. ASSUME NEW q \in There', q # r PROVE Attended(q)'
  <2>1. q \in There /\ labels'[q] = labels[q] /\ appliedTo'[q] = appliedTo[q]
    BY <1>1, <1>2 DEF There
  <2>2. CASE q \in policyQueue \/ q \in resourceNews
    BY <1>1, <2>2 DEF Attended
  <2>3. CASE Coming(q)
    <3>1. PICK i \in DOMAIN policyNews : q \in EventPolicyEventHandler(policyNews[i])
      BY <2>3, SMTT(30) DEF Coming
    <3>2. (q \in EventPolicyEventHandler(policyNews[i]))'
      BY <1>1, <2>1, <3>1
         DEF EventPolicyEventHandler, GetApplyingResourcesOfEventPolicyForGK, There, Selected
    <3> QED BY <1>1, <3>2 DEF Attended, Coming
  <2>4. CASE \A p \in EventPolicyNames : InSync(q, p)
    BY <1>1, <2>1, <2>4 DEF InSync, Applies, Attended
  <2> QED BY <2>1, <2>2, <2>3, <2>4 DEF PolicyInv, Attended
<1>3. Attended(r)'
  BY <1>1 DEF Attended
<1> QED BY <1>1, <1>2, <1>3 DEF PolicyInv, PolicyTypeOK

(* A resource is reconciled: its status is right.                          *)
LEMMA ReconcileInv ==
  ASSUME PolicyInv, NEW r \in Protected, PolicyReconcile(r) PROVE PolicyInv'
<1> DEFINE status == {<<p, eventPolicies[p].ready>> : p \in GetEventPoliciesForResource(r)}
<1>1. /\ policyQueue' = policyQueue \ {r}
      /\ unheard' = {x \in unheard : x[1] # r}
      /\ UNCHANGED <<eventPolicies, labels, policyNews, resourceNews>>
      /\ appliedTo' = IF labels[r] = None THEN appliedTo ELSE [appliedTo EXCEPT ![r] = status]
  BY DEF PolicyReconcile
<1>2. status \subseteq Statuses
  BY DEF GetEventPoliciesForResource, AppliesTo, Statuses, PolicyInv, PolicyTypeOK, EventPolicy
<1>3. /\ appliedTo' \in [Protected -> SUBSET Statuses]
      /\ \A q \in Protected \ {r} : appliedTo'[q] = appliedTo[q]
      /\ labels[r] # None => appliedTo'[r] = status
  BY <1>1, <1>2 DEF PolicyInv, PolicyTypeOK
<1>4. There' = There
  BY <1>1 DEF There
<1>5. ASSUME NEW q \in There, q # r PROVE Attended(q)'
  <2>1. q \in Protected /\ appliedTo'[q] = appliedTo[q]
    BY <1>3, <1>5 DEF There
  <2>2. CASE q \in policyQueue \/ q \in resourceNews
    BY <1>1, <1>5, <2>2, SMTT(30) DEF Attended
  <2>3. CASE Coming(q)
    BY <1>1, <2>3 DEF Attended, Coming, EventPolicyEventHandler,
                      GetApplyingResourcesOfEventPolicyForGK, There, Selected
  <2>4. CASE \A p \in EventPolicyNames : InSync(q, p)
    <3>1. \A p \in EventPolicyNames : <<q, p>> \in unheard' <=> <<q, p>> \in unheard
      BY <1>1, <1>5
    <3> QED BY <1>1, <2>1, <2>4, <3>1, SMTT(30) DEF InSync, Applies, Attended
  <2> QED BY <2>2, <2>3, <2>4 DEF PolicyInv, Attended
<1>6. ASSUME NEW p \in EventPolicyNames, labels[r] # None PROVE InSync(r, p)'
  <2>1. <<r, p>> \notin unheard'
    BY <1>1
  <2>2. ASSUME NEW x \in Statuses, x[1] = p
        PROVE  x \in status <=> Applies(eventPolicies[p], r) /\ x = <<p, eventPolicies[p].ready>>
    BY <2>2 DEF GetEventPoliciesForResource, AppliesTo, Applies, Statuses
  <2> HIDE DEF status
  <2> QED BY <1>1, <1>3, <1>6, <2>1, <2>2 DEF InSync, Applies
<1>7. r \in There => Attended(r)'
  BY <1>6 DEF There, Attended
<1> QED BY <1>1, <1>3, <1>4, <1>5, <1>7 DEF PolicyInv, PolicyTypeOK

LEMMA PolicyStepInv ==
  ASSUME PolicyInv, [PolicyHandlersNext]_policyHandlerVars PROVE PolicyInv'
<1>1. ASSUME NEW r \in Protected, ResourceHandler(r) PROVE PolicyInv'
  BY <1>1, SMTT(30) DEF ResourceHandler, PolicyInv, PolicyTypeOK, Attended, Coming, InSync, Applies,
              EventPolicyEventHandler, GetApplyingResourcesOfEventPolicyForGK, There, Selected
<1>2. CASE UNCHANGED policyHandlerVars
  BY <1>2 DEF policyHandlerVars, PolicyInv, PolicyTypeOK, Attended, Coming, InSync, Applies,
              EventPolicyEventHandler, GetApplyingResourcesOfEventPolicyForGK, There, Selected
<1> QED BY <1>1, <1>2, PolicyChangesInv, PolicyHandlerInv, ResourceChangesInv, ReconcileInv, SMTT(30)
        DEF PolicyHandlersNext, PolicyIdle

(* When all changes have been handled, the status of every resource has    *)
(* the policies that apply to it (pkg/auth/event_policy.go,                *)
(* EventPolicyEventHandler), but for deletions that came as tombstones.    *)
THEOREM PoliciesBecomeKnown == PolicyHandlersSpec => []PoliciesAreKnown
<1>1. PolicyHandlersInit => PolicyInv
  BY PolicyInitInv
<1>2. PolicyInv /\ [PolicyHandlersNext]_policyHandlerVars => PolicyInv'
  BY PolicyStepInv, SMTT(30)
<1>3. PolicyInv => PoliciesAreKnown
  <2> SUFFICES ASSUME PolicyInv, PolicySettled, NEW r \in There
               PROVE  {x \in appliedTo[r] : <<r, x[1]>> \notin unheard}
                        = {<<p, eventPolicies[p].ready>> :
                             p \in {q \in EventPolicyNames : AppliesTo(q, r)}}
    BY DEF PoliciesAreKnown
  <2>1. ~ Coming(r)
    BY DEF PolicySettled, Coming
  <2>2. \A p \in EventPolicyNames : InSync(r, p)
    BY <2>1 DEF PolicyInv, Attended, PolicySettled
  <2>3. ASSUME NEW x \in appliedTo[r], <<r, x[1]>> \notin unheard
        PROVE  \E p \in EventPolicyNames : AppliesTo(p, r) /\ x = <<p, eventPolicies[p].ready>>
    <3>1. x \in Statuses /\ x[1] \in EventPolicyNames
      BY <2>3 DEF PolicyInv, PolicyTypeOK, There, Statuses
    <3> QED BY <2>2, <2>3, <3>1 DEF InSync, Applies, AppliesTo
  <2>4. ASSUME NEW p \in EventPolicyNames, AppliesTo(p, r)
        PROVE  /\ <<p, eventPolicies[p].ready>> \in appliedTo[r]
               /\ <<r, p>> \notin unheard
    <3>1. <<p, eventPolicies[p].ready>> \in Statuses
      BY <2>4 DEF AppliesTo, PolicyInv, PolicyTypeOK, Statuses, EventPolicy
    <3> QED BY <2>2, <2>4, <3>1 DEF InSync, Applies, AppliesTo
  <2> QED BY <2>3, <2>4
<1> QED BY <1>1, <1>2, <1>3, PTL DEF PolicyHandlersSpec

-----------------------------------------------------------------------------
(***************************************************************************)
(* The JobSink ingress, for all sets of events and requests and any number *)
(* of failures.  The names of Jobs are left uninterpreted: events may      *)
(* share one.                                                              *)
(***************************************************************************)

JobRequest == [at : {"list", "create", "secret", "secret without owner"}, event : JobEvents]

(* The assumption of all that follows: None is no request.                 *)
NoneIsNoRequest == None \notin JobRequest

JobTypeOK ==
  /\ request \in [Requests -> JobRequest \cup {None}]
  /\ accepted \subseteq JobEvents
  /\ cut \subseteq JobNames

(* The Job of every request that is past its creation is there.            *)
CreatedIsThere ==
  \A r \in Requests :
    request[r] # None /\ request[r].at \in {"secret", "secret without owner"} =>
      toJobName(request[r].event) \in DOMAIN jobs

(* The induction hypothesis.  That accepted events have a Job and a Secret *)
(* is not enough: a request may be accepted because of a Job that another  *)
(* one has made, so every Job has to have its Secret to come.              *)
JobInv ==
  /\ JobTypeOK
  /\ CreatedIsThere
  /\ \A name \in DOMAIN jobs : SecretComes(name) \/ name \in cut
  /\ \A e \in accepted : toJobName(e) \in DOMAIN jobs

-----------------------------------------------------------------------------
LEMMA JobInitInv == JobInit => JobInv
  BY DEF JobInit, JobInv, JobTypeOK, CreatedIsThere, JobRequest

(* An accepted request leaves the Jobs and the Secrets of others alone.    *)
LEMMA AcceptKeeps ==
  ASSUME JobInv, NEW r \in Requests, request[r] # None, Accept(r),
         UNCHANGED <<jobs, cut>>, toJobName(request[r].event) \in DOMAIN jobs,
         DOMAIN secrets \subseteq DOMAIN secrets',
         request[r].at = "secret" => toJobName(request[r].event) \in DOMAIN secrets'
  PROVE  JobInv'
<1>1. JobTypeOK'
  BY Zenon DEF JobInv, JobTypeOK, Accept, JobRequest
<1>2. \A q \in Requests \ {r} : request'[q] = request[q]
  BY DEF JobInv, JobTypeOK, Accept
<1>3. request'[r] = None
  BY DEF JobInv, JobTypeOK, Accept
<1>4. CreatedIsThere'
  BY <1>2, <1>3, Zenon DEF JobInv, CreatedIsThere, toJobName
<1>5. ASSUME NEW name \in DOMAIN jobs PROVE SecretComes(name)' \/ name \in cut
  BY <1>2, Zenon DEF JobInv, SecretComes, toJobName
<1>6. \A e \in accepted' : toJobName(e) \in DOMAIN jobs
  BY DEF JobInv, Accept
<1> QED BY <1>1, <1>4, <1>5, <1>6 DEF JobInv

LEMMA JobStepInv ==
  ASSUME NoneIsNoRequest, JobInv, [JobNext]_jobVars
  PROVE  JobInv'
<1> USE DEF toJobName
<1>1. CASE SinkChanges
  BY <1>1, Zenon DEF SinkChanges, JobInv, JobTypeOK, CreatedIsThere, SecretComes
<1>2. ASSUME NEW r \in Requests, JobSinkServeHTTP(r) PROVE JobInv'
  <2>0. PICK e \in JobEvents :
          request' = request \/ request' = [request EXCEPT ![r] = [at |-> "list", event |-> e]]
    BY <1>2 DEF JobSinkServeHTTP
  <2>1. request' \in [Requests -> JobRequest \cup {None}]
    <3>1. [at |-> "list", event |-> e] \in JobRequest
      BY DEF JobRequest
    <3> QED BY <2>0, <3>1 DEF JobInv, JobTypeOK
  <2>2. \A q \in Requests : request'[q] = request[q] \/ (request[q] = None /\ request'[q].at = "list")
    BY <1>2 DEF JobSinkServeHTTP, JobInv, JobTypeOK
  <2> QED BY <1>2, <2>1, <2>2, Zenon DEF JobSinkServeHTTP, JobInv, JobTypeOK, CreatedIsThere, SecretComes
<1>3. ASSUME NEW r \in Requests, ListJobs(r) PROVE JobInv'
  <2>1. CASE jobLabelSelector(toJobName(request[r].event)) # {}
    <3>1. toJobName(request[r].event) \in DOMAIN jobs
      BY <2>1, Zenon DEF jobLabelSelector
    <3> QED BY <1>3, <2>1, <3>1, AcceptKeeps DEF ListJobs
  <2>2. CASE jobLabelSelector(toJobName(request[r].event)) = {}
    <3>1. request' = [request EXCEPT ![r].at = "create"] /\ request[r] \in JobRequest
      BY <1>3, <2>2 DEF ListJobs, JobInv, JobTypeOK
    <3>2. request' \in [Requests -> JobRequest \cup {None}]
      BY <3>1, Zenon DEF JobInv, JobTypeOK, JobRequest
    <3>3. request'[r].at = "create" /\ request[r].at = "list"
      BY <1>3, <3>1, Zenon DEF ListJobs, JobInv, JobTypeOK, JobRequest
    <3>4. \A q \in Requests \ {r} : request'[q] = request[q]
      BY <3>1 DEF JobInv, JobTypeOK
    <3> QED BY <1>3, <2>2, <3>2, <3>3, <3>4, ZenonT(40)
            DEF ListJobs, JobInv, JobTypeOK, CreatedIsThere, SecretComes
  <2> QED BY <2>1, <2>2
<1>4. ASSUME NEW r \in Requests, CreateJob(r) PROVE JobInv'
  <2> DEFINE name == toJobName(request[r].event)
  <2>1. request[r] \in JobRequest /\ request[r].at = "create"
    BY <1>4, Zenon DEF CreateJob, JobInv, JobTypeOK
  <2>2. PICK at \in {"secret", "secret without owner"} :
          /\ request' = [request EXCEPT ![r].at = at]
          /\ name \notin DOMAIN jobs => at = "secret"
    BY <1>4, Zenon DEF CreateJob
  <2>3. DOMAIN jobs' = DOMAIN jobs \cup {name}
    BY <1>4, Zenon DEF CreateJob, Put
  <2>4. request' \in [Requests -> JobRequest \cup {None}]
    BY <2>1, <2>2, Zenon DEF JobInv, JobTypeOK, JobRequest
  <2>5. request'[r] \in JobRequest /\ request'[r].at = at /\ request'[r].event = request[r].event
    BY <2>1, <2>2, Zenon DEF JobInv, JobTypeOK, JobRequest
  <2>6. \A q \in Requests \ {r} : request'[q] = request[q]
    BY <2>2, Zenon DEF JobInv, JobTypeOK
  <2>7. CreatedIsThere'
    BY <2>3, <2>5, <2>6, Zenon DEF JobInv, CreatedIsThere
  <2>8. ASSUME NEW n \in DOMAIN jobs' PROVE SecretComes(n)' \/ n \in cut'
    <3>1. CASE n \in DOMAIN jobs
      <4>1. PICK q \in Requests : n \in DOMAIN secrets \/ n \in cut
                \/ (request[q] # None /\ request[q].at = "secret" /\ toJobName(request[q].event) = n)
        BY <3>1, Zenon DEF JobInv, SecretComes
      <4> QED BY <1>4, <2>1, <2>6, <4>1, Zenon DEF CreateJob, SecretComes
    <3>2. CASE n \notin DOMAIN jobs
      <4>1. n = name /\ at = "secret"
        BY <2>2, <2>3, <3>2, Zenon
      <4> QED BY <2>5, <4>1, Zenon DEF SecretComes, NoneIsNoRequest
    <3> QED BY <3>1, <3>2, Zenon
  <2>9. \A e \in accepted' : toJobName(e) \in DOMAIN jobs'
    BY <1>4, <2>3, Zenon DEF CreateJob, JobInv
  <2> QED BY <1>4, <2>4, <2>7, <2>8, <2>9, Zenon DEF CreateJob, JobInv, JobTypeOK
<1>5. ASSUME NEW r \in Requests, JobSinkCreateSecret(r) PROVE JobInv'
  <2>0. toJobName(request[r].event) \in DOMAIN jobs
    BY <1>5, Zenon DEF JobSinkCreateSecret, JobInv, CreatedIsThere
  <2>1. CASE request[r].at = "secret"
    <3>1. DOMAIN secrets' = DOMAIN secrets \cup {toJobName(request[r].event)}
      BY <1>5, <2>1, Zenon DEF JobSinkCreateSecret, Put
    <3> QED BY <1>5, <2>0, <2>1, <3>1, AcceptKeeps, Zenon DEF JobSinkCreateSecret
  <2>2. CASE request[r].at # "secret"
    <3>1. request' = [request EXCEPT ![r] = None] /\ UNCHANGED <<accepted, secrets, jobs, cut>>
      BY <1>5, <2>2, Zenon DEF JobSinkCreateSecret
    <3>2. \A q \in Requests : request'[q] = IF q = r THEN None ELSE request[q]
      BY <3>1 DEF JobInv, JobTypeOK
    <3>3. request' \in [Requests -> JobRequest \cup {None}]
      BY <3>1, SMTT(30) DEF JobInv, JobTypeOK
    <3> QED BY <2>2, <3>1, <3>2, <3>3, Zenon DEF JobInv, JobTypeOK, CreatedIsThere, SecretComes
  <2> QED BY <2>1, <2>2, SMTT(30)
<1>6. ASSUME NEW r \in Requests, CallFails(r) PROVE JobInv'
  <2>1. request' = [request EXCEPT ![r] = None] /\ UNCHANGED <<accepted, secrets, jobs>>
    BY <1>6 DEF CallFails, Fail
  <2>2. \A q \in Requests : request'[q] = IF q = r THEN None ELSE request[q]
    BY <2>1 DEF JobInv, JobTypeOK
  <2>3. JobTypeOK'
    BY <1>6, <2>1, Zenon DEF CallFails, JobInv, JobTypeOK, JobNames, JobRequest
  <2>4. cut \subseteq cut' /\ (request[r].at = "secret" => toJobName(request[r].event) \in cut')
    BY <1>6, Zenon DEF CallFails
  <2> QED BY <2>1, <2>2, <2>3, <2>4, ZenonT(40) DEF JobInv, CreatedIsThere, SecretComes
<1>7. CASE ServerDies
  <2>1. /\ request' = [r \in Requests |-> None] /\ UNCHANGED <<accepted, secrets, jobs>>
        /\ cut \subseteq cut'
        /\ \A r \in Requests : request[r] # None /\ request[r].at = "secret"
                                 => toJobName(request[r].event) \in cut'
    BY <1>7, Zenon DEF ServerDies
  <2>2. ASSUME NEW r \in Requests, request[r] # None PROVE toJobName(request[r].event) \in JobNames
    BY <2>2, Zenon DEF JobInv, JobTypeOK, JobNames, JobRequest
  <2>3. cut' \subseteq JobNames
    BY <1>7, <2>2, Zenon DEF ServerDies, JobInv, JobTypeOK
  <2> QED BY <2>1, <2>3, Zenon DEF JobInv, JobTypeOK, CreatedIsThere, SecretComes
<1>8. ASSUME NEW name \in JobNames, JobRuns(name) PROVE JobInv'
  <2>1. DOMAIN jobs' = DOMAIN jobs
    BY <1>8 DEF JobRuns
  <2> QED BY <1>8, <2>1, Zenon DEF JobRuns, JobInv, JobTypeOK, CreatedIsThere, SecretComes
<1>9. ASSUME NEW e \in JobEvents, handleGet(e) PROVE JobInv'
  BY <1>9, Zenon DEF handleGet, JobInv, JobTypeOK, CreatedIsThere, SecretComes
<1>10. CASE UNCHANGED jobVars
  BY <1>10, Zenon DEF jobVars, JobInv, JobTypeOK, CreatedIsThere, SecretComes
<1> QED BY <1>1, <1>2, <1>3, <1>4, <1>5, <1>6, <1>7, <1>8, <1>9, <1>10 DEF JobNext, JobIdle

(* An event is acknowledged only when its Job is there and the Secret that *)
(* the Job mounts is there or on its way, unless a request ended between   *)
(* the two (cmd/jobsink/main.go, ServeHTTP).                               *)
THEOREM AcceptedMeansMounted ==
  ASSUME NoneIsNoRequest PROVE JobSpec => []AcceptedIsMounted
<1>1. JobInit => JobInv
  BY JobInitInv
<1>2. JobInv /\ [JobNext]_jobVars => JobInv'
  BY JobStepInv
<1>3. JobInv => AcceptedIsMounted
  BY DEF JobInv, AcceptedIsMounted
<1> QED BY <1>1, <1>2, <1>3, PTL DEF JobSpec

-----------------------------------------------------------------------------
(***************************************************************************)
(* EventTypes.                                                             *)
(***************************************************************************)

(* The induction hypothesis: the EventType of a recorded event is there,   *)
(* or the lister has not learned of its deletion yet.                      *)
TypesInv ==
  \A e \in recorded : generateEventTypeName(e) \in DOMAIN eventTypes \cup typeLister

LEMMA TypesStep ==
  ASSUME TypesInv, [EventTypeNext]_eventTypeVars
  PROVE  TypesInv'
<1>1. ASSUME NEW g \in Goroutines, Get(g) PROVE TypesInv'
  BY <1>1, Zenon DEF TypesInv, Get, getOrNotFound, TypesEnds
<1>2. ASSUME NEW g \in Goroutines, Create(g) PROVE TypesInv'
  <2> DEFINE name == generateEventTypeName(creating[g].event)
  <2>1. DOMAIN eventTypes' = DOMAIN eventTypes \cup {name}
    BY <1>2 DEF Create
  <2>2. recorded' = recorded \cup {creating[g].event} /\ typeLister' = typeLister
    BY <1>2 DEF Create, TypesEnds
  <2> QED BY <2>1, <2>2, Zenon DEF TypesInv
<1>3. CASE ListerCatchesUp
  BY <1>3, Zenon DEF TypesInv, ListerCatchesUp
<1>4. ASSUME NEW name \in DOMAIN eventTypes, DeleteEventType(name) PROVE TypesInv'
  <2>1. DOMAIN eventTypes' = DOMAIN eventTypes \ {name}
    BY <1>4 DEF DeleteEventType
  <2>2. recorded' = {e \in recorded : generateEventTypeName(e) # name} /\ typeLister' = typeLister
    BY <1>4 DEF DeleteEventType
  <2> QED BY <2>1, <2>2, Zenon DEF TypesInv
<1>5. ASSUME UNCHANGED <<eventTypes, typeLister, recorded>> PROVE TypesInv'
  BY <1>5, Zenon DEF TypesInv
<1>6. ASSUME NEW g \in Goroutines, CreateFails(g) \/ \E e \in TypedEvents : AutoCreateEventType(g, e)
      PROVE  TypesInv'
  BY <1>5, <1>6 DEF CreateFails, AutoCreateEventType
<1>7. CASE TypesFeatureChanges \/ EventTypeIdle \/ UNCHANGED eventTypeVars
  BY <1>5, <1>7 DEF TypesFeatureChanges, EventTypeIdle, eventTypeVars
<1> QED BY <1>1, <1>2, <1>3, <1>4, <1>6, <1>7 DEF EventTypeNext

(* Whatever the processes that see an event do at once, and whatever fails *)
(* or is deleted: an event whose goroutine ended without an error has an   *)
(* EventType of its name when the lister has caught up, for any number of  *)
(* events and goroutines (AutoCreateEventType).                            *)
THEOREM EventsBecomeRegistered == EventTypeSpec => []EventsAreRegistered
<1>1. EventTypeInit => TypesInv
  BY DEF EventTypeInit, TypesInv
<1>2. TypesInv => EventsAreRegistered
  BY DEF TypesInv, EventsAreRegistered
<1> QED BY <1>1, <1>2, TypesStep, PTL DEF EventTypeSpec

-----------------------------------------------------------------------------
(***************************************************************************)
(* The secret of the AES keys: reconcileAesSecret writes to the lister's   *)
(* object and then replaces the secret as a whole with it, and loses no    *)
(* key, for any number of resources, failed writes and deletions.          *)
(***************************************************************************)

\* No resource has the name that stands for a secret that is gone.
DeletedIsNoResource == "deleted" \notin Resources

\* What a secret holds, or that there is none.
Content == (SUBSET Resources) \union {Deleted}

\* The inductive invariant.  What the reconcilers put into the lister's object
\* only adds to what the informer delivered, so that an update which is not
\* refused has all of the secret's keys.
SecretInv ==
  /\ keys \in Content /\ keysObserved \in Content /\ keysCached \in Content
  /\ keysCached = Deleted <=> keysObserved = Deleted
  /\ keysCached # Deleted => keysObserved \subseteq keysCached

\* Each step keeps the invariant, and the keys that are in the secret.
LEMMA SecretStep ==
  ASSUME DeletedIsNoResource, SecretInv, [KeysNext]_keysVars
  PROVE  SecretInv' /\ (KeepsKeys \/ UNCHANGED keysVars)
<1>0. \A S \in Content : S # Deleted => S \subseteq Resources
  BY DEF Content
<1>1. CASE KeysObserve
  <2>1. Deleted \in Content /\ UNCHANGED keys
    BY <1>1, Zenon DEF KeysObserve, Content
  <2> QED
    BY <1>1, <2>1, SMTT(30) DEF KeysObserve, SecretInv, KeepsKeys
<1>2. CASE DeleteSecret
  <2>1. keys' = Deleted /\ Deleted \in Content
    BY <1>2 DEF DeleteSecret, Content
  <2> QED
    BY <1>2, <2>1 DEF DeleteSecret, SecretInv, KeepsKeys
<1>3. ASSUME NEW rr \in Resources, keysCached = Deleted, KeysCreateSecret(rr)
      PROVE  SecretInv' /\ KeepsKeys
  <2>1. {rr} \in Content
    BY DEF Content
  <2> QED
    BY <1>3, <2>1 DEF KeysCreateSecret, SecretInv, KeepsKeys
<1>4. ASSUME NEW rr \in Resources, FoundKey(rr)
      PROVE  SecretInv' /\ KeepsKeys
  BY <1>4 DEF FoundKey, SecretInv, KeepsKeys
<1>5. ASSUME NEW rr \in Resources, keysCached # Deleted, AddKey(rr)
      PROVE  SecretInv' /\ KeepsKeys
  <2>1. keysCached \subseteq Resources /\ keysObserved \subseteq keysCached
    BY <1>0, <1>5 DEF SecretInv
  <2>2. keysCached' \subseteq Resources /\ keysCached' # Deleted /\ keysCached \subseteq keysCached'
    BY <1>5, <2>1 DEF AddKey, Deleted, DeletedIsNoResource
  <2>3. keysObserved' = keysObserved /\ keysObserved # Deleted
    BY <1>5 DEF AddKey, SecretInv
  <2>4. keys' = keys \/ (keys = keysObserved /\ keys' = keysCached')
    BY <1>5 DEF AddKey
  <2>5. keysCached' \in Content
    BY <2>2 DEF Content
  <2> QED
    BY <2>1, <2>2, <2>3, <2>4, <2>5 DEF SecretInv, KeepsKeys
<1>6. CASE UNCHANGED keysVars
  BY <1>6 DEF keysVars, SecretInv
<1> QED
  BY <1>1, <1>2, <1>3, <1>4, <1>5, <1>6 DEF KeysNext, reconcileAesSecret

\* No write of one RequestReply's reconciler takes the key of another one out of
\* the secret, however old the lister's object is and whatever others have put
\* into it that was never written (reconcileAesSecret).
THEOREM KeysStay == ASSUME DeletedIsNoResource PROVE KeysSpec => KeysAreKept
<1>1. KeysInit => SecretInv
  BY DEF KeysInit, SecretInv, Content, Deleted
<1> QED
  BY DeletedIsNoResource, <1>1, SecretStep, PTL DEF KeysSpec, KeysAreKept

===============================================================================
