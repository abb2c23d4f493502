---------------------------- MODULE Authorization -----------------------------
(***************************************************************************)
(* Who may send events: the auth proxy with the verification of tokens and *)
(* policies, and the handlers by which resources learn of their policies.  *)
(***************************************************************************)
EXTENDS Optional, Integers, Sequences, FiniteSets

-----------------------------------------------------------------------------
(***************************************************************************)
(* The verifier of requests (pkg/auth) and its two kinds of callers: the   *)
(* auth proxy in front of an IntegrationSink or an EventTransform          *)
(* (cmd/auth_proxy), which keeps the policies of its resource in a cache   *)
(* that the informer's handler clears, and the ingresses, which look up    *)
(* the policies that the status of the resource names.                     *)
(*                                                                         *)
(* A policy is a record of its name (a number, in the order of the names), *)
(* the subjects of its status, and the type of event its filters let pass  *)
(* ("any" without filters).  A subject is a namespace and a name; the name *)
(* "*" of a policy's subject stands for the prefix of a whole namespace.   *)
(***************************************************************************)

CONSTANTS
  PolicyNames,      \* The names that policies may have, numbers.
  PolicyVariants,   \* What a policy may say: records of from and filter.
  Senders,          \* The subjects of the tokens that requests carry.
  Namespace,        \* The namespace of the resource.
  Calls,            \* The requests that can be in flight at once.
  MaxPolicyChanges  \* Bound on changes of policies and of the configuration.

VARIABLES
  history,   \* The policies in the informer's store, one entry per change.
  handled,   \* How many of those entries the handler has been told of.
  subjects,    \* cachedSubjectsWithFilters: the entry it was computed from.
  applied,   \* The names in the status of the resource.
  flags,     \* The features: oidc, and the default mode of authorization.
  provider,  \* Is the OIDC provider initialised?
  call,      \* The requests in flight.
  policyChanges

authVars == <<history, handled, subjects, applied, flags, provider, call, policyChanges>>

(* The default modes of authorization only count with the OIDC feature.    *)
Features ==
  {[oidc |-> FALSE, mode |-> "allow-all"]}
    \cup [oidc : {TRUE}, mode : {"allow-all", "deny-all", "allow-same-namespace"}]

Policies == history[Len(history)]

AuthInit ==
  /\ history = <<[n \in {} |-> None]>>
  /\ handled = 1
  /\ subjects = None
  /\ applied = {}
  /\ flags \in Features
  /\ provider = FALSE
  /\ call = [c \in Calls |-> None]
  /\ policyChanges = 0

ChangeOne ==
  /\ policyChanges < MaxPolicyChanges
  /\ policyChanges' = policyChanges + 1

(* A policy is created, changed or deleted, and the store has it.          *)
PolicyChanges(n) ==
  /\ ChangeOne
  /\ \/ \E v \in PolicyVariants :
          history' = Append(history,
            [k \in DOMAIN Policies \cup {n} |-> IF k = n THEN v ELSE Policies[k]])
     \/ /\ n \in DOMAIN Policies
        /\ history' = Append(history, [k \in DOMAIN Policies \ {n} |-> Policies[k]])
  /\ UNCHANGED <<handled, subjects, applied, flags, provider, call>>

(* A handler that misses the changes of a policy that stays.               *)
invalidateSubjectsCacheNoUpdate ==
  /\ handled < Len(history)
  /\ handled' = handled + 1
  /\ subjects' = IF DOMAIN history[handled] = DOMAIN history[handled + 1] THEN subjects ELSE None
  /\ UNCHANGED <<history, applied, flags, provider, call, policyChanges>>

(* The informer calls its handler for one change after the other.          *)
invalidateSubjectsCache ==
  /\ handled < Len(history)
  /\ handled' = handled + 1
  /\ subjects' = None
  /\ UNCHANGED <<history, applied, flags, provider, call, policyChanges>>

(* The reconciler of the resource writes the names that apply, later.      *)
StatusCatchesUp ==
  /\ applied # DOMAIN Policies
  /\ applied' = DOMAIN Policies
  /\ UNCHANGED <<history, handled, subjects, flags, provider, call, policyChanges>>

(* The feature store changes, and calls the verifier back to initialise    *)
(* its provider; when the discovery fails the old one stays.               *)
FeaturesChange ==
  /\ ChangeOne
  /\ flags' \in Features \ {flags}
  /\ UNCHANGED <<history, handled, subjects, applied, call>>

initOIDCProvider == provider' = TRUE \/ UNCHANGED provider

ConfigUpdate == FeaturesChange /\ initOIDCProvider

(* ServeHTTP: the features are read once, for the whole request.           *)
AuthServeHTTP(c) ==
  /\ call[c] = None
  /\ call' = [call EXCEPT ![c] = [at |-> "subjects", flags |-> flags, since |-> handled,
                                 entry |-> None]]
  /\ UNCHANGED <<history, handled, subjects, applied, flags, provider, policyChanges>>

(* getAuthSubjects: the fast path under the read lock, or a miss.          *)
getAuthSubjects(c) ==
  /\ call[c] # None /\ call[c].at = "subjects"
  /\ call' = [call EXCEPT ![c] = IF subjects # None
                THEN [@ EXCEPT !.at = "verify", !.entry = subjects]
                ELSE [@ EXCEPT !.at = "lock"]]
  /\ UNCHANGED <<history, handled, subjects, applied, flags, provider, policyChanges>>

(* ... and then, under the write lock, the cache once more or the lister.  *)
FillCache(c) ==
  /\ call[c] # None /\ call[c].at = "lock"
  /\ subjects' = IF subjects # None THEN subjects ELSE Len(history)
  /\ call' = [call EXCEPT ![c] = [@ EXCEPT !.at = "verify", !.entry = subjects']]
  /\ UNCHANGED <<history, handled, applied, flags, provider, policyChanges>>

(* The policies with which an ingress decides: those that the status of    *)
(* the resource names; a name that the lister misses is an error.          *)
SubjectWithFiltersFromPolicyRef ==
  IF applied \subseteq DOMAIN Policies THEN [n \in applied |-> Policies[n]] ELSE None

SubjectMatchesExactly(pattern, sender) == pattern = sender

SubjectMatches(pattern, sender) ==
  pattern = sender \/ (pattern[2] = "*" /\ pattern[1] = sender[1])

Passes(policy, type) == policy.filter \in {"any", type}

(* The first policy, by name, that has the subject decides alone.          *)
SubjectAndFiltersPass(policies, sender, type) ==
  LET having == {n \in DOMAIN policies :
                   \E s \in policies[n].from : SubjectMatches(s, sender)}
  IN  \E n \in having : (\A m \in having : n <= m) /\ Passes(policies[n], type)

verifyAuthN(sender) ==
  IF sender = None THEN "unauthorized" ELSE IF ~provider THEN "unauthorized" ELSE "ok"

verifyAuthZBySubjectsWithFilters(mode, sender, type, policies) ==
  IF DOMAIN policies # {}
    THEN IF SubjectAndFiltersPass(policies, sender, type) THEN "ok" ELSE "forbidden"
    ELSE CASE mode = "deny-all" -> "forbidden"
           [] mode = "allow-same-namespace" ->
                IF sender[1] = Namespace THEN "ok" ELSE "forbidden"
           [] mode = "allow-all" -> "ok"

(* VerifyRequest: nothing is verified without the feature.                 *)
VerifyRequest(features, sender, type, policies) ==
  IF ~features.oidc THEN "ok"
  ELSE IF verifyAuthN(sender) # "ok" THEN verifyAuthN(sender)
  ELSE IF policies = None THEN "error"
  ELSE verifyAuthZBySubjectsWithFilters(features.mode, sender, type, policies)

VerifyRequestFromSubjectsWithFilters(c) ==
  /\ call[c] # None /\ call[c].at = "verify"
  /\ call' = [call EXCEPT ![c] = None]
  /\ UNCHANGED <<history, handled, subjects, applied, flags, provider, policyChanges>>

AuthNext ==
  \/ \E n \in PolicyNames : PolicyChanges(n)
  \/ invalidateSubjectsCache
  \/ StatusCatchesUp
  \/ ConfigUpdate
  \/ \E c \in Calls :
       \/ AuthServeHTTP(c)
       \/ getAuthSubjects(c)
       \/ FillCache(c)
       \/ VerifyRequestFromSubjectsWithFilters(c)

AuthSpec == AuthInit /\ [][AuthNext]_authVars

-----------------------------------------------------------------------------
(* What a policy that was withdrawn or changed allowed is not allowed any  *)
(* more to a request that comes in after the informer's handler was told:  *)
(* the auth proxy decides with policies at least as new as those, although *)
(* other requests fill the cache while the handler clears it.              *)
DecidesWithNewPolicies ==
  \A c \in Calls :
    call[c] # None /\ call[c].at = "verify" => call[c].entry >= call[c].since

(* What a request must show to pass a verifier that is switched on: a      *)
(* token and, where policies apply, one of them that has its subject,      *)
(* exactly or as a prefix, and whose filters let its event pass.  Where    *)
(* one policy alone has the subject, that is enough.                       *)
Justified(answer, sender, type, policies) ==
  LET having == IF policies = None \/ sender = None THEN {}
                ELSE {n \in DOMAIN policies :
                        {sender, <<sender[1], "*">>} \cap policies[n].from # {}}
      letting == {n \in having : policies[n].filter \in {"any", type}}
  IN  /\ answer = "ok" => sender # None /\ (letting # {} \/ DOMAIN policies = {})
      /\ answer = "forbidden" /\ letting # {} => Cardinality(having) > 1

(* Whatever request the auth proxy or an ingress is about to decide, with  *)
(* the features it read and the policies it found, the answer is           *)
(* justified.                                                              *)
PassesUnderPolicy ==
  \A sender \in Senders \cup {None}, type \in {"t1", "t2"} :
    /\ \A c \in Calls :
         call[c] # None /\ call[c].at = "verify" /\ call[c].flags.oidc =>
           LET policies == history[call[c].entry]
           IN  Justified(VerifyRequest(call[c].flags, sender, type, policies),
                         sender, type, policies)
    /\ flags.oidc =>
         LET policies == SubjectWithFiltersFromPolicyRef
         IN  Justified(VerifyRequest(flags, sender, type, policies), sender, type, policies)

-----------------------------------------------------------------------------
(***************************************************************************)
(* Which EventPolicies apply to a resource, and how the resources hear of  *)
(* a policy's change (pkg/auth/event_policy.go): the handler that          *)
(* every controller of such resources adds to the informer of policies.    *)
(* It has the policy as it was and as it is, and looks the resources up in *)
(* the cache of their own informer, as that is when the handler runs; the  *)
(* caches are ahead of the handlers.                                       *)
(***************************************************************************)

CONSTANTS
  Protected,        \* The names of resources of one kind in one namespace.
  EventPolicyNames, \* The names of EventPolicies in the namespace.
  PolicyTargets,    \* What spec.to may be: None, or a set of resources and "labelled".
  MaxPolicyEvents   \* Bound on the changes of policies and of resources.

VARIABLES
  eventPolicies,  \* The policies in the informer's cache, or None.
  labels,         \* The resources in their informer's cache: whether they have
                  \* the label of the selectors, or None.
  policyNews,     \* The policies' changes that the handler is still to be told of.
  resourceNews,   \* The resources whose changes the handler is still to be told of.
  policyQueue,    \* The resources in the work queue.
  appliedTo,      \* status.policies, and the unready ones of the condition.
  unheard,        \* The resources, each with a policy whose deletion was not seen as
                  \* such since the resource was reconciled.
  policyEvents    \* How many changes there were.

policyHandlerVars == <<eventPolicies, labels, policyNews, resourceNews, policyQueue, appliedTo,
                       unheard, policyEvents>>

EventPolicy == [to : PolicyTargets, ready : BOOLEAN]

PolicyHandlersInit ==
  /\ eventPolicies = [p \in EventPolicyNames |-> None]
  /\ labels = [r \in Protected |-> FALSE]
  /\ policyNews = <<>>
  /\ resourceNews = {}
  /\ policyQueue = {}
  /\ appliedTo = [r \in Protected |-> {}]
  /\ unheard = {}
  /\ policyEvents = 0

-----------------------------------------------------------------------------
(* The informers.                                                          *)

Bounded ==
  /\ policyEvents < MaxPolicyEvents
  /\ policyEvents' = policyEvents + 1

(* tombstone: the informer found by listing that the policy is gone.       *)
EventPolicyChanges(p) ==
  /\ Bounded
  /\ \E new \in EventPolicy \cup {None}, tombstone \in BOOLEAN :
       /\ new # eventPolicies[p]
       /\ tombstone => new = None
       /\ eventPolicies' = [eventPolicies EXCEPT ![p] = new]
       /\ policyNews' = Append(policyNews,
                               [old |-> eventPolicies[p], new |-> new, tombstone |-> tombstone])
       /\ unheard' = IF tombstone THEN unheard \cup (Protected \X {p}) ELSE unheard
  /\ UNCHANGED <<labels, resourceNews, policyQueue, appliedTo>>

(* A resource is made, gets or loses the label, or is deleted.             *)
ResourceChanges(r) ==
  /\ Bounded
  /\ \E new \in {None, TRUE, FALSE} :
       /\ new # labels[r]
       /\ labels' = [labels EXCEPT ![r] = new]
       /\ appliedTo' = IF new = None THEN [appliedTo EXCEPT ![r] = {}] ELSE appliedTo
  /\ resourceNews' = resourceNews \cup {r}
  /\ UNCHANGED <<eventPolicies, policyNews, policyQueue, unheard>>

ResourceHandler(r) ==
  /\ r \in resourceNews
  /\ resourceNews' = resourceNews \ {r}
  /\ policyQueue' = policyQueue \cup {r}
  /\ UNCHANGED <<eventPolicies, labels, policyNews, appliedTo, unheard, policyEvents>>

-----------------------------------------------------------------------------
(* The handler of the policies.                                            *)

There == {r \in Protected : labels[r] # None}
Selected == {r \in There : labels[r]}

(* Those that a reference names need not be there.                         *)
GetApplyingResourcesOfEventPolicyForGK(policy) ==
  IF policy = None THEN {}
  ELSE IF policy.to = None THEN There
  ELSE (policy.to \cap Protected) \cup (IF "labelled" \in policy.to THEN Selected ELSE {})

(* Mutant: only what the policy applies to now is queued.                  *)
ToHandleNew(e) == IF e.tombstone THEN {} ELSE GetApplyingResourcesOfEventPolicyForGK(e.new)

(* AddFunc, UpdateFunc and DeleteFunc.  A deletion that was not seen comes *)
(* as an object of another type, for which DeleteFunc does nothing.        *)
EventPolicyEventHandler(e) ==
  IF e.tombstone THEN {}
  ELSE GetApplyingResourcesOfEventPolicyForGK(e.old)
       \cup GetApplyingResourcesOfEventPolicyForGK(e.new)

PolicyHandler ==
  /\ policyNews # <<>>
  /\ policyNews' = Tail(policyNews)
  /\ policyQueue' = policyQueue \cup EventPolicyEventHandler(Head(policyNews))
  /\ UNCHANGED <<eventPolicies, labels, resourceNews, appliedTo, unheard, policyEvents>>

-----------------------------------------------------------------------------
(* The reconcilers of the resources.                                       *)

AppliesTo(p, r) ==
  LET policy == eventPolicies[p] IN
  /\ policy # None
  /\ policy.to # None =>
       r \in policy.to \/ ("labelled" \in policy.to /\ labels[r])

GetEventPoliciesForResource(r) == {p \in EventPolicyNames : AppliesTo(p, r)}

PolicyReconcile(r) ==
  /\ r \in policyQueue
  /\ policyQueue' = policyQueue \ {r}
  /\ appliedTo' = IF labels[r] = None THEN appliedTo
                  ELSE [appliedTo EXCEPT ![r] = {<<p, eventPolicies[p].ready>> :
                                                   p \in GetEventPoliciesForResource(r)}]
  /\ unheard' = {x \in unheard : x[1] # r}
  /\ UNCHANGED <<eventPolicies, labels, policyNews, resourceNews, policyEvents>>

PolicySettled == policyNews = <<>> /\ resourceNews = {} /\ policyQueue = {}

PolicyIdle == PolicySettled /\ UNCHANGED policyHandlerVars

PolicyHandlersNext ==
  \/ \E p \in EventPolicyNames : EventPolicyChanges(p)
  \/ PolicyHandler
  \/ \E r \in Protected : ResourceChanges(r) \/ ResourceHandler(r) \/ PolicyReconcile(r)
  \/ PolicyIdle

PolicyHandlersSpec == PolicyHandlersInit /\ [][PolicyHandlersNext]_policyHandlerVars

-----------------------------------------------------------------------------
(* When all changes have been handled, the status of every resource has    *)
(* the policies that apply to it, each as ready as it is, whatever changed *)
(* before: the policy's targets, so that it applied or now applies, or the *)
(* resource's labels while the policy's handler was yet to run             *)
(* ("if the EventPolicy was referencing or got updated and now is          *)
(* referencing the resource").  Only a policy whose deletion the informer  *)
(* did not see may stay in the list.                                       *)
PoliciesAreKnown ==
  PolicySettled =>
    \A r \in There :
      {x \in appliedTo[r] : <<r, x[1]>> \notin unheard}
        = {<<p, eventPolicies[p].ready>> : p \in {q \in EventPolicyNames : AppliesTo(q, r)}}

===============================================================================
