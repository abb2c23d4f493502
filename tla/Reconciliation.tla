---------------------------- MODULE Reconciliation ----------------------------
(***************************************************************************)
(* Conditions of a resource's status, as knative.dev/pkg/apis manages them *)
(* (condition_set.go): a function from condition types to statuses.  D is  *)
(* the set of dependents of the condition set; "Ready" sums them up.       *)
(* Reasons, messages and times are left out.                               *)
(***************************************************************************)
EXTENDS TLC, Integers, Sequences

Statuses == {"True", "False", "Unknown"}

\* What the dependents amount to: False trumps Unknown, Unknown trumps True.
Happiness(D, c) ==
  IF \E t \in D : c[t] = "False" THEN "False"
  ELSE IF \E t \in D : c[t] = "Unknown" THEN "Unknown"
  ELSE "True"

InitializeConditions(D) == [t \in D \union {"Ready"} |-> "Unknown"]

MarkTrue(D, c, t) ==
  LET d == t :> "True" @@ c
  IN "Ready" :> Happiness(D, d) @@ d

MarkFalse(D, c, t) ==
  LET d == t :> "False" @@ c
  IN IF t \in D THEN "Ready" :> "False" @@ d ELSE d

MarkUnknown(D, c, t) ==
  LET d == t :> "Unknown" @@ c
  IN IF \E x \in D : d[x] = "False" THEN "Ready" :> "False" @@ d
     ELSE IF t \in D THEN "Ready" :> "Unknown" @@ d
     ELSE d

Mark(D, c, t, v) ==
  CASE v = "True" -> MarkTrue(D, c, t)
    [] v = "False" -> MarkFalse(D, c, t)
    [] v = "Unknown" -> MarkUnknown(D, c, t)

-----------------------------------------------------------------------------
(***************************************************************************)
(* One call of a ReconcileKind as a sequence of steps on a record s:       *)
(*   spec  the resource's spec, as the informer shows it                   *)
(*   seen  the other objects the reconciler reads, as informers show them  *)
(*   w     the same objects in the API server                              *)
(*   st    the resource's status, which the call computes                  *)
(*   err   what the call returns; "nil" while it goes on                   *)
(*   fail  the object whose next write the API server refuses              *)
(* An object is None while it does not exist.  Calls read listers, hence   *)
(* s.seen, and write to the API server, hence s.w.                         *)
(***************************************************************************)

CONSTANTS
  None,      \* no object
  Foreign    \* an object of that name that somebody else owns

Ok(s) == s.err = "nil"

\* The next step, from s on, unless the call has returned.
Then(s, step(_)) == IF Ok(s) THEN step(s) ELSE s

\* What is done before an error is returned.
OnError(s, step(_)) == IF Ok(s) THEN s ELSE step(s)

\* Early returns: nil, an error, or an error that is not retried.
Done(s) == [s EXCEPT !.err = "done"]
Error(s) == [s EXCEPT !.err = "error"]
SkipKey(s) == [s EXCEPT !.err = "skip"]

\* Condition t of condition set D gets status v.
Cond(D, s, t, v) == [s EXCEPT !.st.conds = Mark(D, @, t, v)]

BoolStatus(b) == IF b THEN "True" ELSE "False"

-----------------------------------------------------------------------------
(***************************************************************************)
(* The API server: names are unique, updates carry the resource version of *)
(* what was read, patches do not.                                          *)
(***************************************************************************)

Write(s, f, v) == [s EXCEPT !.w[f] = v]

Create(s, f, v) == IF s.fail = f \/ s.w[f] # None THEN Error(s) ELSE Write(s, f, v)

Update(s, f, v) ==
  IF s.fail = f \/ s.w[f] # s.seen[f] THEN Error(s) ELSE Write(s, f, v)

\* An update of the lister's own object, which shows v whatever the API server says.
UpdateInPlace(s, f, v) == [Update(s, f, v) EXCEPT !.seen[f] = v]

Patch(s, f, v) == IF s.fail = f \/ s.w[f] = None THEN Error(s) ELSE Write(s, f, v)

Delete(s, f) == IF s.fail = f \/ s.w[f] = None THEN Error(s) ELSE Write(s, f, None)

\* A deletion whose NotFound is ignored.
DeleteIfThere(s, f) == IF s.fail = f THEN Error(s) ELSE Write(s, f, None)

-----------------------------------------------------------------------------
(***************************************************************************)
(* The parts of generated reconcilers: existing is the informer's copy of  *)
(* the resource, s.o the resource in the API server.                       *)
(***************************************************************************)

Begin(existing, o, seen, w, fail) ==
  [spec |-> existing.spec, seen |-> seen, w |-> w, st |-> existing.status, err |-> "nil",
   fail |-> fail, o |-> o]

\* PreProcessReconcile: a generation not yet observed makes Ready unknown.
PreProcess(D, existing) ==
  IF existing.status.gen = existing.gen THEN existing.status
  ELSE [existing.status EXCEPT !.conds = MarkUnknown(D, @, "Ready")]

\* What is left of s and reconciliation t: it works on a copy of the resource, the
\* one in the API server is not touched.
OnCopy(s, t) ==
  [spec |-> s.spec, seen |-> t.seen, w |-> t.w, st |-> t.st, err |-> t.err, fail |-> s.fail, o |-> s.o]

\* PostProcessReconcile notes the generation in any case.
PostProcess(existing, s) == [s EXCEPT !.st.gen = existing.gen]

\* The case DoReconcileKind, for ReconcileKind RK.
DoReconcileKind(RK(_), D, existing, s) ==
  PostProcess(existing, OnCopy(s, RK([s EXCEPT !.st = PreProcess(D, existing)])))

\* updateFinalizersFiltered: the patch carries the version read, and what the API
\* server answers is the resource from then on.
updateFinalizersFiltered(existing, s, b) ==
  IF existing.finalizer = b THEN s
  ELSE IF existing # s.o THEN Error([s EXCEPT !.st = existing.status])
  ELSE [s EXCEPT !.o.finalizer = b, !.o.gone = s.o.deleting /\ ~ b /\ ~ s.o.held,
                 !.st = existing.status]

\* clearFinalizer of a reconciler that is a Finalizer: unless its work failed.
ClearFinalizer(existing, s) ==
  IF s.err \in {"error", "skip"} \/ s.o.gone THEN s
  ELSE updateFinalizersFiltered(existing, s, FALSE)

\* RetryUpdateConflicts: after a conflict the status is written to the latest
\* resource.
RetryUpdateConflicts(o, desired) ==
  IF o.gone THEN Error([o |-> o, err |-> "nil"])
  ELSE [o |-> [o EXCEPT !.status = desired], err |-> "nil"]

-----------------------------------------------------------------------------
(***************************************************************************)
(* What reconcilers share from pkg/auth: the state of the event policies   *)
(* that apply to a resource, and the OIDC service account of a resource.   *)
(***************************************************************************)

\* The policies that apply to a resource: none, all ready, or some not ready.
Policies == {"none", "ready", "notReady"}

\* UpdateStatusWithEventPolicies.
UpdateStatusWithEventPolicies(D, s) ==
  [Cond(D, s, "EventPoliciesReady", BoolStatus(s.seen.policies # "notReady"))
     EXCEPT !.st.policies = (s.seen.policies = "ready")]

\* A service account: as the controller makes it, edited by a user, or of
\* another owner.
ServiceAccounts == {"ours", "edited", Foreign}

EnsureOIDCServiceAccountExistsForResource(s) ==
  CASE s.seen.sa = None -> Create(s, "sa", "ours")
    [] s.seen.sa = Foreign -> Error(s)
    [] s.seen.sa = "edited" -> Update(s, "sa", "ours")
    [] OTHER -> s

DeleteOIDCServiceAccountIfExists(s) ==
  IF s.seen.sa \in {"ours", "edited"} THEN Delete(s, "sa") ELSE s

\* SetupOIDCServiceAccount.
SetupOIDCServiceAccount(D, s) ==
  IF s.seen.oidc
  THEN LET e == EnsureOIDCServiceAccountExistsForResource([s EXCEPT !.st.auth = TRUE])
       IN Cond(D, e, "OIDCIdentityCreated", BoolStatus(Ok(e)))
  ELSE LET d == DeleteOIDCServiceAccountIfExists(s)
       IN Then(d, LAMBDA t : Cond(D, [t EXCEPT !.st.auth = FALSE], "OIDCIdentityCreated", "True"))

-----------------------------------------------------------------------------
(***************************************************************************)
(* pkg/eventingtls/trust_bundle.go: the trust bundle of the system         *)
(* namespace (object bundle: its content, None without one) is copied to   *)
(* the namespace of a resource (object copy: its content, and whether the  *)
(* resource is one of its owners).                                         *)
(***************************************************************************)

Bundles == {None, "v1", "v2"}

\* What others make of the copy: they delete it, edit it, or create one.
EnvCopy(w) ==
  {None} \union (IF w.copy = None THEN {[data |-> "other", owned |-> FALSE]}
                 ELSE {[w.copy EXCEPT !.data = "other"], [w.copy EXCEPT !.owned = FALSE]})

\* Mutant: a copy is not deleted with the bundle.
PropagateTrustBundlesForever(s) ==
  LET expected == [data |-> s.seen.bundle, owned |-> TRUE]
  IN CASE s.seen.bundle # None /\ s.seen.copy = None -> Create(s, "copy", expected)
       [] s.seen.bundle # None /\ s.seen.copy \notin {None, expected} ->
            Update(s, "copy", expected)
       [] OTHER -> s

\* A copy whose bundle is gone is deleted by its owners, at the version read.
PropagateTrustBundles(s) ==
  LET expected == [data |-> s.seen.bundle, owned |-> TRUE]
  IN CASE s.seen.bundle = None /\ s.seen.copy # None /\ s.seen.copy.owned ->
            IF s.w.copy = None THEN s ELSE Update(s, "copy", None)
       [] s.seen.bundle # None /\ s.seen.copy = None -> Create(s, "copy", expected)
       [] s.seen.bundle # None /\ s.seen.copy \notin {None, expected} ->
            Update(s, "copy", expected)
       [] OTHER -> s

\* AddTrustBundleVolumes: pods mount the copies, those of other owners too.
AddTrustBundleVolumes(see) == see.bundle # None \/ see.copy # None

\* The namespace has the bundle, and no copy of a bundle that is gone.
BundleIsPropagated(w) ==
  IF w.bundle = None THEN w.copy = None \/ ~ w.copy.owned
  ELSE w.copy = [data |-> w.bundle, owned |-> TRUE]

-----------------------------------------------------------------------------
(***************************************************************************)
(* What the reconcilers of Sequences and Parallels have in common: the     *)
(* channels of a flow, the subscriptions between them and the event        *)
(* policies for its channels.                                              *)
(***************************************************************************)

\* A channel as created: its readiness and whether it has an address.
NewChannel == [ready |-> "Unknown", addr |-> FALSE]

\* A subscription as created: where it replies to, and its readiness.
NewSubscription(reply) == [reply |-> reply, ready |-> "Unknown"]

EnvChannel(c) ==
  IF c = None THEN {}
  ELSE {None, [c EXCEPT !.ready = "False"], [c EXCEPT !.addr = FALSE]}

EnvSubscription(b) ==
  {None, Foreign} \union
  (IF b \in {None, Foreign} THEN {}
   ELSE {[b EXCEPT !.reply = "edited"], [b EXCEPT !.ready = "False"]})

EnvPolicy(p) == IF p = None THEN {} ELSE {None, "edited"}

Owned(b) == b \notin {None, Foreign}

\* A channel gets ready and an address, a subscription gets ready.
HealOne(o) ==
  IF Owned(o) THEN {[x \in DOMAIN o |-> CASE x = "ready" -> "True"
                                       [] x = "addr" -> TRUE
                                       [] OTHER -> o[x]]} ELSE {}

\* The objects of sequence F, one after the other.
HealInOrder(w, F, f) ==
  IF \E i \in DOMAIN F : F[i] = f /\ \A j \in 1..(i - 1) : HealOne(w[F[j]]) \subseteq {w[F[j]]}
  THEN HealOne(w[f]) ELSE {}

-----------------------------------------------------------------------------

\* reconcileChannel: a channel of the name is taken as it is.
reconcileChannel(s, f) == IF s.seen[f] = None THEN Create(s, f, NewChannel) ELSE s

ChannelOf(s, f) == IF s.seen[f] = None THEN NewChannel ELSE s.seen[f]

\* A subscription to another channel, here one of another owner, is replaced.
replaceSubscription(s, f, reply) ==
  LET d == Delete(s, f) IN Then(d, LAMBDA t : Create(t, f, NewSubscription(reply)))

\* removeUnwantedChannels and removeUnwantedSubscriptions.
removeUnwanted(s, f) == IF Owned(s.seen[f]) THEN Delete(s, f) ELSE s

-----------------------------------------------------------------------------
(***************************************************************************)
(* The policies of a flow: first all missing ones are created, then those  *)
(* that were edited updated, then those not wanted deleted.                *)
(***************************************************************************)

createEventPolicy(s, f, want) ==
  IF want /\ s.seen[f] = None THEN Create(s, f, "ours") ELSE s

updateEventPolicy(s, f, want) ==
  IF want /\ s.seen[f] = "edited" THEN Update(s, f, "ours") ELSE s

deleteEventPolicy(s, f, want) ==
  IF ~ want /\ s.seen[f] # None THEN DeleteIfThere(s, f) ELSE s

\* An operation op on one policy after the other, W the wanted ones of F.
Each(op(_, _, _), s, F, W) ==
  LET One(t, i) == IF i <= Len(F) THEN op(t, F[i], F[i] \in W) ELSE t
      s1 == One(s, 1)
      s2 == Then(s1, LAMBDA t : One(t, 2))
  IN Then(s2, LAMBDA t : One(t, 3))

writeEventPolicies(s, F, W) ==
  LET c == Each(createEventPolicy, s, F, W)
      u == Then(c, LAMBDA t : Each(updateEventPolicy, t, F, W))
  IN Then(u, LAMBDA t : Each(deleteEventPolicy, t, F, W))

===============================================================================
