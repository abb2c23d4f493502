-------------------------- MODULE SourceReconcilers ---------------------------
(***************************************************************************)
(* The reconcilers of the sources: PingSource, ApiServerSource,            *)
(* ContainerSource, SinkBinding and IntegrationSource, and of the          *)
(* EventTypes of any source.                                               *)
(***************************************************************************)
EXTENDS Reconciliation

-----------------------------------------------------------------------------
(***************************************************************************)
(* Reconciliation of a PingSource (pkg/reconciler/pingsource): its service *)
(* account, its sink, and the multi-tenant adapter's deployment, which the *)
(* release brings along and all PingSources share.                         *)
(***************************************************************************)

PingSourceSpecs == [schedule : {"s1", "s2"}]

(***************************************************************************)
(* sink: it resolves; oidc: feature; sa: the service account; config: the  *)
(* configuration the adapter is to run with; adapter: its deployment, the  *)
(* configuration in its environment, whether it has replicas, and its      *)
(* Available condition (Unknown while replicas are unavailable).           *)
(***************************************************************************)
PingSourceStarts ==
  {[sink |-> TRUE, oidc |-> oidc, sa |-> None, config |-> "c1",
    adapter |-> [config |-> "none", replicas |-> 0, available |-> "Unknown"]] :
      oidc \in BOOLEAN}

PingSourceChildren == {"sa", "adapter"}

PingSourceEnv(w, f) ==
  CASE f \in {"sink", "oidc"} -> BOOLEAN
    [] f = "config" -> {"c1", "c2"}
    [] f = "sa" -> ServiceAccounts \union {None}
    [] f = "adapter" -> {None} \union
         (IF w.adapter = None
          THEN {[config |-> "none", replicas |-> 0, available |-> "Unknown"]}
          ELSE {[w.adapter EXCEPT !.replicas = 0], [w.adapter EXCEPT !.config = "none"],
                [w.adapter EXCEPT !.available = "False"]})
    [] OTHER -> {}

PingSourceHeal(w, f) ==
  IF f = "adapter" /\ w.adapter # None /\ w.adapter.replicas > 0
  THEN {[w.adapter EXCEPT !.available = "True"]} ELSE {}

\* NewController: a change of the configuration reaches no PingSource.
PingSourceEnqueues(f, old, new) ==
  CASE f = "sa" -> {old.sa, new.sa} \cap {"ours", "edited"} # {}
    [] OTHER -> f \in {"obj", "sink", "oidc", "adapter"}

PingSourceDependents == {"SinkProvided", "Deployed", "OIDCIdentityCreated"}

PingSourceNewStatus == [conds |-> InitializeConditions(PingSourceDependents), gen |-> 0, sink |-> FALSE,
              auth |-> FALSE, attributes |-> FALSE]

PingSourceDerived == DOMAIN PingSourceNewStatus

-----------------------------------------------------------------------------
\* The Mark methods of the status.
PingSourceMarkCondition(s, t, v) == Cond(PingSourceDependents, s, t, v)

\* A sink that is not found is reported by an event, not as an error.
PingSourceResolveSink(s) ==
  IF s.seen.sink THEN PingSourceMarkCondition([s EXCEPT !.st.sink = TRUE], "SinkProvided", "True")
  ELSE Done(PingSourceMarkCondition(s, "SinkProvided", "False"))

\* The environment of the adapter: the configurations the controller watches.
MakeReceiveAdapterEnvVar(s) == s.seen.config

needsUpdating(s) == s.w.adapter.replicas = 0 \/ s.w.adapter.config # MakeReceiveAdapterEnvVar(s)

\* Mutant: an adapter without replicas is left alone.
reconcileReceiveAdapterScaled(s) ==
  CASE s.w.adapter = None -> Error(s)
    [] s.w.adapter # None /\ s.w.adapter.config # MakeReceiveAdapterEnvVar(s) ->
         Patch(s, "adapter", [s.w.adapter EXCEPT !.config = MakeReceiveAdapterEnvVar(s)])
    [] OTHER -> s

\* reconcileReceiveAdapter: the deployment is read from the API server.
PingSourceReconcileReceiveAdapter(s) ==
  CASE s.w.adapter = None -> Error(s)
    [] s.w.adapter # None /\ needsUpdating(s) ->
         Patch(s, "adapter", [s.w.adapter EXCEPT !.config = MakeReceiveAdapterEnvVar(s), !.replicas = 1])
    [] OTHER -> s

\* PropagateDeploymentAvailability and the event attributes.
PingSourcePropagateAdapter(s) ==
  PingSourceMarkCondition([s EXCEPT !.st.attributes = TRUE], "Deployed", s.w.adapter.available)

PingSourceReconcileKind(s0) ==
  LET s1 == SetupOIDCServiceAccount(PingSourceDependents, s0)
      s2 == Then(s1, PingSourceResolveSink)
      s3 == Then(s2, PingSourceReconcileReceiveAdapter)
  IN Then(s3, PingSourcePropagateAdapter)

PingSourceFinalizeKind(s) == [s EXCEPT !.st.attributes = FALSE]

\* The generated reconciler, a Finalizer.
\* A new leader enqueues every object of its bucket.
PingSourcePromoteFunc(w) == TRUE

PingSourceReconcileMethodFor(o) == IF o.deleting THEN "DoFinalizeKind" ELSE "DoReconcileKind"

PingSourceSetFinalizerIfFinalizer(existing, s) == updateFinalizersFiltered(existing, s, TRUE)

\* Mutant: the finalizer stays.
clearFinalizerNever(existing, s) == s

PingSourceClearFinalizer(existing, s) == ClearFinalizer(existing, s)

PingSourceReconcile(existing, o, seen, w, fail) ==
  LET s == Begin(existing, o, seen, w, fail)
      f == PingSourceSetFinalizerIfFinalizer(existing, s)
  IN IF PingSourceReconcileMethodFor(existing) = "DoReconcileKind"
     THEN Then(f, LAMBDA t : DoReconcileKind(PingSourceReconcileKind, PingSourceDependents, existing, t))
     ELSE PingSourceClearFinalizer(existing, PingSourceFinalizeKind(s))

PingSourceUpdateStatus(existing, o, desired) == RetryUpdateConflicts(o, desired)

-----------------------------------------------------------------------------
\* Objects whose changes reach the resource with the next resync only.
PingSourceUnwatched == {"config"}

PingSourcePromise(spec, w) ==
  /\ w.sink
  /\ w.oidc => w.sa \in {"ours", "edited"}
  /\ w.adapter # None /\ w.adapter.available = "True"

\* No condition tells that there is no adapter.
PingSourceHidden(spec, w) == w.adapter = None

PingSourceProvided(spec, w) ==
  w.sink => w.adapter # None /\ w.adapter.replicas > 0 /\ w.adapter.config = w.config

-----------------------------------------------------------------------------
(***************************************************************************)
(* Reconciliation of an ApiServerSource (pkg/reconciler/apiserversource):  *)
(* service account, role and role binding for OIDC, sink, the namespaces   *)
(* to watch, the access check, trust bundles and the receive adapter.      *)
(***************************************************************************)

\* selector: the source watches the namespaces with a label, else its own;
\* account: spec.serviceAccountName is set.
ApiServerSourceSpecs == [selector : BOOLEAN, account : BOOLEAN]

(***************************************************************************)
(* namespaces: those with the label; access: the account may watch the     *)
(* resources; adapter: the receive adapter's deployment, with the          *)
(* namespaces in its environment and whether it mounts trust bundles.      *)
(***************************************************************************)
ApiServerSourceStarts ==
  {[sink |-> TRUE, oidc |-> on, sa |-> None, role |-> None, binding |-> None,
    namespaces |-> {"n1"}, access |-> TRUE, bundle |-> IF on THEN "v1" ELSE None,
    copy |-> None, adapter |-> None] : on \in BOOLEAN}

ApiServerSourceChildren == {"sa", "role", "binding", "copy", "adapter"}

ApiServerSourceEnv(w, f) ==
  CASE f \in {"sink", "oidc", "access"} -> BOOLEAN
    [] f = "sa" -> ServiceAccounts \union {None}
    [] f \in {"role", "binding"} /\ w[f] # None -> {None, "edited"}
    [] f = "namespaces" -> {{"n1"}, {"n1", "n2"}}
    [] f = "bundle" -> Bundles
    [] f = "copy" -> EnvCopy(w)
    [] f = "adapter" -> {None, Foreign} \union
         (IF w.adapter \in {None, Foreign} THEN {}
          ELSE {[w.adapter EXCEPT !.namespaces = {}], [w.adapter EXCEPT !.available = "False"]})
    [] OTHER -> {}

ApiServerSourceHeal(w, f) ==
  IF f = "adapter" /\ w.adapter \notin {None, Foreign}
  THEN {[w.adapter EXCEPT !.available = "True"]} ELSE {}

\* NewController.
ApiServerSourceEnqueues(f, old, new) ==
  CASE f = "sa" -> {old.sa, new.sa} \cap {"ours", "edited"} # {}
    [] f = "adapter" -> {old.adapter, new.adapter} \ {None, Foreign} # {}
    [] OTHER -> f \in {"obj", "sink", "oidc", "role", "binding", "namespaces", "bundle", "copy"}

ApiServerSourceDependents == {"SinkProvided", "Deployed", "SufficientPermissions", "OIDCIdentityCreated"}

ApiServerSourceNewStatus == [conds |-> InitializeConditions(ApiServerSourceDependents), gen |-> 0, sink |-> FALSE,
              auth |-> FALSE, namespaces |-> {}, attributes |-> FALSE]

ApiServerSourceDerived == DOMAIN ApiServerSourceNewStatus

-----------------------------------------------------------------------------
\* The Mark methods of the status.
ApiServerSourceMarkCondition(s, t, v) == Cond(ApiServerSourceDependents, s, t, v)

MakeOIDCRole == "ours"
MakeOIDCRoleBinding == "ours"

createOIDCRole(s) ==
  CASE s.seen.role = None -> Create(s, "role", MakeOIDCRole)
    [] s.seen.role = "edited" -> UpdateInPlace(s, "role", MakeOIDCRole)
    [] OTHER -> s

\* MakeOIDCRoleBinding needs the account of the spec.
createOIDCRoleBinding(s) ==
  CASE ~ s.spec.account -> Error(s)
    [] s.spec.account /\ s.seen.binding = None -> Create(s, "binding", MakeOIDCRoleBinding)
    [] s.spec.account /\ s.seen.binding = "edited" -> UpdateInPlace(s, "binding", MakeOIDCRoleBinding)
    [] OTHER -> s

reconcileRoles(s) ==
  IF s.seen.oidc THEN LET r == createOIDCRole(s) IN Then(r, createOIDCRoleBinding) ELSE s

ApiServerSourceResolveSink(s) ==
  IF s.seen.sink THEN ApiServerSourceMarkCondition([s EXCEPT !.st.sink = TRUE], "SinkProvided", "True")
  ELSE Done(ApiServerSourceMarkCondition(s, "SinkProvided", "False"))

namespacesFromSelector(spec, see) == IF spec.selector THEN see.namespaces ELSE {"own"}

\* runAccessCheck asks the API server.
runAccessCheck(s) ==
  LET c == ApiServerSourceMarkCondition([s EXCEPT !.st.namespaces = namespacesFromSelector(s.spec, s.seen)],
                "SufficientPermissions", BoolStatus(s.w.access))
  IN IF s.w.access THEN c ELSE Error(c)

\* podSpecChanged: the environment is compared exactly, volumes may be left over.
ApiServerSourcePodSpecChanged(s) ==
  \/ s.w.adapter.namespaces # namespacesFromSelector(s.spec, s.seen)
  \/ AddTrustBundleVolumes(s.seen) /\ ~ s.w.adapter.bundle

\* The environment of the adapter that depends on what is observed.
ApiServerSourceMakeEnv(s) == namespacesFromSelector(s.spec, s.seen)

MakeReceiveAdapter(s) ==
  [namespaces |-> ApiServerSourceMakeEnv(s), bundle |-> AddTrustBundleVolumes(s.seen), available |-> "Unknown"]

\* createReceiveAdapter: the deployment is read from the API server.
createReceiveAdapter(s) ==
  LET expected == MakeReceiveAdapter(s)
  IN CASE s.w.adapter = None -> Create(s, "adapter", expected)
       [] s.w.adapter = Foreign -> Error(s)
       [] s.w.adapter \notin {None, Foreign} /\ ApiServerSourcePodSpecChanged(s) ->
            Patch(s, "adapter", [expected EXCEPT !.available = s.w.adapter.available])
       [] OTHER -> s

ApiServerSourcePropagateAdapter(s) ==
  ApiServerSourceMarkCondition([s EXCEPT !.st.attributes = TRUE], "Deployed", s.w.adapter.available)

ApiServerSourceReconcileKind(s0) ==
  LET s1 == SetupOIDCServiceAccount(ApiServerSourceDependents, s0)
      s2 == Then(s1, reconcileRoles)
      s3 == Then(s2, ApiServerSourceResolveSink)
      s4 == Then(s3, runAccessCheck)
      s5 == Then(s4, PropagateTrustBundles)
      s6 == Then(s5, createReceiveAdapter)
  IN Then(s6, ApiServerSourcePropagateAdapter)

ApiServerSourceFinalizeKind(s) == [s EXCEPT !.st.attributes = FALSE]

\* The generated reconciler, a Finalizer.
\* A new leader enqueues every object of its bucket.
ApiServerSourcePromoteFunc(w) == TRUE

ApiServerSourceReconcileMethodFor(o) == IF o.deleting THEN "DoFinalizeKind" ELSE "DoReconcileKind"

ApiServerSourceSetFinalizerIfFinalizer(existing, s) == updateFinalizersFiltered(existing, s, TRUE)

ApiServerSourceClearFinalizer(existing, s) == ClearFinalizer(existing, s)

ApiServerSourceReconcile(existing, o, seen, w, fail) ==
  LET s == Begin(existing, o, seen, w, fail)
      f == ApiServerSourceSetFinalizerIfFinalizer(existing, s)
  IN IF ApiServerSourceReconcileMethodFor(existing) = "DoReconcileKind"
     THEN Then(f, LAMBDA t : DoReconcileKind(ApiServerSourceReconcileKind, ApiServerSourceDependents, existing, t))
     ELSE ApiServerSourceClearFinalizer(existing, ApiServerSourceFinalizeKind(s))

ApiServerSourceUpdateStatus(existing, o, desired) == RetryUpdateConflicts(o, desired)

-----------------------------------------------------------------------------
\* Objects whose changes reach the resource with the next resync only.
ApiServerSourceUnwatched == {"access"}

ApiServerSourcePromise(spec, w) ==
  /\ w.sink /\ w.access
  /\ w.oidc => w.sa \in {"ours", "edited"} /\ spec.account
  /\ w.adapter \notin {None, Foreign} /\ w.adapter.available = "True"

\* No condition tells that the role binding cannot be made, or that the
\* deployment is somebody else's.
ApiServerSourceHidden(spec, w) == (w.oidc /\ ~ spec.account) \/ w.adapter = Foreign

ApiServerSourceProvided(spec, w) ==
  w.sink /\ w.access =>
    /\ w.adapter # None /\ w.adapter.namespaces = namespacesFromSelector(spec, w)
    /\ w.adapter.bundle \/ w.bundle = None
    /\ w.oidc => w.role = "ours" /\ w.binding = "ours"
    /\ BundleIsPropagated(w)

-----------------------------------------------------------------------------
(***************************************************************************)
(* Reconciliation of a ContainerSource (pkg/reconciler/containersource): a *)
(* SinkBinding with its sink and overrides and a Deployment with its       *)
(* template.  The SinkBinding's subject is that Deployment: its controller *)
(* (modelled here by Heal) appends the binding's environment to the        *)
(* template, and both controllers write to the same object.                *)
(***************************************************************************)

\* The template, and whether there are overrides, the part of a binding's spec
\* that may be left out.
ContainerSourceSpecs == [template : {"t1", "t2"}, overrides : BOOLEAN]

(***************************************************************************)
(* binding: the SinkBinding, its overrides, its Ready condition and the    *)
(* status it shares; deployment: its template, whether it is bound, and    *)
(* its Available condition.                                                *)
(***************************************************************************)
ContainerSourceStarts == {[binding |-> None, deployment |-> None]}

ContainerSourceChildren == {"binding", "deployment"}

ContainerSourceOwned(x) == x \notin {None, Foreign}

ContainerSourceEnv(w, f) ==
  {None, Foreign} \union
  (IF ~ ContainerSourceOwned(w[f]) THEN {}
   ELSE IF f = "binding"
   THEN {[w.binding EXCEPT !.ready = "False"], [w.binding EXCEPT !.overrides = ~ @]}
   ELSE {[w.deployment EXCEPT !.avail = "False"], [w.deployment EXCEPT !.template = "other"]})

\* The SinkBinding resolves its sink and binds the deployment, which gets available.
ContainerSourceHeal(w, f) ==
  CASE f = "binding" /\ ContainerSourceOwned(w.binding) -> {[w.binding EXCEPT !.ready = "True", !.sink = TRUE]}
    [] f = "deployment" /\ ContainerSourceOwned(w.deployment) ->
         {[w.deployment EXCEPT !.avail = "True", !.bound = ContainerSourceOwned(w.binding) /\ w.binding.sink]}
    [] OTHER -> {}

\* NewController: objects that are or were the source's.
ContainerSourceEnqueues(f, old, new) == IF f = "obj" THEN TRUE ELSE ContainerSourceOwned(old[f]) \/ ContainerSourceOwned(new[f])

ContainerSourceDependents == {"SinkBindingReady", "ReceiveAdapterReady"}

ContainerSourceNewStatus == [conds |-> InitializeConditions(ContainerSourceDependents), gen |-> 0, sink |-> FALSE]

ContainerSourceDerived == DOMAIN ContainerSourceNewStatus

-----------------------------------------------------------------------------
\* The Mark methods of the status.
ContainerSourceMarkCondition(s, t, v) == Cond(ContainerSourceDependents, s, t, v)

\* DeepDerivative: overrides that are wanted are there, others may be.
sinkBindingSpecChanged(have, want) == want.overrides /\ ~ have.overrides

\* Mutant: the environment that the binding appends is a difference.
podTemplateDiffers(have, want) == want.template # have.template \/ have.bound

\* DeepDerivative: the environment that the binding appends is no difference.
podTemplateChanged(have, want) == want.template # have.template

PropagateSinkBindingStatus(s, b) ==
  ContainerSourceMarkCondition([s EXCEPT !.st.sink = b.sink], "SinkBindingReady", b.ready)

MakeSinkBinding(spec) == [overrides |-> spec.overrides, ready |-> "Unknown", sink |-> FALSE]

reconcileSinkBinding(s) ==
  LET want == MakeSinkBinding(s.spec)
      r == CASE s.seen.binding = None -> Create(s, "binding", want)
             [] s.seen.binding = Foreign -> Error(s)
             [] ContainerSourceOwned(s.seen.binding) /\ sinkBindingSpecChanged(s.seen.binding, want) ->
                  UpdateInPlace(s, "binding", [s.seen.binding EXCEPT !.overrides = want.overrides])
             [] OTHER -> s
      b == IF s.seen.binding = None THEN want ELSE s.seen.binding
  IN Then(r, LAMBDA t : PropagateSinkBindingStatus(t, b))

MakeDeployment(spec) == [template |-> spec.template, bound |-> FALSE, avail |-> "Unknown"]

\* An update drops what the binding appended.
ContainerSourceReconcileReceiveAdapter(s) ==
  LET want == MakeDeployment(s.spec)
      r == CASE s.seen.deployment = None -> Create(s, "deployment", want)
             [] s.seen.deployment = Foreign -> Error(s)
             [] ContainerSourceOwned(s.seen.deployment) /\ podTemplateChanged(s.seen.deployment, want) ->
                  UpdateInPlace(s, "deployment", [want EXCEPT !.avail = s.seen.deployment.avail])
             [] OTHER -> s
      d == IF s.seen.deployment = None THEN want ELSE s.seen.deployment
  IN Then(r, LAMBDA t : ContainerSourceMarkCondition(t, "ReceiveAdapterReady", d.avail))

ContainerSourceReconcileKind(s0) ==
  LET s1 == reconcileSinkBinding(s0) IN Then(s1, ContainerSourceReconcileReceiveAdapter)

\* The generated reconciler, which is no Finalizer.
\* A new leader enqueues every object of its bucket.
ContainerSourcePromoteFunc(w) == TRUE

ContainerSourceReconcileMethodFor(o) == IF o.deleting THEN "unknown" ELSE "DoReconcileKind"

ContainerSourceSetFinalizerIfFinalizer(existing, s) == s

ContainerSourceReconcile(existing, o, seen, w, fail) ==
  LET s == Begin(existing, o, seen, w, fail)
  IN IF ContainerSourceReconcileMethodFor(existing) = "DoReconcileKind"
     THEN DoReconcileKind(ContainerSourceReconcileKind, ContainerSourceDependents, existing, ContainerSourceSetFinalizerIfFinalizer(existing, s))
     ELSE s

ContainerSourceUpdateStatus(existing, o, desired) == RetryUpdateConflicts(o, desired)

-----------------------------------------------------------------------------
ContainerSourcePromise(spec, w) ==
  /\ ContainerSourceOwned(w.binding) /\ w.binding.ready = "True"
  /\ ContainerSourceOwned(w.deployment) /\ w.deployment.avail = "True"

\* No condition tells that an object is somebody else's.
ContainerSourceHidden(spec, w) == Foreign \in {w.binding, w.deployment}

ContainerSourceProvided(spec, w) ==
  /\ ContainerSourceOwned(w.binding) /\ (spec.overrides => w.binding.overrides)
  /\ ContainerSourceOwned(w.deployment) /\ w.deployment.template = spec.template

-----------------------------------------------------------------------------
(***************************************************************************)
(* Reconciliation of a SinkBinding: Do and Undo                            *)
(* (pkg/apis/sources/v1/sinkbinding_lifecycle.go) on its subject, an       *)
(* object with a pod template, and the sub resources                       *)
(* (pkg/reconciler/sinkbinding): trust bundles, service account and token. *)
(* The reconciler around them is knative.dev/pkg/webhook/psbinding.        *)
(***************************************************************************)

\* The overrides that pods of the subject get.
SinkBindingSpecs == [overrides : {"o1", "o2"}]

(***************************************************************************)
(* sink: None while it does not resolve, and whether it has an audience;   *)
(* secret: the token's, "old" when the token expires soon or is unreadable;*)
(* subject: what its pods get: sink and overrides, token, trust bundles.   *)
(***************************************************************************)
Unbound == [overrides |-> "none", token |-> FALSE, bundle |-> FALSE]

SinkBindingStarts ==
  {[sink |-> "audience", oidc |-> oidc, sa |-> None, secret |-> None, bundle |-> None,
    copy |-> None, subject |-> Unbound] : oidc \in BOOLEAN}

SinkBindingChildren == {"sa", "secret", "copy", "subject"}

SinkBindingEnv(w, f) ==
  CASE f = "oidc" -> BOOLEAN
    [] f = "sink" -> {None, "plain", "audience"}
    [] f = "sa" -> ServiceAccounts \union {None}
    [] f = "secret" /\ w.secret # None -> {None, "old"}
    [] f = "bundle" -> Bundles
    [] f = "copy" -> EnvCopy(w)
    [] f = "subject" -> {None, Unbound}
    [] OTHER -> {}

SinkBindingHeal(w, f) == {}

\* NewController: no event of the secret enqueues a binding.
SinkBindingEnqueues(f, old, new) ==
  CASE f = "sa" -> {old.sa, new.sa} \cap {"ours", "edited"} # {}
    [] OTHER -> f # "secret"

SinkBindingDependents == {"Available", "SinkProvided", "OIDCIdentityCreated", "OIDCTokenSecretCreated",
               "TrustBundlePropagated"}

SinkBindingNewStatus == [conds |-> InitializeConditions(SinkBindingDependents), gen |-> 0, sink |-> None,
              auth |-> FALSE, secret |-> FALSE]

\* Auth stays when the sink has no audience any more.
SinkBindingDerived == DOMAIN SinkBindingNewStatus \ {"auth"}

-----------------------------------------------------------------------------
\* The Mark methods of the status.
SinkBindingMarkCondition(s, t, v) == Cond(SinkBindingDependents, s, t, v)

MarkSink(s) == SinkBindingMarkCondition([s EXCEPT !.st.sink = s.seen.sink], "SinkProvided", "True")

Undo(s) == Unbound

\* The token is the one the status of the last reconciliation names.
Do(s) ==
  IF s.seen.sink = None THEN Undo(s)
  ELSE [overrides |-> s.spec.overrides, token |-> s.st.secret,
        bundle |-> s.seen.copy # None]

\* The patch has the differences to the lister's subject.
ReconcileSubject(s, want) ==
  LET have == s.seen.subject
      after == [k \in DOMAIN want |-> IF want[k] # have[k] THEN want[k] ELSE s.w.subject[k]]
      p == CASE have = None -> Error(s)
             [] have \notin {None, want} -> IF s.w.subject = None THEN Error(s)
                                            ELSE Patch(s, "subject", after)
             [] OTHER -> s
  IN SinkBindingMarkCondition(p, "Available", BoolStatus(Ok(p)))

\* Do marks the sink.
ReconcileSubjectDo(s) ==
  ReconcileSubject(IF s.seen.subject # None /\ s.seen.sink # None THEN MarkSink(s) ELSE s, Do(s))

propagateTrustBundles(s) ==
  LET p == PropagateTrustBundles(s)
  IN SinkBindingMarkCondition(p, "TrustBundlePropagated", BoolStatus(Ok(p)))

SinkBindingResolveSink(s) ==
  IF s.seen.sink # None THEN MarkSink(s) ELSE Error(SinkBindingMarkCondition(s, "SinkProvided", "False"))

\* renewOIDCTokenSecret: the token is made for the service account of the API
\* server, and the secret applied, whatever there is.
renewOIDCTokenSecret(s) ==
  IF s.fail = "secret" \/ s.w.sa = None THEN Error(s)
  ELSE [Write(s, "secret", "valid") EXCEPT !.st.secret = TRUE]

reconcileOIDCTokenSecret(s) ==
  LET r == IF s.seen.secret = "valid" THEN [s EXCEPT !.st.secret = TRUE]
           ELSE renewOIDCTokenSecret(s)
  IN SinkBindingMarkCondition(r, "OIDCTokenSecretCreated", BoolStatus(Ok(r)))

setupIdentity(s) ==
  LET e == EnsureOIDCServiceAccountExistsForResource([s EXCEPT !.st.auth = TRUE])
      c == SinkBindingMarkCondition(e, "OIDCIdentityCreated", BoolStatus(Ok(e)))
  IN Then(c, reconcileOIDCTokenSecret)

\* removeOIDCTokenSecretEventually: only a secret that the status names.
removeOIDCTokenSecret(s) ==
  LET c == SinkBindingMarkCondition(SinkBindingMarkCondition(s, "OIDCIdentityCreated", "True"),
                "OIDCTokenSecretCreated", "True")
      d == IF s.st.secret /\ s.seen.secret # None THEN Delete(c, "secret") ELSE c
  IN Then(d, LAMBDA t : [t EXCEPT !.st.secret = FALSE])

reconcileIdentity(s) ==
  CASE s.seen.oidc /\ s.st.sink = "audience" -> setupIdentity(s)
    [] s.seen.oidc /\ s.st.sink # "audience" -> removeOIDCTokenSecret(s)
    [] OTHER -> removeOIDCTokenSecret([s EXCEPT !.st.auth = FALSE])

\* The sub resources.
ReconcileSubResources(s) ==
  LET p == propagateTrustBundles(s)
      r == Then(p, SinkBindingResolveSink)
  IN Then(r, reconcileIdentity)

\* BaseReconciler.ReconcileDeletion: a subject that is not found is no error.
ReconcileDeletion(existing, s) ==
  LET r == ReconcileSubject(s, Undo(s))
      f == IF s.seen.subject = None \/ s.w.subject = None THEN [r EXCEPT !.err = "nil"] ELSE r
  IN ClearFinalizer(existing, f)

\* BaseReconciler.reconcile: the generation is noted on success only.
SinkBindingReconcile(existing, o, seen, w, fail) ==
  LET s == Begin(existing, o, seen, w, fail)
      f == updateFinalizersFiltered(existing, s, TRUE)
      d == Then(f, LAMBDA t : OnCopy(t, ReconcileSubjectDo(t)))
      r == Then(d, LAMBDA t : OnCopy(t, ReconcileSubResources(t)))
  IN IF existing.deleting THEN ReconcileDeletion(existing, s)
     ELSE Then(r, LAMBDA t : PostProcess(existing, t))

\* BaseReconciler.UpdateStatus: to the version the informer shows.
SinkBindingUpdateStatus(existing, o, desired) ==
  IF existing # o THEN Error([o |-> o, err |-> "nil"])
  ELSE [o |-> [o EXCEPT !.status = desired], err |-> "nil"]

\* A new leader enqueues every object of its bucket.
SinkBindingPromoteFunc(w) == TRUE

-----------------------------------------------------------------------------
NeedsToken(w) == w.oidc /\ w.sink = "audience"

\* Objects whose changes reach the resource with the next resync only.
SinkBindingUnwatched == {"secret"}

SinkBindingPromise(spec, w) ==
  /\ w.subject # None /\ w.sink # None
  /\ NeedsToken(w) => w.sa = "ours"

\* The subject's pods get all they need.
SinkBindingProvided(spec, w) ==
  /\ w.subject = [overrides |-> spec.overrides, token |-> NeedsToken(w),
                  bundle |-> w.copy # None]
  /\ NeedsToken(w) => w.secret = "valid"
  /\ BundleIsPropagated(w)

-----------------------------------------------------------------------------
(***************************************************************************)
(* Reconciliation of the EventTypes of a source of any kind                *)
(* (pkg/reconciler/source/duck): one for each type of event that its       *)
(* status announces, with schema and description from the source's CRD.    *)
(* The status is the source's own; this controller writes none.            *)
(*                                                                         *)
(* An EventType is named by its type and schema.                           *)
(***************************************************************************)

\* Whether the sink is a reference to a resource.
SourceDuckSpecs == [ref : BOOLEAN]

Schemas == {"s1", "s2"}

(***************************************************************************)
(* announced: the source announces events; schema and text: the CRD's      *)
(* annotation; s1, s2: the EventType with that schema, its description.    *)
(***************************************************************************)
SourceDuckStarts == {[announced |-> TRUE, schema |-> "s1", text |-> "d1", s1 |-> None, s2 |-> None]}

\* Writes that may fail: of an EventType, or the creation after its deletion.
SourceDuckChildren == Schemas \union {"create"}

SourceDuckEnv(w, f) ==
  CASE f = "announced" -> BOOLEAN
    [] f = "schema" -> Schemas
    [] f = "text" -> {"d1", "d2"}
    [] f \in Schemas -> {None, Foreign} \union (IF w[f] = "d1" THEN {"edited"} ELSE {})

SourceDuckHeal(w, f) == {}

\* NewController: the source with its status and the EventTypes it controls; the
\* CRD is not watched.
SourceDuckEnqueues(f, old, new) ==
  CASE f \in Schemas -> old[f] \notin {None, Foreign} \/ new[f] \notin {None, Foreign}
    [] OTHER -> f \in {"obj", "announced"}

SourceDuckNewStatus == [conds |-> InitializeConditions({}), gen |-> 0]

SourceDuckDerived == {}

-----------------------------------------------------------------------------
\* getEventTypes: those the source controls.
Current(s, f) == s.seen[f] \notin {None, Foreign}

\* makeEventTypes: the description that the EventType with schema f should have.
makeEventTypes(spec, see, f) ==
  IF spec.ref /\ see.announced /\ see.schema = f THEN see.text ELSE None

\* Mutant: an EventType that is there is left as it is.
computeDiffByKey(s, f) ==
  LET e == makeEventTypes(s.spec, s.seen, f)
  IN [delete |-> Current(s, f) /\ e = None, create |-> e # None /\ ~ Current(s, f)]

\* computeDiff: whether an EventType is deleted, and whether it is created.
computeDiff(s, f) ==
  LET e == makeEventTypes(s.spec, s.seen, f)
  IN [delete |-> Current(s, f) /\ e # s.seen[f],
      create |-> e # None /\ (Current(s, f) => e # s.seen[f])]

deleteEventType(s, f) == IF computeDiff(s, f).delete THEN Delete(s, f) ELSE s

createEventType(s, f) ==
  CASE ~ computeDiff(s, f).create -> s
    [] computeDiff(s, f).create /\ s.fail = "create" -> Error(s)
    [] OTHER -> Create(s, f, makeEventTypes(s.spec, s.seen, f))

\* reconcileEventTypes: deletions come first; the first error is the end.
reconcileEventTypes(s0) ==
  LET s1 == deleteEventType(s0, "s1")
      s2 == Then(s1, LAMBDA t : deleteEventType(t, "s2"))
      s3 == Then(s2, LAMBDA t : createEventType(t, "s1"))
  IN Then(s3, LAMBDA t : createEventType(t, "s2"))

\* Reconcile of the controller, which does not look at deletions, writes no status
\* and runs in all replicas.
SourceDuckReconcile(existing, o, seen, w, fail) ==
  LET s == Begin(existing, o, seen, w, fail) IN OnCopy(s, reconcileEventTypes(s))

SourceDuckUpdateStatus(existing, o, desired) == [o |-> o, err |-> "nil"]

\* A new leader enqueues every object of its bucket.
SourceDuckPromoteFunc(w) == TRUE

-----------------------------------------------------------------------------
\* Objects whose changes reach the resource with the next resync only.
SourceDuckUnwatched == {"schema", "text"}

\* Nothing is said of a source's readiness.
SourceDuckPromise(spec, w) == FALSE

\* The EventTypes of the source are those it announces, as the CRD describes them.
SourceDuckProvided(spec, w) ==
  \A f \in Schemas : makeEventTypes(spec, w, f) = IF w[f] = Foreign THEN None ELSE w[f]

-----------------------------------------------------------------------------
(***************************************************************************)
(* Reconciliation of an IntegrationSource                                  *)
(* (pkg/reconciler/integration/source): one ContainerSource, whose status  *)
(* it takes over, and whose environment depends on that status.            *)
(***************************************************************************)

\* The settings of the source, and whether an optional one, which comes last in
\* the environment, is among them.
IntegrationSourceSpecs == [settings : {"a1", "a2"}, optional : BOOLEAN]

(***************************************************************************)
(* oidc: feature; sink: it resolves, and has an audience with oidc;        *)
(* source: the ContainerSource, its settings, whether its environment has  *)
(* the OIDC variables, its Ready condition and the audience of its sink.   *)
(***************************************************************************)
IntegrationSourceStarts == {[oidc |-> oidc, source |-> None] : oidc \in BOOLEAN}

IntegrationSourceChildren == {"source"}

IntegrationSourceOwned(x) == x \notin {None, Foreign}

IntegrationSourceEnv(w, f) ==
  IF f = "oidc" THEN BOOLEAN
  ELSE {None, Foreign} \union
       (IF IntegrationSourceOwned(w.source)
        THEN {[w.source EXCEPT !.ready = "False"], [w.source EXCEPT !.settings = "other"]}
        ELSE {})

\* The ContainerSource resolves the sink, which has an audience with oidc.
IntegrationSourceHeal(w, f) ==
  IF f = "source" /\ IntegrationSourceOwned(w.source)
  THEN {[w.source EXCEPT !.ready = "True", !.audience = w.oidc]} ELSE {}

\* NewController.
IntegrationSourceEnqueues(f, old, new) == f # "source" \/ IntegrationSourceOwned(old.source) \/ IntegrationSourceOwned(new.source)

IntegrationSourceDependents == {"ContainerSourceReady"}

IntegrationSourceNewStatus == [conds |-> InitializeConditions(IntegrationSourceDependents), gen |-> 0, audience |-> FALSE]

\* Without the audience of an earlier status another environment is made.
IntegrationSourceDerived == {"conds"}

-----------------------------------------------------------------------------
\* DeepDerivative: variables at the end that are no longer wanted are no
\* difference; those for OIDC come before the settings.
containerSourceSpecChanged(have, want) ==
  \/ want.settings # have.settings
  \/ want.optional /\ ~ have.optional
  \/ want.oidc # have.oidc

\* The environment: for OIDC when the sink has an audience, and what is configured.
IntegrationSourceMakeEnv(s) == [settings |-> s.spec.settings, optional |-> s.spec.optional,
               oidc |-> s.seen.oidc /\ s.st.audience]

NewContainerSource(s) ==
  [settings |-> IntegrationSourceMakeEnv(s).settings, optional |-> IntegrationSourceMakeEnv(s).optional, oidc |-> IntegrationSourceMakeEnv(s).oidc,
   ready |-> "Unknown", audience |-> FALSE]

\* The whole status is taken over, conditions too.
PropagateContainerSourceStatus(s, c) ==
  [s EXCEPT !.st.audience = c.audience,
            !.st.conds = Mark(IntegrationSourceDependents, [@ EXCEPT !["Ready"] = c.ready],
                              "ContainerSourceReady", c.ready)]

reconcileContainerSource(s) ==
  LET want == NewContainerSource(s)
      have == s.seen.source
      r == CASE have = None -> Create(s, "source", want)
             [] have = Foreign -> Error(s)
             [] IntegrationSourceOwned(have) /\ containerSourceSpecChanged(have, want) ->
                  UpdateInPlace(s, "source",
                    [want EXCEPT !.ready = have.ready, !.audience = have.audience])
             [] OTHER -> s
  IN Then(r, LAMBDA t : PropagateContainerSourceStatus(t, IF have = None THEN want ELSE have))

IntegrationSourceReconcileKind(s0) == reconcileContainerSource(s0)

\* The generated reconciler, which is no Finalizer.
\* A new leader enqueues every object of its bucket.
IntegrationSourcePromoteFunc(w) == TRUE

IntegrationSourceReconcileMethodFor(o) == IF o.deleting THEN "unknown" ELSE "DoReconcileKind"

IntegrationSourceSetFinalizerIfFinalizer(existing, s) == s

IntegrationSourceReconcile(existing, o, seen, w, fail) ==
  LET s == Begin(existing, o, seen, w, fail)
  IN IF IntegrationSourceReconcileMethodFor(existing) = "DoReconcileKind"
     THEN DoReconcileKind(IntegrationSourceReconcileKind, IntegrationSourceDependents, existing, IntegrationSourceSetFinalizerIfFinalizer(existing, s))
     ELSE s

IntegrationSourceUpdateStatus(existing, o, desired) == RetryUpdateConflicts(o, desired)

-----------------------------------------------------------------------------
IntegrationSourcePromise(spec, w) == IntegrationSourceOwned(w.source) /\ w.source.ready = "True"

\* No condition tells that the ContainerSource is somebody else's.
IntegrationSourceHidden(spec, w) == w.source = Foreign

IntegrationSourceProvided(spec, w) ==
  /\ IntegrationSourceOwned(w.source) /\ w.source.settings = spec.settings
  /\ spec.optional => w.source.optional
  /\ w.source.oidc = (w.oidc /\ w.source.audience)

===============================================================================
