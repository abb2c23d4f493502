--------------------------- MODULE SinkReconcilers ----------------------------
(***************************************************************************)
(* The reconcilers of the sinks: JobSink, IntegrationSink and              *)
(* EventTransform.                                                         *)
(***************************************************************************)
EXTENDS Reconciliation

-----------------------------------------------------------------------------
(***************************************************************************)
(* Reconciliation of a JobSink (pkg/reconciler/jobsink): its addresses,    *)
(* audience and policies.  Jobs are made by the data plane.                *)
(***************************************************************************)

\* The sink has a job.
JobSinkSpecs == [job : BOOLEAN]

\* tls, oidc: features; secret: the CA certificates are there.
JobSinkStarts ==
  {[tls |-> tls, secret |-> TRUE, oidc |-> FALSE, policies |-> "none"] :
      tls \in {"disabled", "permissive", "strict"}}

JobSinkChildren == {}

JobSinkEnv(w, f) ==
  CASE f = "tls" -> {"disabled", "permissive", "strict"}
    [] f = "policies" -> Policies
    [] OTHER -> BOOLEAN

JobSinkHeal(w, f) == {}

\* NewController: everything the reconciler reads.
JobSinkEnqueues(f, old, new) == TRUE

JobSinkDependents == {"Addressable", "EventPoliciesReady"}

JobSinkNewStatus == [conds |-> InitializeConditions(JobSinkDependents), gen |-> 0, selector |-> FALSE,
              address |-> None, addresses |-> {}, audience |-> FALSE, policies |-> FALSE]

\* Addresses are left over when transport encryption is disabled, the selector
\* when the job is removed.
JobSinkDerived == DOMAIN JobSinkNewStatus \ {"addresses", "selector"}

-----------------------------------------------------------------------------
\* The Mark methods of the status.
JobSinkMarkCondition(s, t, v) == Cond(JobSinkDependents, s, t, v)

reconcileJob(s) == [s EXCEPT !.st.selector = @ \/ s.spec.job]

\* Mutant: strict mode keeps the http address.
reconcileAddressesKept(s) ==
  CASE s.seen.tls = "disabled" -> [s EXCEPT !.st.address = "http"]
    [] s.seen.tls # "disabled" /\ ~ s.seen.secret -> Error(s)
    [] s.seen.tls = "permissive" /\ s.seen.secret ->
         [s EXCEPT !.st.address = "http", !.st.addresses = {"https", "http"}]
    [] OTHER -> [s EXCEPT !.st.address = IF @ = None THEN "https" ELSE @,
                          !.st.addresses = {"https"}]

reconcileAddresses(s) ==
  CASE s.seen.tls = "disabled" -> [s EXCEPT !.st.address = "http"]
    [] s.seen.tls # "disabled" /\ ~ s.seen.secret -> Error(s)
    [] s.seen.tls = "permissive" /\ s.seen.secret ->
         [s EXCEPT !.st.address = "http", !.st.addresses = {"https", "http"}]
    [] OTHER -> [s EXCEPT !.st.address = "https", !.st.addresses = {"https"}]

JobSinkReconcileAddress(s) ==
  LET a == reconcileAddresses(s)
  IN Then(a, LAMBDA t : JobSinkMarkCondition([t EXCEPT !.st.audience = s.seen.oidc], "Addressable", "True"))

JobSinkReconcileKind(s0) ==
  LET s1 == JobSinkReconcileAddress(reconcileJob(s0))
  IN Then(s1, LAMBDA t : UpdateStatusWithEventPolicies(JobSinkDependents, t))

\* The generated reconciler, which is no Finalizer.
\* A new leader enqueues every object of its bucket.
JobSinkPromoteFunc(w) == TRUE

JobSinkReconcileMethodFor(o) == IF o.deleting THEN "unknown" ELSE "DoReconcileKind"

JobSinkSetFinalizerIfFinalizer(existing, s) == s

JobSinkReconcile(existing, o, seen, w, fail) ==
  LET s == Begin(existing, o, seen, w, fail)
  IN IF JobSinkReconcileMethodFor(existing) = "DoReconcileKind"
     THEN DoReconcileKind(JobSinkReconcileKind, JobSinkDependents, existing, JobSinkSetFinalizerIfFinalizer(existing, s))
     ELSE s

JobSinkUpdateStatus(existing, o, desired) == RetryUpdateConflicts(o, desired)

-----------------------------------------------------------------------------
JobSinkPromise(spec, w) == (w.tls # "disabled" => w.secret) /\ w.policies # "notReady"

\* No condition tells that the CA certificates are missing.
JobSinkHidden(spec, w) == w.tls # "disabled" /\ ~ w.secret

JobSinkProvided(spec, w) == TRUE

-----------------------------------------------------------------------------
(***************************************************************************)
(* Reconciliation of an IntegrationSink (pkg/reconciler/integration/sink): *)
(* trust bundles, the certificate of its server, role bindings for the     *)
(* authenticating proxy, Deployment, Service, addresses and policies.      *)
(***************************************************************************)

\* What the sink writes to.
IntegrationSinkSpecs == [settings : {"a1", "a2"}]

(***************************************************************************)
(* tls, oidc: features; cert: cert-manager's Certificate, its Ready        *)
(* condition; secret: cert-manager has written the certificate; reader,    *)
(* proxy: the role bindings in the sink's and in the system namespace;     *)
(* deployment: its pods' settings and the state of its rollout.            *)
(***************************************************************************)
IntegrationSinkStarts ==
  {[bundle |-> b, copy |-> None, tls |-> tls, cert |-> None, secret |-> FALSE,
    oidc |-> b # None, reader |-> None, proxy |-> None, deployment |-> None, service |-> None,
    policies |-> "none"] : tls \in {"disabled", "strict"}, b \in {None, "v1"}}

IntegrationSinkChildren == {"copy", "cert", "reader", "proxy", "deployment", "service"}

IntegrationSinkOwned(x) == x \notin {None, Foreign}

IntegrationSinkEnv(w, f) ==
  CASE f = "tls" -> {"disabled", "permissive", "strict"}
    [] f = "bundle" -> Bundles
    [] f = "copy" -> EnvCopy(w)
    [] f \in {"secret", "oidc"} -> BOOLEAN
    [] f = "policies" -> Policies
    [] f \in {"reader", "proxy"} /\ w[f] # None -> {None, "edited"}
    [] f = "service" -> {None, Foreign} \union (IF IntegrationSinkOwned(w.service) THEN {"edited"} ELSE {})
    [] f = "cert" /\ w.cert # None ->
         {None, [w.cert EXCEPT !.ready = "False"], [w.cert EXCEPT !.spec = "edited"]}
    [] f = "deployment" -> {None, Foreign} \union
         (IF IntegrationSinkOwned(w.deployment)
          THEN {[w.deployment EXCEPT !.rollout = "False"], [w.deployment EXCEPT !.settings = "other"]}
          ELSE {})
    [] OTHER -> {}

\* cert-manager issues the certificate, and the deployment is rolled out.
IntegrationSinkHeal(w, f) ==
  CASE f = "cert" /\ w.cert # None -> {[w.cert EXCEPT !.ready = "True"]}
    [] f = "secret" /\ w.cert # None /\ w.cert.ready = "True" -> {TRUE}
    [] f = "deployment" /\ IntegrationSinkOwned(w.deployment) -> {[w.deployment EXCEPT !.rollout = "True"]}
    [] OTHER -> {}

\* NewController: role bindings are not watched; the secret that cert-manager
\* writes has not the label that is filtered for.
IntegrationSinkEnqueues(f, old, new) ==
  CASE f \in {"deployment", "service"} -> IntegrationSinkOwned(old[f]) \/ IntegrationSinkOwned(new[f])
    [] OTHER -> f \notin {"reader", "proxy", "secret"}

IntegrationSinkDependents == {"Addressable", "DeploymentReady", "EventPoliciesReady", "TrustBundlePropagated"}

IntegrationSinkNewStatus == [conds |-> InitializeConditions(IntegrationSinkDependents), gen |-> 0, addresses |-> {},
              audience |-> FALSE, policies |-> FALSE]

\* The condition of the certificate stays when transport encryption is disabled.
IntegrationSinkDerived == DOMAIN IntegrationSinkNewStatus \ {"conds"}

-----------------------------------------------------------------------------
\* The Mark methods of the status.
IntegrationSinkMarkCondition(s, t, v) == Cond(IntegrationSinkDependents, s, t, v)

reconcileTrustBundles(s) ==
  LET p == PropagateTrustBundles(s)
  IN IntegrationSinkMarkCondition(p, "TrustBundlePropagated", BoolStatus(Ok(p)))

\* PropagateCertificateStatus: without a certificate the reconciliation waits.
awaitCertificate(s, ready) ==
  LET c == IntegrationSinkMarkCondition(s, "CertificateReady", ready)
  IN IF ready = "True" THEN c ELSE SkipKey(c)

reconcileCertificate(s) ==
  LET new == [spec |-> "ours", ready |-> "Unknown"]
      have == s.seen.cert
      r == CASE have = None -> Create(s, "cert", new)
             [] have # None /\ have.spec = "edited" -> Update(s, "cert", [have EXCEPT !.spec = "ours"])
             [] OTHER -> s
  IN CASE s.seen.tls = "disabled" -> IF have = None THEN s ELSE DeleteIfThere(s, "cert")
       [] s.seen.tls # "disabled" /\ Ok(r) ->
            awaitCertificate(r, IF have = None THEN "Unknown" ELSE have.ready)
       [] OTHER -> r

IntegrationSinkDeleteRoleBinding(s, f) == IF s.seen[f] = None THEN s ELSE DeleteIfThere(s, f)

MakeEventPolicyRoleBinding == "ours"
MakeAuthProxyRoleBindings == "ours"

IntegrationSinkReconcileEventPolicyRBAC(s) ==
  CASE ~ s.seen.oidc -> IntegrationSinkDeleteRoleBinding(s, "reader")
    [] s.seen.oidc /\ s.seen.reader = None -> Create(s, "reader", MakeEventPolicyRoleBinding)
    [] s.seen.oidc /\ s.seen.reader = "edited" -> UpdateInPlace(s, "reader", MakeEventPolicyRoleBinding)
    [] OTHER -> s

IntegrationSinkReconcileConfigMapAccessRBAC(s) ==
  CASE ~ s.seen.oidc -> IntegrationSinkDeleteRoleBinding(s, "proxy")
    [] s.seen.oidc /\ s.seen.proxy = None -> Create(s, "proxy", MakeAuthProxyRoleBindings)
    [] s.seen.oidc /\ s.seen.proxy = "edited" -> Update(s, "proxy", MakeAuthProxyRoleBindings)
    [] OTHER -> s

IntegrationSinkReconcileAuthProxyRBAC(s) ==
  LET r == IntegrationSinkReconcileEventPolicyRBAC(s) IN Then(r, IntegrationSinkReconcileConfigMapAccessRBAC)

\* The environment of the sink, and of the proxy that authenticates its senders.
IntegrationSinkMakeEnv(s) == [settings |-> s.spec.settings, tls |-> s.seen.tls]
makeAuthProxyEnv(s) == s.seen.oidc

MakeDeploymentSpec(s) ==
  [settings |-> IntegrationSinkMakeEnv(s).settings, tls |-> IntegrationSinkMakeEnv(s).tls, oidc |-> makeAuthProxyEnv(s),
   bundle |-> s.seen.oidc /\ AddTrustBundleVolumes(s.seen), rollout |-> "Unknown"]

\* Containers and environments are compared, of other parts only what is wanted.
IntegrationSinkPodSpecChanged(have, want) ==
  \/ want.settings # have.settings \/ want.tls # have.tls \/ want.oidc # have.oidc
  \/ want.bundle /\ ~ have.bundle

\* A deployment that was just updated is not rolled out.
reconcileDeployment(s) ==
  LET want == MakeDeploymentSpec(s)
      have == s.seen.deployment
      changed == IntegrationSinkOwned(have) /\ IntegrationSinkPodSpecChanged(have, want)
      new == IF have = None THEN want
             ELSE [want EXCEPT !.rollout = IF have.rollout = "False" THEN "False" ELSE "Unknown"]
      r == CASE have = None -> Create(s, "deployment", new)
             [] have = Foreign -> Error(s)
             [] changed -> UpdateInPlace(s, "deployment", new)
             [] OTHER -> s
  IN Then(r, LAMBDA t : IntegrationSinkMarkCondition(t, "DeploymentReady",
                  IF have = None \/ changed THEN new.rollout ELSE have.rollout))

MakeService == "ours"

reconcileService(s) ==
  CASE s.seen.service = None -> Create(s, "service", MakeService)
    [] s.seen.service = Foreign -> Error(s)
    [] s.seen.service = "edited" -> UpdateInPlace(s, "service", MakeService)
    [] OTHER -> s

IntegrationSinkReconcileAddress(s) ==
  LET addresses == CASE s.seen.tls = "disabled" -> {"http"}
                     [] s.seen.tls = "permissive" -> {"http", "https"}
                     [] s.seen.tls = "strict" -> {"https"}
      a == [s EXCEPT !.st.addresses = addresses, !.st.audience = s.seen.oidc]
  IN IF s.seen.tls # "disabled" /\ ~ s.seen.secret THEN Error(s)
     ELSE IntegrationSinkMarkCondition(a, "Addressable", "True")

IntegrationSinkReconcileKind(s0) ==
  LET s1 == reconcileTrustBundles(s0)
      s2 == Then(s1, reconcileCertificate)
      s3 == Then(s2, IntegrationSinkReconcileAuthProxyRBAC)
      s4 == Then(s3, reconcileDeployment)
      s5 == Then(s4, reconcileService)
      s6 == Then(s5, IntegrationSinkReconcileAddress)
  IN Then(s6, LAMBDA t : UpdateStatusWithEventPolicies(IntegrationSinkDependents, t))

\* The generated reconciler, which is no Finalizer.
\* A new leader enqueues every object of its bucket.
IntegrationSinkPromoteFunc(w) == TRUE

IntegrationSinkReconcileMethodFor(o) == IF o.deleting THEN "unknown" ELSE "DoReconcileKind"

IntegrationSinkSetFinalizerIfFinalizer(existing, s) == s

IntegrationSinkReconcile(existing, o, seen, w, fail) ==
  LET s == Begin(existing, o, seen, w, fail)
  IN IF IntegrationSinkReconcileMethodFor(existing) = "DoReconcileKind"
     THEN DoReconcileKind(IntegrationSinkReconcileKind, IntegrationSinkDependents, existing, IntegrationSinkSetFinalizerIfFinalizer(existing, s))
     ELSE s

IntegrationSinkUpdateStatus(existing, o, desired) == RetryUpdateConflicts(o, desired)

-----------------------------------------------------------------------------
\* Without a ready certificate nothing else is looked at.
IntegrationSinkResponsible(w) == w.tls = "disabled" \/ (w.cert # None /\ w.cert.ready = "True")

\* Objects whose changes reach the resource with the next resync only.
IntegrationSinkUnwatched == {"reader", "proxy", "secret"}

IntegrationSinkPromise(spec, w) ==
  /\ IntegrationSinkOwned(w.deployment) /\ w.deployment.rollout = "True"
  /\ IntegrationSinkOwned(w.service)
  /\ w.tls # "disabled" => w.secret
  /\ w.policies # "notReady"

\* No condition tells that an object is somebody else's or the certificate is missing.
IntegrationSinkHidden(spec, w) ==
  Foreign \in {w.deployment, w.service} \/ (w.tls # "disabled" /\ ~ w.secret)

\* The pods run with what is asked for, and the proxy has its roles, or is gone.
IntegrationSinkProvided(spec, w) ==
  /\ BundleIsPropagated(w)
  /\ w.tls = "disabled" => w.cert = None
  /\ {w.reader, w.proxy} = {IF w.oidc THEN "ours" ELSE None}
  /\ w.deployment.settings = spec.settings
  /\ w.deployment.tls = w.tls /\ w.deployment.oidc = w.oidc
  /\ w.oidc /\ AddTrustBundleVolumes(w) => w.deployment.bundle
  /\ w.service = "ours"

-----------------------------------------------------------------------------
(***************************************************************************)
(* Reconciliation of an EventTransform (pkg/reconciler/eventtransform): a  *)
(* ConfigMap with the expression, a Service, a SinkBinding when there is a *)
(* sink, a certificate, role bindings for the authenticating proxy, the    *)
(* Deployment, addresses and policies.  Objects are found by label: one of *)
(* somebody else is not seen, but its name is taken.                       *)
(*                                                                         *)
(* What is compared with DeepDerivative is a sequence here: what is wanted *)
(* must be a prefix of what there is.                                      *)
(***************************************************************************)

\* The expression, whether there is a sink, and whether its replies are discarded.
EventTransformSpecs == {[expression |-> "e1", sink |-> FALSE, discard |-> FALSE]} \union
         [expression : {"e1"}, sink : {TRUE}, discard : BOOLEAN] \union
         {[expression |-> "e2", sink |-> TRUE, discard |-> FALSE]}

(***************************************************************************)
(* tls, oidc: features; bundle: there is a trust bundle; copy: the         *)
(* namespace has a copy of it; cert: the Certificate, with the revision it *)
(* was issued at; secret: where cert-manager writes it; reader, proxy: the *)
(* role bindings; service: its ports; endpoints: the EndpointSlices.       *)
(***************************************************************************)
EventTransformStarts ==
  {[tls |-> tls, oidc |-> FALSE, bundle |-> FALSE, copy |-> FALSE, config |-> None,
    service |-> None, binding |-> None, cert |-> None, secret |-> FALSE, reader |-> None,
    proxy |-> None, deployment |-> None, endpoints |-> None, policies |-> "none"] :
      tls \in {"disabled", "permissive"}}

EventTransformChildren == {"config", "service", "binding", "cert", "reader", "proxy", "deployment"}

EventTransformOwned(x) == x \notin {None, Foreign}

EventTransformEnv(w, f) ==
  CASE f = "tls" -> {"disabled", "permissive", "strict"}
    [] f \in {"oidc", "bundle", "copy", "secret"} -> BOOLEAN
    [] f = "policies" -> Policies
    [] f \in {"reader", "proxy"} /\ w[f] # None -> {None, "edited"}
    [] f = "config" -> {None, Foreign, "edited"}
    [] f = "service" -> {None, Foreign} \union
         (IF EventTransformOwned(w.service) THEN {<<[name |-> "edited", proxied |-> FALSE]>>} ELSE {})
    [] f = "binding" /\ w.binding # None ->
         {None, [w.binding EXCEPT !.ready = "False"], [w.binding EXCEPT !.spec = "edited"]}
    [] f = "cert" /\ w.cert # None ->
         {None, [w.cert EXCEPT !.ready = "False"], [w.cert EXCEPT !.spec = "edited"],
          [w.cert EXCEPT !.revision = 2]}
    [] f = "deployment" -> {None, Foreign} \union
         (IF EventTransformOwned(w.deployment)
          THEN {[w.deployment EXCEPT !.available = FALSE], [w.deployment EXCEPT !.hash = "edited"]}
          ELSE {})
    [] OTHER -> {}

\* cert-manager, the SinkBinding's controller and Kubernetes do their parts.
EventTransformHeal(w, f) ==
  CASE f = "cert" /\ w.cert # None ->
         {[w.cert EXCEPT !.ready = "True", !.revision = IF @ = 0 THEN 1 ELSE @]}
    [] f = "secret" /\ w.cert # None /\ w.cert.ready = "True" -> {TRUE}
    [] f = "deployment" /\ EventTransformOwned(w.deployment) -> {[w.deployment EXCEPT !.available = TRUE]}
    [] f = "binding" /\ w.binding # None /\ w.deployment # None ->
         {[w.binding EXCEPT !.ready = "True"]}
    [] f = "endpoints" ->
         {IF EventTransformOwned(w.service)
          THEN [ready |-> EventTransformOwned(w.deployment) /\ w.deployment.available,
                ports |-> {w.service[i] : i \in DOMAIN w.service}]
          ELSE None}
    [] OTHER -> {}

\* NewController: bundles, secrets and role bindings are not watched.
EventTransformEnqueues(f, old, new) ==
  CASE f \in {"deployment", "service", "config"} -> EventTransformOwned(old[f]) \/ EventTransformOwned(new[f])
    [] OTHER -> f \notin {"bundle", "copy", "secret", "reader", "proxy"}

EventTransformDependents == {"TransformationReady", "Addressable", "EventPoliciesReady"}

\* The conditions of the transformation, a condition set of their own in the
\* same status: Ready counts them too.
Jsonata == {"JsonataDeploymentReady", "JsonataSinkBindingReady"}

EventTransformNewStatus == [conds |-> InitializeConditions(EventTransformDependents), gen |-> 0, sink |-> FALSE,
              addresses |-> {}, caCerts |-> FALSE, audience |-> FALSE, policies |-> FALSE]

\* What the SinkBinding told of the sink stays when the sink is removed.
EventTransformDerived == DOMAIN EventTransformNewStatus \ {"sink", "conds"}

-----------------------------------------------------------------------------
\* Setting a condition of set D to True looks at those of both sets.
MarkInSet(D, c, t, v) ==
  IF v = "True" THEN MarkTrue(EventTransformDependents \union (Jsonata \intersect (DOMAIN c \union {t})), c, t)
  ELSE Mark(D \intersect (DOMAIN c \union {t}), c, t, v)

\* The deployment's condition, then the binding's, is the transformation's.
markTransformReady(c) ==
  LET Of(t) == IF t \in DOMAIN c THEN c[t] ELSE "Unknown"
  IN MarkInSet(EventTransformDependents, c, "TransformationReady",
               IF Of("JsonataDeploymentReady") # "True" THEN Of("JsonataDeploymentReady")
               ELSE Of("JsonataSinkBindingReady"))

\* A Propagate method that marks condition t.
Propagate(s, t, v) ==
  [s EXCEPT !.st.conds = markTransformReady(MarkInSet(Jsonata, @, t, v))]

Condition(s, t, v) == [s EXCEPT !.st.conds = MarkInSet(EventTransformDependents, @, t, v)]

reconcileJsonataTransformationConfigMap(s) ==
  CASE ~ EventTransformOwned(s.seen.config) -> Create(s, "config", s.spec.expression)
    [] EventTransformOwned(s.seen.config) /\ s.seen.config # s.spec.expression ->
         Update(s, "config", s.spec.expression)
    [] OTHER -> s

Encrypts(see) == see.tls # "disabled"

\* Ports lead to the transformation, or to the proxy when there is one.
Port(see, name) == [name |-> name, proxied |-> see.oidc]

jsonataService(see) ==
  CASE see.tls = "strict" -> <<Port(see, "https")>>
    [] see.tls = "permissive" -> <<Port(see, "https"), Port(see, "http")>>
    [] see.tls = "disabled" -> <<Port(see, "http")>>

\* DeepDerivative: items appended to a list are no difference.
StartsWith(have, want) ==
  Len(want) <= Len(have) /\ \A i \in DOMAIN want : have[i] = want[i]

reconcileJsonataTransformationService(s) ==
  LET want == jsonataService(s.seen)
  IN CASE ~ EventTransformOwned(s.seen.service) -> Create(s, "service", want)
       [] EventTransformOwned(s.seen.service) /\ ~ StartsWith(s.seen.service, want) -> Update(s, "service", want)
       [] OTHER -> s

PropagateJsonataSinkBindingStatus(s, ready) ==
  Propagate([s EXCEPT !.st.sink = (ready = "True")], "JsonataSinkBindingReady", ready)

jsonataSinkBinding == [spec |-> "ours", ready |-> "Unknown"]

reconcileJsonataTransformationSinkBinding(s) ==
  LET have == s.seen.binding
      unset == Propagate(s, "JsonataSinkBindingReady", "True")
      new == Create(s, "binding", jsonataSinkBinding)
      set == IF have = None \/ have.spec = "ours" THEN s
             ELSE Update(s, "binding", [have EXCEPT !.spec = "ours"])
  IN CASE ~ s.spec.sink -> IF have = None THEN unset ELSE DeleteIfThere(unset, "binding")
       [] s.spec.sink /\ have = None ->
            Then(new, LAMBDA t : PropagateJsonataSinkBindingStatus(t, "Unknown"))
       [] OTHER -> Then(set, LAMBDA t : PropagateJsonataSinkBindingStatus(t, have.ready))

\* PropagateJsonataCertificateStatus: without the certificate the reconciliation waits.
PropagateJsonataCertificateStatus(s, ready) ==
  IF ready = "True" THEN [s EXCEPT !.st.conds = markTransformReady(@)]
  ELSE SkipKey(Propagate(s, "JsonataDeploymentReady", ready))

jsonataCertificate == [spec |-> "ours", ready |-> "Unknown", revision |-> 0]

reconcileJsonataTransformationCertificate(s) ==
  LET have == s.seen.cert
      r == CASE have = None ->
                  Create(s, "cert", jsonataCertificate)
             [] have # None /\ have.spec # "ours" ->
                  Update(s, "cert", [have EXCEPT !.spec = "ours"])
             [] OTHER -> s
  IN IF Encrypts(s.seen)
     THEN Then(r, LAMBDA t : PropagateJsonataCertificateStatus(t, IF have = None THEN "Unknown" ELSE have.ready))
     ELSE IF have = None THEN s ELSE DeleteIfThere(s, "cert")

EventTransformDeleteRoleBinding(s, f) == IF s.seen[f] = None THEN s ELSE DeleteIfThere(s, f)

jsonataEventPolicyRoleBinding == "ours"
jsonataAuthProxyRoleBinding == "ours"

EventTransformReconcileEventPolicyRBAC(s) ==
  CASE ~ s.seen.oidc -> EventTransformDeleteRoleBinding(s, "reader")
    [] s.seen.oidc /\ s.seen.reader = None -> Create(s, "reader", jsonataEventPolicyRoleBinding)
    [] s.seen.oidc /\ s.seen.reader = "edited" -> UpdateInPlace(s, "reader", jsonataEventPolicyRoleBinding)
    [] OTHER -> s

EventTransformReconcileConfigMapAccessRBAC(s) ==
  CASE ~ s.seen.oidc -> EventTransformDeleteRoleBinding(s, "proxy")
    [] s.seen.oidc /\ s.seen.proxy = None -> Create(s, "proxy", jsonataAuthProxyRoleBinding)
    [] s.seen.oidc /\ s.seen.proxy = "edited" -> Update(s, "proxy", jsonataAuthProxyRoleBinding)
    [] OTHER -> s

EventTransformReconcileAuthProxyRBAC(s) ==
  LET r == EventTransformReconcileEventPolicyRBAC(s) IN Then(r, EventTransformReconcileConfigMapAccessRBAC)

When(b, x) == IF b THEN <<x>> ELSE <<>>

Environment(spec, see) ==
  When(spec.discard, "discard") \o When(see.tls = "strict", "disableHttp")
    \o When(spec.sink /\ see.bundle, "extraCaCerts") \o When(Encrypts(see), "certPath")

Volumes(see) == When(Encrypts(see), "tls") \o When(see.oidc /\ see.copy, "bundles")

jsonataAuthProxyEnv(see) == [https |-> Encrypts(see)]

\* With OIDC authentication the proxy stands before the transformation.
Sidecars(see) == When(see.oidc, jsonataAuthProxyEnv(see))

\* Environment, volumes and further containers, in the order they are appended.
jsonataDeployment(spec, see) ==
  [hash |-> spec.expression, env |-> Environment(spec, see), volumes |-> Volumes(see),
   sidecars |-> Sidecars(see),
   probe |-> IF see.tls = "strict" THEN "https" ELSE "http",
   revision |-> IF Encrypts(see) THEN see.cert.revision ELSE 0, available |-> FALSE]

\* What a SinkBinding appends is no difference, nor is what is no longer wanted.
deploymentChanged(have, want) ==
  \/ want.hash # have.hash \/ want.probe # have.probe
  \/ \E part \in {"env", "volumes", "sidecars"} : ~ StartsWith(have[part], want[part])
  \/ want.revision \notin {0, have.revision}

\* A deployment that was just updated still has its status.
reconcileJsonataTransformationDeployment(s) ==
  LET have == s.seen.deployment
      want == jsonataDeployment(s.spec, s.seen)
      r == CASE ~ EventTransformOwned(have) -> Create(s, "deployment", want)
             [] EventTransformOwned(have) /\ deploymentChanged(have, want) ->
                  Update(s, "deployment", [want EXCEPT !.available = have.available])
             [] OTHER -> s
      available == EventTransformOwned(have) /\ have.available
      p == Then(r, LAMBDA t : Propagate(t, "JsonataDeploymentReady", BoolStatus(available)))
  IN IF available THEN p ELSE Then(p, SkipKey)

\* In strict mode every port of the endpoints must be the encrypted one.
reconcileJsonataTransformationAddress(s) ==
  LET e == s.seen.endpoints
      reachable == /\ e # None /\ e.ready
                   /\ s.seen.tls = "strict" => e.ports = {Port(s.seen, "https")}
      ports == jsonataService(s.seen)
      addresses == {ports[i].name : i \in DOMAIN ports}
      a == [s EXCEPT !.st.addresses = addresses, !.st.audience = s.seen.oidc,
                     !.st.caCerts = Encrypts(s.seen) /\ s.seen.secret]
  IN IF reachable THEN Condition(a, "Addressable", "True")
     ELSE SkipKey(Condition(s, "Addressable", "False"))

reconcileJsonataTransformation(s0) ==
  LET s1 == reconcileJsonataTransformationConfigMap(s0)
      s2 == Then(s1, reconcileJsonataTransformationService)
      s3 == Then(s2, reconcileJsonataTransformationSinkBinding)
      s4 == Then(s3, reconcileJsonataTransformationCertificate)
      s5 == Then(s4, EventTransformReconcileAuthProxyRBAC)
      s6 == Then(s5, reconcileJsonataTransformationDeployment)
      bound == s0.spec.sink => s0.seen.binding # None /\ s0.seen.binding.ready = "True"
  IN Then(s6, LAMBDA t : IF bound THEN reconcileJsonataTransformationAddress(t) ELSE SkipKey(t))

\* UpdateStatusWithEventPolicies, with the conditions of both sets.
EventTransformReconcileKind(s0) ==
  LET s1 == reconcileJsonataTransformation(s0)
  IN Then(s1, LAMBDA t : Condition([t EXCEPT !.st.policies = (t.seen.policies = "ready")],
                        "EventPoliciesReady", BoolStatus(t.seen.policies # "notReady")))

\* The generated reconciler, which is no Finalizer.
\* A new leader enqueues every object of its bucket.
EventTransformPromoteFunc(w) == TRUE

EventTransformReconcileMethodFor(o) == IF o.deleting THEN "unknown" ELSE "DoReconcileKind"

EventTransformSetFinalizerIfFinalizer(existing, s) == s

EventTransformReconcile(existing, o, seen, w, fail) ==
  LET s == Begin(existing, o, seen, w, fail)
  IN IF EventTransformReconcileMethodFor(existing) = "DoReconcileKind"
     THEN DoReconcileKind(EventTransformReconcileKind, EventTransformDependents, existing, EventTransformSetFinalizerIfFinalizer(existing, s))
     ELSE s

EventTransformUpdateStatus(existing, o, desired) == RetryUpdateConflicts(o, desired)

-----------------------------------------------------------------------------
\* Without a ready certificate and deployment nothing else is looked at.
EventTransformResponsible(w) == Encrypts(w) => w.cert # None /\ w.cert.ready = "True"

\* Objects whose changes reach the resource with the next resync only.
EventTransformUnwatched == {"bundle", "copy", "secret", "reader", "proxy"}

EventTransformPromise(spec, w) ==
  /\ EventTransformOwned(w.deployment) /\ w.deployment.available
  /\ spec.sink => w.binding # None /\ w.binding.ready = "True"
  /\ w.endpoints # None /\ w.endpoints.ready
  /\ w.tls = "strict" => w.endpoints.ports = {Port(w, "https")}
  /\ w.policies # "notReady"

\* No condition tells that a name is taken.
EventTransformHidden(spec, w) == Foreign \in {w.config, w.service, w.deployment}

\* The pods run with what is asked for, at the present revision of the certificate,
\* and the proxy has its roles, or has not.
EventTransformProvided(spec, w) ==
  /\ w.config = spec.expression
  /\ StartsWith(w.service, jsonataService(w))
  /\ spec.sink <=> w.binding # None
  /\ Encrypts(w) <=> w.cert # None
  /\ {w.reader, w.proxy} = {IF w.oidc THEN "ours" ELSE None}
  /\ LET want == jsonataDeployment(spec, w)
     IN /\ w.deployment.hash = want.hash /\ w.deployment.probe = want.probe
        /\ \A part \in {"env", "volumes", "sidecars"} : StartsWith(w.deployment[part], want[part])
        /\ Encrypts(w) => w.deployment.revision = w.cert.revision

===============================================================================
