--------------------------- MODULE ControllerProofs ---------------------------
(***************************************************************************)
(* What holds of every controller under deletion of its resource, whatever *)
(* the number of changes, failures, restarts and lags: a reconciliation    *)
(* creates nothing, and the resource is released.                          *)
(***************************************************************************)
EXTENDS Controllers, TLAPS

\* The fields of a resource, and of the record a reconciliation works on.
Fields == {"spec", "gen", "status", "finalizer", "deleting", "held", "gone"}
Parts == {"spec", "seen", "w", "st", "err", "fail", "o"}

Resource(o) ==
  /\ DOMAIN o = Fields
  /\ o.finalizer \in BOOLEAN /\ o.deleting \in BOOLEAN /\ o.held \in BOOLEAN /\ o.gone \in BOOLEAN

\* Resources o and p are alike but for spec, status, finalizer and presence.
SameDeletion(o, p) == Resource(p) /\ p.deleting = o.deleting /\ p.held = o.held

\* The kinds whose reconcilers are Finalizers.
Finalizing == {"PingSource", "ApiServerSource", "SinkBinding"}

-----------------------------------------------------------------------------
(***************************************************************************)
(* The operators that reconciliations are made of.  Step(s, t): t is a     *)
(* record like s with the same resource.                                   *)
(***************************************************************************)

Step(s, t) == DOMAIN t = Parts /\ t.o = s.o

\* The patch of finalizers is refused, not needed, or done to the version read.
LEMMA FinalizersPatched ==
  ASSUME NEW s, DOMAIN s = Parts, NEW existing, NEW b \in BOOLEAN, Resource(s.o)
  PROVE  LET r == updateFinalizersFiltered(existing, s, b)
         IN /\ DOMAIN r = Parts /\ r.w = s.w
            /\ \/ r.o = s.o
               \/ /\ existing = s.o /\ SameDeletion(s.o, r.o)
                  /\ r.o.finalizer = b
                  /\ r.o.gone <=> s.o.deleting /\ ~ b /\ ~ s.o.held
            /\ existing = s.o => r.o.finalizer = b /\ r.err = s.err
<1> DEFINE g == s.o.deleting /\ ~ b /\ ~ s.o.held
           p == [s EXCEPT !.o.finalizer = b, !.o.gone = g, !.st = existing.status]
<1>1. g \in BOOLEAN
  OBVIOUS
<1> HIDE DEF g
<1>2. DOMAIN p = Parts /\ p.w = s.w /\ p.err = s.err
      /\ p.o = [s.o EXCEPT !.finalizer = b, !.gone = g]
  BY DEF Parts
<1>3. SameDeletion(s.o, p.o) /\ p.o.finalizer = b /\ p.o.gone = g
  <2> HIDE DEF p
  <2>1. /\ DOMAIN p.o = Fields /\ p.o.finalizer = b /\ p.o.gone = g
        /\ p.o.deleting = s.o.deleting /\ p.o.held = s.o.held
    BY <1>2 DEF Resource, Fields
  <2> QED
    BY <1>1, <2>1, SMTT(30) DEF Resource, SameDeletion
<1>4. CASE existing.finalizer = b
  BY <1>4 DEF updateFinalizersFiltered
<1>5. CASE existing.finalizer # b /\ existing # s.o
  BY <1>5 DEF updateFinalizersFiltered, Error, Parts
<1>6. CASE existing.finalizer # b /\ existing = s.o
  <2>1. updateFinalizersFiltered(existing, s, b) = p
    BY <1>6 DEF updateFinalizersFiltered, g
  <2> HIDE DEF p
  <2> QED
    BY <2>1, <1>2, <1>3, <1>6, ZenonT(40) DEF g
<1> QED
  BY <1>4, <1>5, <1>6, SMTT(30)

\* At its start, a reconciliation has what informers and API server show.
LEMMA Begins ==
  ASSUME NEW existing, NEW o, NEW see, NEW w, NEW fail
  PROVE  LET s == Begin(existing, o, see, w, fail)
         IN DOMAIN s = Parts /\ s.o = o /\ s.w = w /\ s.seen = see /\ s.err = "nil"
BY SMTT(30) DEF Begin, Parts

-----------------------------------------------------------------------------
(***************************************************************************)
(* Reconcilers that are no Finalizers leave the resource alone, and under  *)
(* deletion all objects.                                                   *)
(***************************************************************************)

PlainKinds == AllKinds \ (Finalizing \union {"SourceDuck", "NamespaceSugar", "TriggerSugar"})

LEMMA PlainReconcile ==
  ASSUME NEW k \in PlainKinds, NEW existing, NEW o, NEW see, NEW w, NEW fail
  PROVE  LET s == Reconcile(k, existing, o, see, w, fail)
         IN s.o = o /\ (existing.deleting => s.w = w)
<1> USE DEF Reconcile, Begin, DoReconcileKind, PostProcess, OnCopy
<1>1. CASE k \in {"Broker", "Trigger", "Channel", "InMemoryChannel", "Sequence", "Parallel", "ContainerSource"}
  BY <1>1, SMTT(30) DEF BrokerReconcile, BrokerReconcileMethodFor, BrokerSetFinalizerIfFinalizer,
    TriggerReconcile, TriggerReconcileMethodFor, TriggerSetFinalizerIfFinalizer,
    ChannelReconcile, ChannelReconcileMethodFor, ChannelSetFinalizerIfFinalizer,
    InMemoryChannelReconcile, InMemoryChannelReconcileMethodFor, InMemoryChannelSetFinalizerIfFinalizer,
    SequenceReconcile, SequenceReconcileMethodFor, SequenceSetFinalizerIfFinalizer,
    ParallelReconcile, ParallelReconcileMethodFor, ParallelSetFinalizerIfFinalizer,
    ContainerSourceReconcile, ContainerSourceReconcileMethodFor, ContainerSourceSetFinalizerIfFinalizer
<1>2. CASE k \in {"JobSink", "IntegrationSource", "IntegrationSink", "EventTransform", "RequestReply", "EventType", "EventPolicy"}
  BY <1>2, SMTT(30) DEF JobSinkReconcile, JobSinkReconcileMethodFor, JobSinkSetFinalizerIfFinalizer,
    IntegrationSourceReconcile, IntegrationSourceReconcileMethodFor, IntegrationSourceSetFinalizerIfFinalizer,
    IntegrationSinkReconcile, IntegrationSinkReconcileMethodFor, IntegrationSinkSetFinalizerIfFinalizer,
    EventTransformReconcile, EventTransformReconcileMethodFor, EventTransformSetFinalizerIfFinalizer,
    RequestReplyReconcile, RequestReplyReconcileMethodFor, RequestReplySetFinalizerIfFinalizer,
    EventTypeReconcile, EventTypeReconcileMethodFor, EventTypeSetFinalizerIfFinalizer,
    EventPolicyReconcile, EventPolicyReconcileMethodFor, EventPolicySetFinalizerIfFinalizer
<1> QED
  BY <1>1, <1>2 DEF PlainKinds, AllKinds, Finalizing

\* The sugar controllers create a Broker at most, and only without deletion.
LEMMA SugarKinds ==
  ASSUME NEW k \in {"NamespaceSugar", "TriggerSugar"}, NEW existing, NEW o, NEW see, NEW w, NEW fail
  PROVE  LET s == Reconcile(k, existing, o, see, w, fail)
         IN s.o = o /\ (existing.deleting => s.w = w)
BY DEF Reconcile, SugarReconcile, SugarReconcileKind, Create, Write, Error, Begin

\* The duck of sources writes EventTypes only.
LEMMA SourceDuckKind ==
  ASSUME NEW existing, NEW o, NEW see, NEW w, NEW fail
  PROVE  Reconcile("SourceDuck", existing, o, see, w, fail).o = o
BY DEF Reconcile, SourceDuckReconcile, OnCopy, Begin

-----------------------------------------------------------------------------
(***************************************************************************)
(* Reconcilers that are Finalizers: those of PingSource, ApiServerSource   *)
(* and SinkBinding.                                                        *)
(***************************************************************************)

\* What becomes of resource o: its finalizer is set while it is not under deletion, and
\* cleared when it is.
Finalized(existing, o, r) ==
  \/ r.o = o
  \/ /\ existing = o /\ SameDeletion(o, r.o)
     /\ r.o.finalizer = ~ o.deleting
     /\ r.o.gone <=> o.deleting /\ ~ o.held

\* Under deletion the finalizer is cleared unless an error is returned.
Clears(existing, o, r) ==
  existing = o /\ o.deleting /\ o.finalizer /\ ~ o.gone => r.err = "error" \/ ~ r.o.finalizer

\* What is not there in w is not there in v.
NothingNew(w, v) == \A f \in DOMAIN w : w[f] = None => v[f] = None

\* clearFinalizer, after work on a resource under deletion.
LEMMA FinalizerCleared ==
  ASSUME NEW s, DOMAIN s = Parts, NEW existing, Resource(s.o), existing.deleting,
         s.err \in {"nil", "error"}
  PROVE  LET r == ClearFinalizer(existing, s)
         IN Finalized(existing, s.o, r) /\ Clears(existing, s.o, r) /\ r.w = s.w
<1>1. PICK b \in BOOLEAN : b = FALSE
  BY Zenon
<1> DEFINE u == updateFinalizersFiltered(existing, s, b)
<1>2. /\ u.w = s.w
      /\ \/ u.o = s.o
         \/ /\ existing = s.o /\ SameDeletion(s.o, u.o)
            /\ u.o.finalizer = b
            /\ u.o.gone <=> s.o.deleting /\ ~ b /\ ~ s.o.held
      /\ existing = s.o => u.o.finalizer = b
  BY FinalizersPatched
<1> HIDE DEF u
<1>3. Finalized(existing, s.o, u)
  BY <1>1, <1>2 DEF Resource, Finalized
<1>4. CASE s.err = "error" \/ s.o.gone
  BY <1>4, Zenon DEF ClearFinalizer, Finalized, Clears
<1>5. CASE s.err = "nil" /\ ~ s.o.gone
  <2>1. ClearFinalizer(existing, s) = u
    BY <1>1, <1>5, Zenon DEF ClearFinalizer, u
  <2> QED
    BY <1>1, <1>2, <1>3, <2>1 DEF Clears
<1> QED
  BY <1>4, <1>5, SMTT(30)

\* The finalizer is set before the work on a resource that is not under deletion.
LEMMA FinalizerSet ==
  ASSUME NEW s, DOMAIN s = Parts, NEW existing, Resource(s.o), ~ existing.deleting
  PROVE  LET r == updateFinalizersFiltered(existing, s, TRUE)
         IN Finalized(existing, s.o, r) /\ DOMAIN r = Parts
BY FinalizersPatched, ZenonT(40) DEF Resource, Finalized

\* The generated reconcilers of PingSources and ApiServerSources.
LEMMA SourceKinds ==
  ASSUME NEW k \in {"PingSource", "ApiServerSource"}, NEW existing, NEW o, NEW see, NEW w, NEW fail,
         Resource(o)
  PROVE  LET r == Reconcile(k, existing, o, see, w, fail)
         IN Finalized(existing, o, r) /\ Clears(existing, o, r) /\ (existing.deleting => r.w = w)
<1> DEFINE s == Begin(existing, o, see, w, fail)
           f == updateFinalizersFiltered(existing, s, TRUE)
           e == [s EXCEPT !.st.attributes = FALSE]
           r == Reconcile(k, existing, o, see, w, fail)
<1>1. DOMAIN s = Parts /\ s.o = o /\ s.w = w /\ s.err = "nil"
  BY Begins
<1>2. CASE existing.deleting
  <2>1. r = ClearFinalizer(existing, e)
    BY <1>2 DEF Reconcile, PingSourceReconcile, PingSourceReconcileMethodFor, PingSourceClearFinalizer,
                PingSourceFinalizeKind, ApiServerSourceReconcile, ApiServerSourceReconcileMethodFor,
                ApiServerSourceClearFinalizer, ApiServerSourceFinalizeKind
  <2> HIDE DEF s
  <2>2. DOMAIN e = Parts /\ e.o = o /\ e.w = w /\ e.err = "nil"
    BY <1>1 DEF Parts
  <2> HIDE DEF e, r
  <2> QED
    BY <1>2, <2>1, <2>2, FinalizerCleared DEF r
<1>3. CASE ~ existing.deleting
  <2> HIDE DEF s
  <2>1. Finalized(existing, o, f)
    BY <1>1, <1>3, FinalizerSet
  <2> HIDE DEF f
  <2>2. r.o = f.o
    BY <1>3 DEF Reconcile, PingSourceReconcile, PingSourceReconcileMethodFor,
                PingSourceSetFinalizerIfFinalizer, ApiServerSourceReconcile,
                ApiServerSourceReconcileMethodFor, ApiServerSourceSetFinalizerIfFinalizer, f, s,
                Then, DoReconcileKind, PostProcess, OnCopy
  <2> HIDE DEF r
  <2> QED
    BY <1>3, <2>1, <2>2 DEF Finalized, Clears, r
<1> QED
  BY <1>2, <1>3

\* Reconciling the subject of a binding writes the subject only, and only if it is there.
LEMMA SubjectReconciled ==
  ASSUME NEW s, DOMAIN s = Parts, s.err = "nil", NEW want
  PROVE  LET r == ReconcileSubject(s, want)
         IN Step(s, r) /\ NothingNew(s.w, r.w) /\ r.err \in {"nil", "error"}
<1> DEFINE Fine(r) == Step(s, r) /\ NothingNew(s.w, r.w) /\ r.err \in {"nil", "error"}
<1>1. Fine(s)
  BY DEF Step, NothingNew
<1>2. Fine(Error(s))
  BY DEF Step, NothingNew, Error, Parts
<1>3. ASSUME NEW v PROVE Fine(Patch(s, "subject", v))
  <2>1. CASE s.fail = "subject" \/ s.w["subject"] = None
    BY <2>1, <1>2, SMTT(30) DEF Patch
  <2>2. CASE s.fail # "subject" /\ s.w["subject"] # None
    <3>1. Patch(s, "subject", v) = [s EXCEPT !.w["subject"] = v]
      BY <2>2, SMTT(30) DEF Patch, Write
    <3>2. [s EXCEPT !.w["subject"] = v].w = [s.w EXCEPT !["subject"] = v]
      BY DEF Parts
    <3>3. NothingNew(s.w, [s.w EXCEPT !["subject"] = v])
      BY <2>2, SMTT(30) DEF NothingNew
    <3> QED
      BY <3>1, <3>2, <3>3, SMTT(30) DEF Step, Parts
  <2> QED
    BY <2>1, <2>2, SMTT(30)
<1>4. ASSUME NEW r, Fine(r), NEW t, NEW v PROVE Fine(SinkBindingMarkCondition(r, t, v))
  BY <1>4, SMTT(30) DEF SinkBindingMarkCondition, Cond, Step, Parts
<1> DEFINE have == s.seen.subject
           after == [k \in DOMAIN want |-> IF want[k] # have[k] THEN want[k] ELSE s.w.subject[k]]
           p == CASE have = None -> Error(s)
                  [] have \notin {None, want} -> IF s.w.subject = None THEN Error(s)
                                                 ELSE Patch(s, "subject", after)
                  [] OTHER -> s
<1> HIDE DEF Fine, after
<1>5. Fine(p)
  BY <1>1, <1>2, <1>3, SMTT(30)
<1>6. ReconcileSubject(s, want) = SinkBindingMarkCondition(p, "Available", BoolStatus(Ok(p)))
  BY DEF ReconcileSubject, after
<1> HIDE DEF p
<1> QED
  BY <1>4, <1>5, <1>6, SMTT(30) DEF Fine

\* The deletion of a binding: the subject is unbound, and then the finalizer cleared.
LEMMA BindingDeleted ==
  ASSUME NEW s, DOMAIN s = Parts, s.err = "nil", NEW existing, Resource(s.o), existing.deleting
  PROVE  LET r == ReconcileDeletion(existing, s)
         IN Finalized(existing, s.o, r) /\ Clears(existing, s.o, r) /\ NothingNew(s.w, r.w)
<1> DEFINE u == ReconcileSubject(s, Undo(s))
           f == IF s.seen.subject = None \/ s.w.subject = None THEN [u EXCEPT !.err = "nil"] ELSE u
<1>1. Step(s, u) /\ NothingNew(s.w, u.w) /\ u.err \in {"nil", "error"}
  BY SubjectReconciled, SMTT(30)
<1> HIDE DEF u
<1>2. Step(s, f) /\ NothingNew(s.w, f.w) /\ f.err \in {"nil", "error"}
  BY <1>1, SMTT(30) DEF Step, Parts
<1>3. ReconcileDeletion(existing, s) = ClearFinalizer(existing, f)
  BY DEF ReconcileDeletion, u
<1> HIDE DEF f
<1> QED
  BY <1>2, <1>3, FinalizerCleared, SMTT(30) DEF Step

\* The reconciler of SinkBindings.
LEMMA SinkBindingKind ==
  ASSUME NEW existing, NEW o, NEW see, NEW w, NEW fail, Resource(o)
  PROVE  LET r == Reconcile("SinkBinding", existing, o, see, w, fail)
         IN Finalized(existing, o, r) /\ Clears(existing, o, r) /\ (existing.deleting => NothingNew(w, r.w))
<1> DEFINE s == Begin(existing, o, see, w, fail)
           f == updateFinalizersFiltered(existing, s, TRUE)
           r == Reconcile("SinkBinding", existing, o, see, w, fail)
<1>1. DOMAIN s = Parts /\ s.o = o /\ s.w = w /\ s.err = "nil"
  BY Begins
<1>2. CASE existing.deleting
  <2>1. r = ReconcileDeletion(existing, s)
    BY <1>2 DEF Reconcile, SinkBindingReconcile
  <2> HIDE DEF s, r
  <2> QED
    BY <1>1, <1>2, <2>1, BindingDeleted DEF r
<1>3. CASE ~ existing.deleting
  <2> DEFINE d == IF Ok(f) THEN OnCopy(f, ReconcileSubjectDo(f)) ELSE f
             e == IF Ok(d) THEN OnCopy(d, ReconcileSubResources(d)) ELSE d
  <2>1. r = IF Ok(e) THEN PostProcess(existing, e) ELSE e
    BY <1>3 DEF Reconcile, SinkBindingReconcile, Then
  <2> HIDE DEF s, r
  <2>2. Finalized(existing, o, f) /\ DOMAIN f = Parts
    BY <1>1, <1>3, FinalizerSet
  <2> HIDE DEF f
  <2>3. Step(f, d)
    BY <2>2 DEF OnCopy, Step, Parts
  <2> HIDE DEF d
  <2>4. Step(f, e)
    BY <2>3 DEF OnCopy, Step, Parts
  <2> HIDE DEF e
  <2>5. r.o = f.o
    BY <2>1, <2>4 DEF PostProcess, Step, Parts
  <2> QED
    BY <1>3, <2>2, <2>5 DEF Finalized, Clears, r
<1> QED
  BY <1>2, <1>3

-----------------------------------------------------------------------------
(***************************************************************************)
(* All kinds.                                                              *)
(***************************************************************************)

\* What a reconciliation of any kind does to the resource, and under deletion to the
\* other objects.
LEMMA EveryKind ==
  ASSUME NEW k \in AllKinds, NEW existing, NEW o, NEW see, NEW w, NEW fail, Resource(o)
  PROVE  LET r == Reconcile(k, existing, o, see, w, fail)
         IN /\ Finalized(existing, o, r)
            /\ IF k \in Finalizing THEN Clears(existing, o, r) ELSE r.o = o
            /\ existing.deleting /\ k # "SourceDuck" => NothingNew(w, r.w)
<1> DEFINE r == Reconcile(k, existing, o, see, w, fail)
<1>1. CASE k \in PlainKinds \union {"NamespaceSugar", "TriggerSugar"}
  <2>1. r.o = o /\ (existing.deleting => r.w = w)
    BY <1>1, PlainReconcile, SugarKinds, SMTT(30)
  <2>2. k \notin Finalizing
    BY <1>1, SMTT(30) DEF PlainKinds, Finalizing
  <2> HIDE DEF r
  <2> QED
    BY <2>1, <2>2, SMTT(30) DEF Finalized, NothingNew, r
<1>2. CASE k = "SourceDuck"
  <2>1. r.o = o
    BY <1>2, SourceDuckKind, SMTT(30)
  <2> HIDE DEF r
  <2> QED
    BY <1>2, <2>1, SMTT(30) DEF Finalized, Finalizing, r
<1>3. CASE k \in {"PingSource", "ApiServerSource"}
  <2>1. Finalized(existing, o, r) /\ Clears(existing, o, r) /\ (existing.deleting => r.w = w)
    BY <1>3, SourceKinds
  <2> HIDE DEF r
  <2> QED
    BY <1>3, <2>1 DEF NothingNew, Finalizing, r
<1>4. CASE k = "SinkBinding"
  <2>1. Finalized(existing, o, r) /\ Clears(existing, o, r) /\ (existing.deleting => NothingNew(w, r.w))
    BY <1>4, SinkBindingKind, SMTT(30)
  <2> HIDE DEF r
  <2> QED
    BY <1>4, <2>1, SMTT(30) DEF Finalizing, r
<1> QED
  BY <1>1, <1>2, <1>3, <1>4, SMTT(30) DEF PlainKinds, Finalizing, AllKinds

\* Writing the status changes nothing else.
LEMMA StatusWritten ==
  ASSUME NEW k \in AllKinds, NEW existing, NEW o, NEW desired, Resource(o)
  PROVE  LET p == UpdateStatus(k, existing, o, desired).o
         IN SameDeletion(o, p) /\ p.finalizer = o.finalizer /\ p.gone = o.gone
<1> DEFINE u == UpdateStatus(k, existing, o, desired)
           p == [o EXCEPT !.status = desired]
<1>1. SameDeletion(o, p) /\ p.finalizer = o.finalizer /\ p.gone = o.gone
  BY DEF Resource, SameDeletion, Fields
<1>2. SameDeletion(o, o)
  BY DEF SameDeletion
<1>3. SUFFICES u.o \in {o, p}
  BY <1>1, <1>2, ZenonT(40)
<1>4. RetryUpdateConflicts(o, desired).o \in {o, p}
  BY DEF RetryUpdateConflicts, Error
<1>5. CASE k = "SinkBinding"
  BY <1>5 DEF UpdateStatus, SinkBindingUpdateStatus, Error
<1>6. CASE k \in {"SourceDuck", "NamespaceSugar", "TriggerSugar"}
  BY <1>6 DEF UpdateStatus, SourceDuckUpdateStatus, SugarUpdateStatus
<1>7. CASE k \notin {"SinkBinding", "SourceDuck", "NamespaceSugar", "TriggerSugar"}
  BY <1>4, <1>7, SMTT(30) DEF AllKinds, UpdateStatus, BrokerUpdateStatus, TriggerUpdateStatus, ChannelUpdateStatus,
    InMemoryChannelUpdateStatus, SequenceUpdateStatus, ParallelUpdateStatus, PingSourceUpdateStatus,
    ApiServerSourceUpdateStatus, ContainerSourceUpdateStatus, JobSinkUpdateStatus,
    IntegrationSourceUpdateStatus, IntegrationSinkUpdateStatus, EventTransformUpdateStatus,
    RequestReplyUpdateStatus, EventTypeUpdateStatus, EventPolicyUpdateStatus
<1> QED
  BY <1>5, <1>6, <1>7, SMTT(30)

-----------------------------------------------------------------------------
(***************************************************************************)
(* The inductive invariant behind Released: only Finalizers set finalizers; *)
(* a resource under deletion that nothing holds is gone; an informer that   *)
(* owes no event of the resource shows it; and one under deletion that has  *)
(* a finalizer is announced, queued, or in a reconciliation that failed.    *)
(***************************************************************************)

ReleaseInv ==
  /\ kind \in KindsChecked
  /\ Resource(obj)
  /\ obj.finalizer => kind \in Finalizing
  /\ obj.deleting /\ ~ obj.held /\ ~ obj.finalizer => obj.gone
  /\ obj.gone => ~ obj.finalizer
  /\ "obj" \in notices \/ seenObj = obj
  /\ obj.deleting /\ obj.finalizer /\ "obj" \notin notices => queue # "idle" \/ work.err = "error"

LEMMA ReleaseInit == Init => ReleaseInv
BY SMTT(30) DEF Init, ReleaseInv, Resource, Fields

\* Events of the resource and new leaders enqueue the resources of Finalizers.
LEMMA FinalizersAreQueued ==
  ASSUME NEW k \in Finalizing, NEW old, NEW new
  PROVE  Enqueues(k, "obj", old, new) /\ PromoteFunc(k, new)
BY ZenonT(40) DEF Finalizing, Enqueues, PromoteFunc, PingSourceEnqueues, ApiServerSourceEnqueues, SinkBindingEnqueues,
       PingSourcePromoteFunc, ApiServerSourcePromoteFunc, SinkBindingPromoteFunc

LEMMA ReleaseStep == ReleaseInv /\ [Next]_vars => ReleaseInv'
<1> SUFFICES ASSUME ReleaseInv, [Next]_vars PROVE ReleaseInv'
  OBVIOUS
<1> USE DEF ReleaseInv
<1>1. CASE EditSpec
  BY <1>1, SMTT(30) DEF EditSpec, Resource, Fields
<1>2. CASE DeleteResource
  BY <1>2, SMTT(30) DEF DeleteResource, Resource, Fields
<1>3. CASE Collect
  BY <1>3, SMTT(30) DEF Collect, Resource, Fields
<1>4. ASSUME NEW f \in DOMAIN world, Change(f) PROVE ReleaseInv'
  BY <1>4, SMTT(30) DEF Change
<1>5. ASSUME NEW F, Progress(F) PROVE ReleaseInv'
  BY <1>5, SMTT(30) DEF Progress
<1>6. ASSUME NEW L \in {{}, notices} \union {{f} : f \in notices}, Deliver(L) PROVE ReleaseInv'
  <2> DEFINE F == notices \ L
             new == [f \in DOMAIN seen |-> IF f \in F THEN world[f] ELSE seen[f]]
             heard == {f \in F : Enqueues(kind, f, seen, new)}
  <2>1. /\ notices' = L /\ seenObj' = (IF "obj" \in F THEN obj ELSE seenObj)
        /\ queue' = (IF heard # {} THEN "due" ELSE queue)
        /\ UNCHANGED <<kind, obj, work>>
    BY <1>6, SMTT(30) DEF Deliver
  <2>2. L \subseteq notices
    BY <1>6, SMTT(30)
  <2>3. kind \in Finalizing /\ "obj" \in F => heard # {}
    BY FinalizersAreQueued, SMTT(30)
  <2> HIDE DEF heard
  <2> QED
    BY <2>1, <2>2, <2>3, SMTT(30)
<1>7. CASE ReconcileGone
  BY <1>7, SMTT(30) DEF ReconcileGone
<1>8. ASSUME NEW fail, ReconcileResource(fail) PROVE ReleaseInv'
  <2> DEFINE r == Reconcile(kind, seenObj, obj, seen, world, fail)
  <2>1. /\ obj' = r.o /\ work' = [status |-> r.st, orig |-> seenObj.status, err |-> r.err]
        /\ notices \subseteq notices' /\ (r.o = obj \/ "obj" \in notices')
        /\ UNCHANGED <<kind, seenObj>> /\ ~ seenObj.gone
    BY <1>8, SMTT(30) DEF ReconcileResource
  <2>2. /\ Finalized(seenObj, obj, r)
        /\ IF kind \in Finalizing THEN Clears(seenObj, obj, r) ELSE r.o = obj
    BY EveryKind, KindsAssumption, SMTT(30)
  <2> HIDE DEF r
  <2>3. Resource(obj') /\ (obj'.gone => ~ obj'.finalizer)
        /\ (obj'.deleting /\ ~ obj'.held /\ ~ obj'.finalizer => obj'.gone)
    BY <2>1, <2>2, SMTT(30) DEF Finalized, SameDeletion, Resource
  <2>4. kind' \in KindsChecked /\ (obj'.finalizer => kind' \in Finalizing)
    BY <2>1, <2>2, SMTT(30)
  <2>5. "obj" \in notices' \/ seenObj' = obj'
    BY <2>1, SMTT(30)
  <2>6. ASSUME obj'.deleting, obj'.finalizer, "obj" \notin notices' PROVE work'.err = "error"
    <3>1. obj' = obj /\ seenObj = obj /\ r.o = obj
      BY <2>1, <2>6, SMTT(30)
    <3>2. kind \in Finalizing /\ ~ obj.gone
      BY <2>6, <3>1, SMTT(30)
    <3>3. r.err = "error"
      BY <2>2, <2>6, <3>1, <3>2, SMTT(30) DEF Clears
    <3> QED
      BY <2>1, <3>3, SMTT(30)
  <2> QED
    BY <2>3, <2>4, <2>5, <2>6, SMTT(30)
<1>9. CASE SyncStatus
  <2> DEFINE u == UpdateStatus(kind, seenObj, obj, work.status)
  <2>1. SameDeletion(obj, u.o) /\ u.o.finalizer = obj.finalizer /\ u.o.gone = obj.gone
    BY StatusWritten, KindsAssumption, SMTT(30)
  <2> HIDE DEF u
  <2>2. /\ \/ obj' = obj /\ notices' = notices
           \/ obj' = u.o /\ notices' = (IF obj' = obj THEN notices ELSE notices \union {"obj"})
        /\ queue' = Retry(queue) \/ (queue' = queue /\ work.err # "error")
        /\ UNCHANGED <<kind, seenObj>>
    BY <1>9, SMTT(30) DEF SyncStatus, u
  <2>3. Retry(queue) # "idle"
    BY DEF Retry
  <2>4. "obj" \notin notices' => obj' = obj /\ "obj" \notin notices
    BY <2>2, SMTT(30)
  <2>5. Resource(obj') /\ obj'.finalizer = obj.finalizer /\ obj'.gone = obj.gone
        /\ obj'.deleting = obj.deleting /\ obj'.held = obj.held
    BY <2>1, <2>2, SMTT(30) DEF SameDeletion
  <2>6. "obj" \in notices' \/ seenObj' = obj'
    BY <2>2, <2>4, SMTT(30)
  <2> QED
    BY <2>2, <2>3, <2>4, <2>5, <2>6, SMTT(30)
<1>10. CASE Promote
  BY <1>10, FinalizersAreQueued, SMTT(30) DEF Promote
<1>11. CASE WriteDeposed
  <2>1. SameDeletion(obj, obj') /\ obj'.finalizer = obj.finalizer /\ obj'.gone = obj.gone
    BY <1>11, StatusWritten, KindsAssumption, SMTT(30) DEF WriteDeposed
  <2>2. /\ notices' = (IF obj' = obj THEN notices ELSE notices \union {"obj"})
        /\ UNCHANGED <<kind, seenObj, queue, work>>
    BY <1>11, SMTT(30) DEF WriteDeposed
  <2> QED
    BY <2>1, <2>2, SMTT(30) DEF SameDeletion
<1>12. CASE Resync
  BY <1>12, SMTT(30) DEF Resync
<1>13. CASE UNCHANGED vars
  BY <1>13, SMTT(30) DEF vars
<1> QED
  BY <1>1, <1>2, <1>3, <1>4, <1>5, <1>6, <1>7, <1>8, <1>9, <1>10, <1>11, <1>12, <1>13, Zenon DEF Next

\* Released holds for every kind, and for any number of changes, failed writes, restarts
\* and lagging informers: generated reconcilers and psbinding clear finalizers.
THEOREM ResourcesAreReleased == Spec => []Released
<1>1. ReleaseInv => Released
  BY DEF ReleaseInv, Released, Calm, NoWork
<1> QED
  BY <1>1, ReleaseInit, ReleaseStep, PTL DEF Spec

\* DeletionCreatesNothing holds likewise: of all reconcilers that look at the deletion,
\* none creates an object once it is seen.
THEOREM DeletedCreateNothing == Spec => DeletionCreatesNothing
<1> DEFINE Creates == seenObj.deleting /\ work = NoWork /\ work' # NoWork /\ kind # "SourceDuck" =>
                        \A f \in DOMAIN world : world[f] = None => world'[f] = None
<1>1. ReleaseInv /\ [Next]_vars => [Creates]_vars
  <2> SUFFICES ASSUME ReleaseInv, [Next]_vars, seenObj.deleting, work = NoWork, work' # NoWork,
                      kind # "SourceDuck"
               PROVE  \A f \in DOMAIN world : world[f] = None => world'[f] = None
    BY SMTT(30)
  <2>1. PICK fail : ReconcileResource(fail)
    BY Zenon DEF Next, vars, EditSpec, DeleteResource, Collect, Change, Progress, Deliver, ReconcileGone, SyncStatus,
           Promote, WriteDeposed, Resync
  <2>2. world' = Reconcile(kind, seenObj, obj, seen, world, fail).w
    BY <2>1, SMTT(30) DEF ReconcileResource
  <2>3. NothingNew(world, Reconcile(kind, seenObj, obj, seen, world, fail).w)
    BY EveryKind, KindsAssumption, SMTT(30) DEF ReleaseInv
  <2> QED
    BY <2>2, <2>3, SMTT(30) DEF NothingNew
<1> QED
  BY <1>1, ReleaseInit, ReleaseStep, PTL DEF Spec, DeletionCreatesNothing

===============================================================================
