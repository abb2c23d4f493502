-------------------------- MODULE ControllerRuntime ---------------------------
(***************************************************************************)
(* What controllers start and stop while they run: the informer of         *)
(* certificates, the stores of the configuration, and a controller for     *)
(* each CRD of sources.                                                    *)
(***************************************************************************)
EXTENDS Optional, Integers, Sequences, FiniteSets, FiniteSetsExt

-----------------------------------------------------------------------------
(***************************************************************************)
(* The informer of Certificates that runs while transport encryption is on *)
(* (pkg/certificates/certificate.go), the callback of the feature          *)
(* configuration that starts and stops it, and what the reconciler of      *)
(* EventTransforms does with its lister                                    *)
(* (pkg/reconciler/eventtransform).  The callback waits until the cache is *)
(* filled, which takes until cert-manager is installed; meanwhile no       *)
(* other change of the configuration is handled.  A stopped informer       *)
(* leaves its lister as it was.                                            *)
(***************************************************************************)

CONSTANTS
  MaxEncryptionChanges,\* Bound on the changes of the configuration.
  MaxCertificateEnds  \* Bound on the Certificates that somebody else deletes.

VARIABLES
  tlsOn,          \* Whether the ConfigMap turns encryption on.
  featureNews,    \* The configurations that the callback is still to be told of.
  features,       \* The configuration in the feature store.
  syncing,        \* Whether the callback waits for the new informer's cache.
  installed,      \* Whether there are Certificates in this cluster.
  cancel,         \* Whether the cancel function is set, the guard of a running informer.
  certWatch,      \* Whether the informer of the lister runs.
  view,           \* The lister's Certificate in a sequence of at most one, or None.
  viewBehind,     \* Whether the running informer has not seen the last change.
  cert,           \* The Certificate of the EventTransform, or None.
  transformQueued,\* Whether the EventTransform is in the work queue.
  certStatus,     \* Its condition CertificateReady.
  hasty,          \* Whether that is from a lister whose informer was stopped, before
                  \* another has replaced it or with no Certificate in it to delete.
  encryptionChanges, certEnds

certificatesVars == <<tlsOn, featureNews, features, syncing, installed, cancel, certWatch, view,
                      viewBehind, cert, transformQueued, certStatus, hasty, encryptionChanges,
                      certEnds>>

MakeCertificate == [labelled |-> TRUE, ready |-> FALSE]

(* What an informer with the label selector has.                           *)
Listed == IF cert # None /\ cert.labelled THEN <<cert>> ELSE <<>>

CertificatesInit ==
  /\ tlsOn = FALSE /\ features = FALSE
  /\ featureNews = <<>>
  /\ syncing = FALSE
  /\ installed \in BOOLEAN
  /\ cancel = FALSE /\ certWatch = FALSE
  /\ view = None /\ viewBehind = FALSE
  /\ cert = None
  /\ transformQueued = TRUE
  /\ certStatus = "unknown"
  /\ hasty = FALSE
  /\ encryptionChanges = 0 /\ certEnds = 0

-----------------------------------------------------------------------------
(* The cluster.                                                            *)

EncryptionChanges ==
  /\ encryptionChanges < MaxEncryptionChanges
  /\ encryptionChanges' = encryptionChanges + 1
  /\ tlsOn' = ~ tlsOn
  /\ featureNews' = Append(featureNews, tlsOn')
  /\ UNCHANGED <<features, syncing, installed, cancel, certWatch, view, viewBehind, cert,
                 transformQueued, certStatus, hasty, certEnds>>

Install ==
  /\ ~ installed
  /\ installed' = TRUE
  /\ UNCHANGED <<tlsOn, featureNews, features, syncing, cancel, certWatch, view,
                 viewBehind, cert, transformQueued, certStatus, hasty, encryptionChanges, certEnds>>

(* cert-manager issues the certificate, or somebody deletes it.            *)
CertificateChanges ==
  /\ cert # None
  /\ \/ ~ cert.ready /\ cert' = [cert EXCEPT !.ready = TRUE] /\ UNCHANGED certEnds
     \/ certEnds < MaxCertificateEnds /\ cert' = None /\ certEnds' = certEnds + 1
  /\ viewBehind' = certWatch
  /\ UNCHANGED <<tlsOn, featureNews, features, syncing, installed, cancel, certWatch, view,
                 transformQueued, certStatus, hasty, encryptionChanges>>

(* The informer's handler queues the owner.                                *)
CertificatesObserve ==
  /\ viewBehind
  /\ viewBehind' = FALSE
  /\ view' = Listed
  /\ transformQueued' = TRUE
  /\ UNCHANGED <<tlsOn, featureNews, features, syncing, installed, cancel, certWatch, cert,
                 certStatus, hasty, encryptionChanges, certEnds>>

-----------------------------------------------------------------------------
(* DynamicCertificatesInformer.                                            *)

(* Mutant: the guard stays set.                                            *)
stopOnly == certWatch' = FALSE /\ viewBehind' = FALSE /\ UNCHANGED cancel

stopInformer == certWatch' = FALSE /\ viewBehind' = FALSE /\ cancel' = FALSE

(* The informer is stopped, or one begins to start.                        *)
CertificatesReconcile(on) ==
  IF on THEN syncing' = ~ cancel /\ UNCHANGED <<cancel, certWatch, viewBehind>>
  ELSE stopInformer /\ UNCHANGED syncing

(* The callback of the feature store: all EventTransforms are queued, too. *)
FeatureCallback ==
  /\ featureNews # <<>> /\ ~ syncing
  /\ features' = Head(featureNews)
  /\ featureNews' = Tail(featureNews)
  /\ transformQueued' = TRUE
  /\ CertificatesReconcile(features')
  /\ UNCHANGED <<tlsOn, installed, view, cert, certStatus, hasty, encryptionChanges, certEnds>>

(* The cache is filled; the handler is told of what is in it.              *)
Start ==
  /\ syncing /\ installed
  /\ syncing' = FALSE
  /\ cancel' = TRUE /\ certWatch' = TRUE
  /\ view' = Listed /\ viewBehind' = FALSE
  /\ transformQueued' = (transformQueued \/ Listed # <<>>)
  /\ UNCHANGED <<tlsOn, featureNews, features, installed, cert, certStatus, hasty,
                 encryptionChanges, certEnds>>

-----------------------------------------------------------------------------
(* The reconciler.                                                         *)

StatusOf(c) == IF c.ready THEN "ready" ELSE "waiting"

(* Without a lister there is nothing to go by but the API server; with one *)
(* that knows of no Certificate there is nothing to delete.                *)
deleteJsonataTransformationCertificate ==
  /\ cert' = IF view # None /\ view = <<>> THEN cert ELSE None
  /\ certStatus' = "off"
  /\ transformQueued' = FALSE

reconcileJsonataTransformationCertificate ==
  IF view = None THEN UNCHANGED <<cert, certStatus, transformQueued>>
  ELSE IF view # <<>>
  THEN certStatus' = StatusOf(view[1]) /\ transformQueued' = FALSE /\ UNCHANGED cert
  ELSE IF cert # None THEN UNCHANGED <<cert, certStatus, transformQueued>>
  ELSE cert' = MakeCertificate /\ certStatus' = "waiting" /\ transformQueued' = FALSE

ReconcileTransform ==
  /\ transformQueued
  /\ IF features THEN reconcileJsonataTransformationCertificate
     ELSE deleteJsonataTransformationCertificate
  /\ hasty' = (view # None /\ ~ certWatch /\ (syncing \/ (~ features /\ view = <<>>)))
  /\ viewBehind' = (viewBehind \/ (certWatch /\ cert' # cert))
  /\ UNCHANGED <<tlsOn, featureNews, features, syncing, installed, cancel, certWatch, view,
                 encryptionChanges, certEnds>>

CertificatesIdle == UNCHANGED certificatesVars

CertificatesNext ==
  \/ EncryptionChanges \/ Install \/ CertificateChanges \/ CertificatesObserve
  \/ FeatureCallback \/ Start \/ ReconcileTransform \/ CertificatesIdle

CertificatesSpec == CertificatesInit /\ [][CertificatesNext]_certificatesVars

-----------------------------------------------------------------------------
CertificatesSettled ==
  /\ featureNews = <<>> /\ ~ syncing /\ ~ transformQueued
  /\ ~ viewBehind

(* When the configuration was handled and nothing is left to do, an        *)
(* EventTransform has a Certificate and tells of its state if encryption   *)
(* is on, and has none if it is off: the lister is that of a running       *)
(* informer again after encryption was turned off and on ("used as a       *)
(* guard").  Left out are reconciliations with the lister of a stopped     *)
(* informer: before the new one has replaced it, or to delete a            *)
(* Certificate that it has not seen yet.                                   *)
CertificatesFollow ==
  CertificatesSettled /\ ~ hasty =>
    IF features THEN cert # None /\ certStatus = StatusOf(cert)
    ELSE cert = None /\ certStatus = "off"

-----------------------------------------------------------------------------
(***************************************************************************)
(* The configuration as the processes of the control plane see it: every   *)
(* controller and every webhook has stores of its own for the ConfigMaps   *)
(* it reads (pkg/apis/config, pkg/apis/feature, pkg/apis/messaging/config, *)
(* pkg/apis/sources/config, pkg/apis/sugar), which the watcher of the      *)
(* process fills one after another.  What cannot be parsed ends a process  *)
(* that has nothing yet and is passed over by one that has.  Of these      *)
(* ConfigMaps only that of the sugar controllers is checked when it is     *)
(* written (cmd/webhook/main.go).                                          *)
(***************************************************************************)

CONSTANTS
  ConfigData,       \* The contents that each ConfigMap may have.
  MaxConfigChanges, \* Bound on the changes of ConfigMaps.
  MaxKills          \* Bound on the ends of the process from outside.

VARIABLES
  controllers,   \* Those of the process (constant).
  configMaps,    \* The contents of each ConfigMap, or None.
  changed,       \* The contents that the watcher is still to tell of, with the name.
  called,        \* The controllers whose store was told of the first of them.
  synced,        \* The ConfigMaps that were told of since the process started.
  stores,        \* What each store holds, or None.
  upState,       \* "down", "starting" or "up".
  lastGood,      \* The last contents of each ConfigMap that made sense to the process.
  configChanges, kills

configStoresVars == <<controllers, configMaps, changed, called, synced, stores, upState, lastGood,
                      configChanges, kills>>

ConfigMaps == DOMAIN ConfigData

Webhook == {"defaulting", "validation", "conversion"}
Sugar == {"namespace", "trigger"}

-----------------------------------------------------------------------------
(* Parsing.  A flag is a word with the case in which it was written.       *)

Flag(word) == [word |-> word, exact |-> TRUE]

TransportEncryption == "transport-encryption"
AuthorizationDefaultMode == "default-authorization-mode"
Flags == {TransportEncryption, AuthorizationDefaultMode, "delivery-timeout"}

newDefaults ==
  [f \in Flags |-> CASE f = TransportEncryption -> Flag("Disabled")
                     [] f = AuthorizationDefaultMode -> Flag("Allow-Same-Namespace")
                     [] OTHER -> Flag("Enabled")]

(* Mutant: only Enabled, Disabled and Allowed are known.                   *)
WordsOfAny(f) == {"Allowed", "Disabled", "Enabled"}

WordsOf(f) ==
  {"Allowed", "Disabled", "Enabled"}
  \cup (IF f = TransportEncryption THEN {"Permissive", "Strict"} ELSE {})
  \cup (IF f = AuthorizationDefaultMode
        THEN {"Allow-All", "Deny-All", "Allow-Same-Namespace"} ELSE {})

(* A word that the flag may have is stored as the code writes it, any      *)
(* other text as it is.  There is no error.                                *)
NewFlagsConfigFromMap(data) ==
  [f \in Flags |->
     IF f \notin DOMAIN data THEN newDefaults[f]
     ELSE IF data[f].word \in WordsOf(f) THEN Flag(data[f].word) ELSE data[f]]

IsPermissiveTransportEncryption(e) == e[TransportEncryption] = Flag("Permissive")
IsStrictTransportEncryption(e) == e[TransportEncryption] = Flag("Strict")
IsDisabledTransportEncryption(e) == e[TransportEncryption] = Flag("Disabled")
IsAuthorizationDefaultMode(e, word) == e[AuthorizationDefaultMode] = Flag(word)

(* One key, which has to be there and to be well-formed.                   *)
parseEntry(data) == IF data.key /\ data.wellFormed THEN data.value ELSE None
NewDefaultsConfigFromMap(data) == parseEntry(data)
NewChannelDefaultsConfigFromMap(data) == parseEntry(data)

(* Two keys of which each may be absent, a number in a sequence of one, or *)
(* no number.  The old one is read first.                                  *)
NewPingDefaultsConfigFromMap(data) ==
  IF data.bad THEN None
  ELSE IF data.size # <<>> THEN data.size
  ELSE IF data.legacy # <<>> THEN data.legacy ELSE <<-1>>

(* Mutant: a key that is there has to have a selector.                     *)
asLabelSelectorStrict(raw) ==
  CASE raw = "absent" -> "nil" [] raw = "empty" -> "broken" [] OTHER -> raw

(* A key that is absent or empty selects nothing.                          *)
asLabelSelector(raw) == IF raw \in {"absent", "empty"} THEN "nil" ELSE raw

NewConfigFromMap(data) ==
  LET selectors == [k \in DOMAIN data |-> asLabelSelector(data[k])]
  IN IF \E k \in DOMAIN data : selectors[k] = "broken" THEN None ELSE selectors

Parse(m, data) ==
  CASE m = "config-features" -> NewFlagsConfigFromMap(data)
    [] m = "config-br-defaults" -> NewDefaultsConfigFromMap(data)
    [] m = "default-ch-webhook" -> NewChannelDefaultsConfigFromMap(data)
    [] m = "config-ping-defaults" -> NewPingDefaultsConfigFromMap(data)
    [] m = "config-sugar" -> NewConfigFromMap(data)

-----------------------------------------------------------------------------
(* The stores: each is of one ConfigMap, and Load is a type assertion on   *)
(* what it holds, which only the store of features does without.           *)
configStore == {"config-br-defaults"}
channelStore == {"default-ch-webhook"}
pingstore == {"config-ping-defaults"}
featureStore == {"config-features"}
sugarStore == {"config-sugar"}

WatchConfigs(c) ==
  ConfigMaps \cap
    CASE c \in {"defaulting", "conversion"} -> configStore \cup channelStore \cup featureStore
      [] c = "validation" -> configStore \cup channelStore \cup pingstore \cup featureStore
      [] c \in Sugar -> sugarStore

ConfigsWatched == UNION {WatchConfigs(c) : c \in controllers}

NoStores == [c \in controllers |-> [m \in WatchConfigs(c) |-> None]]

(* The ConfigMaps that the webhook looks at when they are written.         *)
NewConfigValidationController == sugarStore

(* What a ConfigMap should look like.                                      *)
Good(m, data) ==
  CASE m = "config-features" -> TRUE
    [] m \in {"config-br-defaults", "default-ch-webhook"} -> data.key /\ data.wellFormed
    [] m = "config-ping-defaults" -> ~ data.bad
    [] m = "config-sugar" -> \A k \in DOMAIN data : data[k] # "broken"

ConfigStoresInit ==
  /\ controllers \in {Webhook, Sugar}
  /\ configMaps \in {f \in [ConfigMaps -> UNION {ConfigData[m] : m \in ConfigMaps}] :
                       \A m \in ConfigMaps : f[m] \in ConfigData[m] /\ Good(m, f[m])}
  /\ changed = <<>> /\ called = {} /\ synced = {}
  /\ stores = NoStores
  /\ upState = "down"
  /\ lastGood = [m \in ConfigMaps |-> None]
  /\ configChanges = 0 /\ kills = 0

ConfigsConfigMapChanges(m) ==
  /\ m \in ConfigsWatched
  /\ configChanges < MaxConfigChanges
  /\ configChanges' = configChanges + 1
  /\ \E new \in ConfigData[m] \cup {None} :
       /\ new # configMaps[m]
       /\ m \in NewConfigValidationController /\ new # None => Parse(m, new) # None
       /\ configMaps' = [configMaps EXCEPT ![m] = new]
       /\ changed' = IF upState = "down" \/ new = None THEN changed
                     ELSE Append(changed, <<m, new>>)
  /\ UNCHANGED <<controllers, called, synced, stores, upState, lastGood, kills>>

(* The process ends, and its stores with it.                               *)
ConfigsEnds ==
  /\ upState' = "down"
  /\ changed' = <<>> /\ called' = {} /\ synced' = {}
  /\ stores' = NoStores
  /\ lastGood' = [m \in ConfigMaps |-> None]

(* The order in which the informer lists them.                             *)
Listing ==
  CHOOSE s \in [1..Cardinality(ConfigsWatched) -> ConfigsWatched] :
    \A i, j \in DOMAIN s : i # j => s[i] # s[j]

(* The watcher starts when all ConfigMaps are there, and tells of each.    *)
(* Otherwise the process ends at once.                                     *)
StartWatcher ==
  /\ upState = "down"
  /\ \A m \in ConfigsWatched : configMaps[m] # None
  /\ upState' = "starting"
  /\ changed' = [i \in DOMAIN Listing |-> <<Listing[i], configMaps[Listing[i]]>>]
  /\ UNCHANGED <<controllers, configMaps, called, synced, stores, lastGood, configChanges, kills>>

Observers(m) == {c \in controllers : m \in WatchConfigs(c)}

(* The store keeps what it has if there is nothing to put in its place.    *)
Store(c, m, value) ==
  stores' = IF value = None THEN stores ELSE [stores EXCEPT ![c][m] = value]

(* UntypedStore.OnConfigChanged, for one of the stores.                    *)
OnConfigChanged(c) ==
  LET m == changed[1][1]
      value == Parse(m, changed[1][2])
  IN /\ changed # <<>>
     /\ c \in Observers(m) \ called
     /\ IF value = None /\ stores[c][m] = None THEN ConfigsEnds
        ELSE /\ Store(c, m, value)
             /\ called' = called \cup {c}
             /\ UNCHANGED <<changed, synced, upState, lastGood>>
     /\ UNCHANGED <<controllers, configMaps, configChanges, kills>>

(* All of them were called; the process is up when every ConfigMap was     *)
(* told of.                                                                *)
OnChange ==
  LET m == changed[1][1] IN
  /\ changed # <<>> /\ called = Observers(m)
  /\ changed' = Tail(changed) /\ called' = {}
  /\ synced' = synced \cup {m}
  /\ upState' = IF synced' = ConfigsWatched THEN "up" ELSE upState
  /\ lastGood' = IF Parse(m, changed[1][2]) = None THEN lastGood
                 ELSE [lastGood EXCEPT ![m] = changed[1][2]]
  /\ UNCHANGED <<controllers, configMaps, stores, configChanges, kills>>

Kill ==
  /\ upState # "down"
  /\ kills < MaxKills
  /\ kills' = kills + 1
  /\ ConfigsEnds
  /\ UNCHANGED <<controllers, configMaps, configChanges>>

ConfigsIdle == UNCHANGED configStoresVars

ConfigStoresNext ==
  \/ \E m \in ConfigMaps : ConfigsConfigMapChanges(m)
  \/ StartWatcher
  \/ \E c \in controllers : OnConfigChanged(c)
  \/ OnChange \/ Kill \/ ConfigsIdle

(* A process that ended is started again, and the watcher goes on.         *)
ConfigStoresProgress == StartWatcher \/ OnChange \/ \E c \in controllers : OnConfigChanged(c)

ConfigStoresSpec == ConfigStoresInit /\ [][ConfigStoresNext]_configStoresVars /\ WF_configStoresVars(ConfigStoresProgress)

-----------------------------------------------------------------------------
(* What the words of a ConfigMap stand for, whatever their case.           *)
Understood(m, data) ==
  LET e == stores[CHOOSE c \in Observers(m) : TRUE][m]
      said(f, word) == f \in DOMAIN data /\ data[f].word = word
  IN m = "config-features" =>
       /\ IsStrictTransportEncryption(e) <=> said(TransportEncryption, "Strict")
       /\ IsPermissiveTransportEncryption(e) <=> said(TransportEncryption, "Permissive")
       /\ IsDisabledTransportEncryption(e) <=>
            TransportEncryption \notin DOMAIN data \/ said(TransportEncryption, "Disabled")
       /\ \A w \in {"Allow-All", "Deny-All"} :
            IsAuthorizationDefaultMode(e, w) <=> said(AuthorizationDefaultMode, w)

(* A process that is up has a configuration for each of its controllers,   *)
(* so that the type assertions of Load hold, and when the watcher has      *)
(* nothing left to tell all of them have the same: that of the last        *)
(* contents that could be parsed, read as the words say ("If construction  *)
(* fails while updating the store will log an error message").             *)
HoldsLastGood ==
  upState = "up" =>
    \A m \in ConfigsWatched :
      /\ \A c \in Observers(m) : stores[c][m] # None
      /\ changed = <<>> =>
           /\ \A c \in Observers(m) : stores[c][m] = Parse(m, lastGood[m])
           /\ Understood(m, lastGood[m])

(* All ConfigMaps that the process reads are there and well-formed.        *)
AllGood == \A m \in ConfigsWatched : configMaps[m] # None /\ Good(m, configMaps[m])

(* When the ConfigMaps have become valid the process comes up and stays.   *)
(* While one is not, a process that is up goes on but one that ended,      *)
(* whatever the reason, does not come back.                                *)
UpIfGood == AllGood => upState = "up"

-----------------------------------------------------------------------------
(***************************************************************************)
(* The controllers that are started for the CRDs of sources                *)
(* (pkg/reconciler/source/crd): a reconciler of CRDs in each replica of    *)
(* the controller process, the leader of which starts one controller for   *)
(* each CRD and version (pkg/reconciler/source/duck).  None is ever        *)
(* stopped.                                                                *)
(***************************************************************************)

CONSTANTS
  SourceCRDs,        \* The names of CRDs.
  SourceVersions,    \* The versions of each, numbers in the order of the CRD.
  Replicas,          \* The replicas of the process.
  MaxCRDChanges,     \* Bound on changes of CRDs.
  MaxControllerFaults \* Bound on faults.

VARIABLES
  crd,          \* The CRDs: the served versions, and whether it has the label of
                \* sources, or None.
  crdLister,    \* The CRDs as the lister of each replica has them.
  crdQueue,     \* The work queue of each replica.
  crdLeader,    \* The replica that leads, or None.
  duckControllers, \* The controllers of each replica, by CRD and version: how many
                \* were started.
  broken,       \* Those that could not be made, and are stored as nil.
  crdChanges,
  controllerFaults

controllerVars ==
  <<crd, crdLister, crdQueue, crdLeader, duckControllers, broken, crdChanges, controllerFaults>>

Resource == SourceCRDs \X SourceVersions
CRD == [served : SUBSET SourceVersions, labelled : BOOLEAN]

NoneRuns == [x \in Resource |-> 0]

SourceControllersInit ==
  /\ crd = [c \in SourceCRDs |-> None]
  /\ crdLister = [r \in Replicas |-> crd]
  /\ crdQueue = [r \in Replicas |-> {}]
  /\ crdLeader = None
  /\ duckControllers = [r \in Replicas |-> NoneRuns]
  /\ broken = {}
  /\ crdChanges = 0 /\ controllerFaults = 0

(* LabelFilterFunc.                                                        *)
IsSource(d) == d # None /\ d.labelled

CRDChanges(c) ==
  /\ crdChanges < MaxCRDChanges /\ crdChanges' = crdChanges + 1
  /\ \E d \in CRD \cup {None} : d # crd[c] /\ crd' = [crd EXCEPT ![c] = d]
  /\ UNCHANGED <<crdLister, crdQueue, crdLeader, duckControllers, broken, controllerFaults>>

(* The informer of r: an object that is or was a source is queued.         *)
ObserveCRD(r, c) ==
  /\ crdLister[r][c] # crd[c]
  /\ crdLister' = [crdLister EXCEPT ![r][c] = crd[c]]
  /\ crdQueue' = IF IsSource(crd[c]) \/ IsSource(crdLister[r][c])
                 THEN [crdQueue EXCEPT ![r] = @ \cup {c}] ELSE crdQueue
  /\ UNCHANGED <<crd, crdLeader, duckControllers, broken, crdChanges, controllerFaults>>

(* Mutant: whether a version is served is not looked at.                   *)
resolveLastVersion(d) == Max(SourceVersions)

(* The last version that is served.                                        *)
resolveGroupVersions(d) == IF d.served = {} THEN None ELSE Max(d.served)

(* The informer of the sources starts, or fails to: then the controller    *)
(* that is stored is nil.                                                  *)
SourcesNewController(r, x) ==
  \/ /\ duckControllers' = [duckControllers EXCEPT ![r][x] = @ + 1]
     /\ UNCHANGED <<broken, controllerFaults>>
  \/ /\ controllerFaults < MaxControllerFaults
     /\ controllerFaults' = controllerFaults + 1
     /\ broken' = broken \cup {<<r, x>>}
     /\ UNCHANGED duckControllers

(* Mutant: a controller is started on every reconciliation.                *)
reconcileControllerAnew(r, x) == SourcesNewController(r, x)

reconcileController(r, x) ==
  IF duckControllers[r][x] > 0 \/ <<r, x>> \in broken
  THEN UNCHANGED <<duckControllers, broken, controllerFaults>>
  ELSE SourcesNewController(r, x)

(* A replica that does not lead drops the key.                             *)
ReconcileCRD(r, c) ==
  LET d == crdLister[r][c]
      skipped == crdLeader # r \/ d = None
  IN /\ c \in crdQueue[r]
     /\ ~ skipped => resolveGroupVersions(d) # None
     /\ crdQueue' = [crdQueue EXCEPT ![r] = @ \ {c}]
     /\ IF skipped THEN UNCHANGED <<duckControllers, broken, controllerFaults>>
        ELSE reconcileController(r, <<c, resolveGroupVersions(d)>>)
     /\ UNCHANGED <<crd, crdLister, crdLeader, crdChanges>>

(* A CRD with no version that is served is an error, and is tried again.   *)
ReconcileCRDFails(r, c) ==
  /\ c \in crdQueue[r] /\ crdLeader = r /\ crdLister[r][c] # None
  /\ resolveGroupVersions(crdLister[r][c]) = None
  /\ UNCHANGED controllerVars

(* A replica is promoted and queues all sources (PromoteFilterFunc).       *)
PromoteReplica(r) ==
  /\ crdLeader = None
  /\ crdLeader' = r
  /\ crdQueue' = [crdQueue EXCEPT ![r] = @ \cup {c \in SourceCRDs : IsSource(crdLister[r][c])}]
  /\ UNCHANGED <<crd, crdLister, duckControllers, broken, crdChanges, controllerFaults>>

DemoteReplica ==
  /\ crdLeader # None
  /\ controllerFaults < MaxControllerFaults /\ controllerFaults' = controllerFaults + 1
  /\ crdLeader' = None
  /\ UNCHANGED <<crd, crdLister, crdQueue, duckControllers, broken, crdChanges>>

(* A replica starts again; its informers have told of everything before    *)
(* it can lead.                                                            *)
RestartReplica(r) ==
  /\ controllerFaults < MaxControllerFaults /\ controllerFaults' = controllerFaults + 1
  /\ crdLister' = [crdLister EXCEPT ![r] = crd]
  /\ crdQueue' = [crdQueue EXCEPT ![r] = {c \in SourceCRDs : IsSource(crd[c])}]
  /\ crdLeader' = IF crdLeader = r THEN None ELSE crdLeader
  /\ duckControllers' = [duckControllers EXCEPT ![r] = NoneRuns]
  /\ broken' = {b \in broken : b[1] # r}
  /\ UNCHANGED <<crd, crdChanges>>

(* Every replica has heard of a CRD and is done with it.                   *)
Attended(c) == \A r \in Replicas : crdLister[r][c] = crd[c] /\ c \notin crdQueue[r]

SourceControllersIdle ==
  /\ crdLeader # None /\ \A c \in SourceCRDs : Attended(c)
  /\ UNCHANGED controllerVars

SourceControllersNext ==
  \/ \E c \in SourceCRDs :
       \/ CRDChanges(c)
       \/ \E r \in Replicas : ObserveCRD(r, c) \/ ReconcileCRD(r, c) \/ ReconcileCRDFails(r, c)
  \/ \E r \in Replicas : PromoteReplica(r) \/ RestartReplica(r)
  \/ DemoteReplica
  \/ SourceControllersIdle

-----------------------------------------------------------------------------

(* A source is watched in a version that is served, however its CRD, the   *)
(* leader and the replicas changed, unless its informer failed once        *)
(* (resolveGroupVersions, reconcileController): then it is not tried again *)
(* until the replica starts anew.                                          *)
SourcesAreWatched ==
  crdLeader # None =>
    \A c \in SourceCRDs : Attended(c) /\ IsSource(crd[c]) /\ crd[c].served # {} =>
      \E v \in crd[c].served :
        duckControllers[crdLeader][<<c, v>>] > 0 \/ <<crdLeader, <<c, v>>>> \in broken

(* No replica runs two controllers of one CRD and version, which would     *)
(* delete and create one another's EventTypes.                             *)
OneControllerEach == \A r \in Replicas, x \in Resource : duckControllers[r][x] <= 1

===============================================================================
