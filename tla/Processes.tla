------------------------------ MODULE Processes ------------------------------
(***************************************************************************)
(* The parts of the system that have a specification of their own and      *)
(* share no state with the others: the admission webhook, the filters of a *)
(* trigger, the lineage graph, and those of the modules this one extends.  *)
(* They run in different processes or are called from different places, so *)
(* that checking them one at a time leaves nothing out: a behaviour of     *)
(* this module is a behaviour of one of them.                              *)
(***************************************************************************)
EXTENDS Adapters, ApiServerAdapter, HttpTransport, Authorization, RequestReplySecret,
        RequestReplyControl, ChannelInformers, ControllerRuntime, EventIngress

CONSTANTS
  Parts,          \* the parts to check
  AdmittedKinds,  \* see Admission
  FilterSpecs, FilterEvents, FilterCalls, MaxSwaps,  \* see EventFilters
  Worlds, Listings, Orders, Variable, Brace          \* see EventGraph

VARIABLES
  part,  \* which of them runs (constant)
  kind, stored, cfg, at, user,
  spec, root, indexChan, closed, loopDone, swaps, swapped, filtering, cleanup,
  world, listing, lenient, graph, fetched, built, lineage

Webhooks == INSTANCE Admission
Filters == INSTANCE EventFilters
Lineage == INSTANCE EventGraph

webhookVars == <<kind, stored, cfg, at, user>>
filterVars == <<spec, root, indexChan, closed, loopDone, swaps, swapped, filtering,
                cleanup>>
lineageVars == <<world, listing, lenient, graph, fetched, built, lineage>>

vars == <<part, webhookVars, filterVars, lineageVars, pingVars, apiVars,
          adapterMainVars, sourceClientVars, clientVars, backoffVars, serverVars,
          authVars, policyHandlerVars, keysVars, routesVars, keyStoreVars,
          channelHandlerVars, trackedVars, certificatesVars, configStoresVars,
          controllerVars, jobVars, eventTypeVars>>

-----------------------------------------------------------------------------
(***************************************************************************)
(* The part that runs starts as it does by itself.  The others stay in one *)
(* of their initial states, or have no value.                              *)
(***************************************************************************)

\* Which initial state part p is in while another runs.
Still(p, choice) == IF part = p THEN TRUE ELSE choice

webhookOff ==
  /\ kind = None /\ stored = None /\ cfg = None /\ at = None /\ user = None

filtersOff ==
  /\ spec = None /\ root = None /\ indexChan = None /\ closed = None /\ loopDone = None
  /\ swaps = None /\ swapped = None /\ filtering = None /\ cleanup = None

graphOff ==
  /\ world = None /\ listing = None /\ lenient = None /\ graph = None /\ fetched = None
  /\ built = None /\ lineage = None

Init ==
  /\ part \in Parts
  /\ IF part = "webhook" THEN Webhooks!Init ELSE webhookOff
  /\ IF part = "filters" THEN Filters!FiltersInit ELSE filtersOff
  /\ IF part = "graph" THEN Lineage!GraphInit ELSE graphOff
  /\ PingInit
  /\ Still("apiserver",
           config = [failFast |-> TRUE, owner |-> FALSE, namespaces |-> FALSE, exists |-> {}])
  /\ ApiInit
  /\ Still("adapters", multi = FALSE /\ configMap = Absent)
  /\ AdapterMainInit
  /\ Still("senders", audience = FALSE)
  /\ SourceClientInit
  /\ ClientsInit
  /\ Still("backoff",
           delivery = [policy |-> None, delay |-> None, max |-> None, retryAfterMax |-> None])
  /\ BackoffInit
  /\ Still("servers", encryption = "disabled")
  /\ ServersInit
  /\ Still("authproxy", flags = CHOOSE f \in Features : TRUE)
  /\ AuthInit
  /\ PolicyHandlersInit
  /\ KeysInit
  /\ Still("routes", replicas = 1)
  /\ RoutesInit
  /\ KeyStoreInit
  /\ Still("channels", strict = FALSE /\ oidc = FALSE)
  /\ ChannelHandlersInit
  /\ Still("tracking", chan = None /\ backing = None)
  /\ TrackedChannelsInit
  /\ Still("certificates", installed = FALSE)
  /\ CertificatesInit
  /\ Still("configs",
           /\ controllers = Sugar
           /\ configMaps = [m \in ConfigMaps |-> CHOOSE d \in ConfigData[m] : Good(m, d)])
  /\ ConfigStoresInit
  /\ SourceControllersInit
  /\ JobInit
  /\ Still("types", autoCreate = FALSE)
  /\ EventTypeInit

-----------------------------------------------------------------------------
(* The steps of a part leave the variables of the others alone.            *)

webhookOnly ==
  /\ part = "webhook"
  /\ UNCHANGED <<part, filterVars, lineageVars, pingVars, apiVars, adapterMainVars,
                 sourceClientVars, clientVars, backoffVars, serverVars, authVars,
                 policyHandlerVars, keysVars, routesVars, keyStoreVars,
                 channelHandlerVars, trackedVars, certificatesVars, configStoresVars,
                 controllerVars, jobVars, eventTypeVars>>

filtersOnly ==
  /\ part = "filters"
  /\ UNCHANGED <<part, webhookVars, lineageVars, pingVars, apiVars, adapterMainVars,
                 sourceClientVars, clientVars, backoffVars, serverVars, authVars,
                 policyHandlerVars, keysVars, routesVars, keyStoreVars,
                 channelHandlerVars, trackedVars, certificatesVars, configStoresVars,
                 controllerVars, jobVars, eventTypeVars>>

graphOnly ==
  /\ part = "graph"
  /\ UNCHANGED <<part, webhookVars, filterVars, pingVars, apiVars, adapterMainVars,
                 sourceClientVars, clientVars, backoffVars, serverVars, authVars,
                 policyHandlerVars, keysVars, routesVars, keyStoreVars,
                 channelHandlerVars, trackedVars, certificatesVars, configStoresVars,
                 controllerVars, jobVars, eventTypeVars>>

mtpingOnly ==
  /\ part = "mtping"
  /\ UNCHANGED <<part, webhookVars, filterVars, lineageVars, apiVars, adapterMainVars,
                 sourceClientVars, clientVars, backoffVars, serverVars, authVars,
                 policyHandlerVars, keysVars, routesVars, keyStoreVars,
                 channelHandlerVars, trackedVars, certificatesVars, configStoresVars,
                 controllerVars, jobVars, eventTypeVars>>

apiserverOnly ==
  /\ part = "apiserver"
  /\ UNCHANGED <<part, webhookVars, filterVars, lineageVars, pingVars, adapterMainVars,
                 sourceClientVars, clientVars, backoffVars, serverVars, authVars,
                 policyHandlerVars, keysVars, routesVars, keyStoreVars,
                 channelHandlerVars, trackedVars, certificatesVars, configStoresVars,
                 controllerVars, jobVars, eventTypeVars>>

adaptersOnly ==
  /\ part = "adapters"
  /\ UNCHANGED <<part, webhookVars, filterVars, lineageVars, pingVars, apiVars,
                 sourceClientVars, clientVars, backoffVars, serverVars, authVars,
                 policyHandlerVars, keysVars, routesVars, keyStoreVars,
                 channelHandlerVars, trackedVars, certificatesVars, configStoresVars,
                 controllerVars, jobVars, eventTypeVars>>

sendersOnly ==
  /\ part = "senders"
  /\ UNCHANGED <<part, webhookVars, filterVars, lineageVars, pingVars, apiVars,
                 adapterMainVars, clientVars, backoffVars, serverVars, authVars,
                 policyHandlerVars, keysVars, routesVars, keyStoreVars,
                 channelHandlerVars, trackedVars, certificatesVars, configStoresVars,
                 controllerVars, jobVars, eventTypeVars>>

clientsOnly ==
  /\ part = "clients"
  /\ UNCHANGED <<part, webhookVars, filterVars, lineageVars, pingVars, apiVars,
                 adapterMainVars, sourceClientVars, backoffVars, serverVars, authVars,
                 policyHandlerVars, keysVars, routesVars, keyStoreVars,
                 channelHandlerVars, trackedVars, certificatesVars, configStoresVars,
                 controllerVars, jobVars, eventTypeVars>>

backoffOnly ==
  /\ part = "backoff"
  /\ UNCHANGED <<part, webhookVars, filterVars, lineageVars, pingVars, apiVars,
                 adapterMainVars, sourceClientVars, clientVars, serverVars, authVars,
                 policyHandlerVars, keysVars, routesVars, keyStoreVars,
                 channelHandlerVars, trackedVars, certificatesVars, configStoresVars,
                 controllerVars, jobVars, eventTypeVars>>

serversOnly ==
  /\ part = "servers"
  /\ UNCHANGED <<part, webhookVars, filterVars, lineageVars, pingVars, apiVars,
                 adapterMainVars, sourceClientVars, clientVars, backoffVars, authVars,
                 policyHandlerVars, keysVars, routesVars, keyStoreVars,
                 channelHandlerVars, trackedVars, certificatesVars, configStoresVars,
                 controllerVars, jobVars, eventTypeVars>>

authproxyOnly ==
  /\ part = "authproxy"
  /\ UNCHANGED <<part, webhookVars, filterVars, lineageVars, pingVars, apiVars,
                 adapterMainVars, sourceClientVars, clientVars, backoffVars, serverVars,
                 policyHandlerVars, keysVars, routesVars, keyStoreVars,
                 channelHandlerVars, trackedVars, certificatesVars, configStoresVars,
                 controllerVars, jobVars, eventTypeVars>>

policiesOnly ==
  /\ part = "policies"
  /\ UNCHANGED <<part, webhookVars, filterVars, lineageVars, pingVars, apiVars,
                 adapterMainVars, sourceClientVars, clientVars, backoffVars, serverVars,
                 authVars, keysVars, routesVars, keyStoreVars, channelHandlerVars,
                 trackedVars, certificatesVars, configStoresVars, controllerVars,
                 jobVars, eventTypeVars>>

keysOnly ==
  /\ part = "keys"
  /\ UNCHANGED <<part, webhookVars, filterVars, lineageVars, pingVars, apiVars,
                 adapterMainVars, sourceClientVars, clientVars, backoffVars, serverVars,
                 authVars, policyHandlerVars, routesVars, keyStoreVars,
                 channelHandlerVars, trackedVars, certificatesVars, configStoresVars,
                 controllerVars, jobVars, eventTypeVars>>

routesOnly ==
  /\ part = "routes"
  /\ UNCHANGED <<part, webhookVars, filterVars, lineageVars, pingVars, apiVars,
                 adapterMainVars, sourceClientVars, clientVars, backoffVars, serverVars,
                 authVars, policyHandlerVars, keysVars, keyStoreVars,
                 channelHandlerVars, trackedVars, certificatesVars, configStoresVars,
                 controllerVars, jobVars, eventTypeVars>>

keystoreOnly ==
  /\ part = "keystore"
  /\ UNCHANGED <<part, webhookVars, filterVars, lineageVars, pingVars, apiVars,
                 adapterMainVars, sourceClientVars, clientVars, backoffVars, serverVars,
                 authVars, policyHandlerVars, keysVars, routesVars, channelHandlerVars,
                 trackedVars, certificatesVars, configStoresVars, controllerVars,
                 jobVars, eventTypeVars>>

channelsOnly ==
  /\ part = "channels"
  /\ UNCHANGED <<part, webhookVars, filterVars, lineageVars, pingVars, apiVars,
                 adapterMainVars, sourceClientVars, clientVars, backoffVars, serverVars,
                 authVars, policyHandlerVars, keysVars, routesVars, keyStoreVars,
                 trackedVars, certificatesVars, configStoresVars, controllerVars,
                 jobVars, eventTypeVars>>

trackingOnly ==
  /\ part = "tracking"
  /\ UNCHANGED <<part, webhookVars, filterVars, lineageVars, pingVars, apiVars,
                 adapterMainVars, sourceClientVars, clientVars, backoffVars, serverVars,
                 authVars, policyHandlerVars, keysVars, routesVars, keyStoreVars,
                 channelHandlerVars, certificatesVars, configStoresVars, controllerVars,
                 jobVars, eventTypeVars>>

certificatesOnly ==
  /\ part = "certificates"
  /\ UNCHANGED <<part, webhookVars, filterVars, lineageVars, pingVars, apiVars,
                 adapterMainVars, sourceClientVars, clientVars, backoffVars, serverVars,
                 authVars, policyHandlerVars, keysVars, routesVars, keyStoreVars,
                 channelHandlerVars, trackedVars, configStoresVars, controllerVars,
                 jobVars, eventTypeVars>>

configsOnly ==
  /\ part = "configs"
  /\ UNCHANGED <<part, webhookVars, filterVars, lineageVars, pingVars, apiVars,
                 adapterMainVars, sourceClientVars, clientVars, backoffVars, serverVars,
                 authVars, policyHandlerVars, keysVars, routesVars, keyStoreVars,
                 channelHandlerVars, trackedVars, certificatesVars, controllerVars,
                 jobVars, eventTypeVars>>

sourcesOnly ==
  /\ part = "sources"
  /\ UNCHANGED <<part, webhookVars, filterVars, lineageVars, pingVars, apiVars,
                 adapterMainVars, sourceClientVars, clientVars, backoffVars, serverVars,
                 authVars, policyHandlerVars, keysVars, routesVars, keyStoreVars,
                 channelHandlerVars, trackedVars, certificatesVars, configStoresVars,
                 jobVars, eventTypeVars>>

jobsinkOnly ==
  /\ part = "jobsink"
  /\ UNCHANGED <<part, webhookVars, filterVars, lineageVars, pingVars, apiVars,
                 adapterMainVars, sourceClientVars, clientVars, backoffVars, serverVars,
                 authVars, policyHandlerVars, keysVars, routesVars, keyStoreVars,
                 channelHandlerVars, trackedVars, certificatesVars, configStoresVars,
                 controllerVars, eventTypeVars>>

typesOnly ==
  /\ part = "types"
  /\ UNCHANGED <<part, webhookVars, filterVars, lineageVars, pingVars, apiVars,
                 adapterMainVars, sourceClientVars, clientVars, backoffVars, serverVars,
                 authVars, policyHandlerVars, keysVars, routesVars, keyStoreVars,
                 channelHandlerVars, trackedVars, certificatesVars, configStoresVars,
                 controllerVars, jobVars>>

Next ==
  \/ webhookOnly /\ Webhooks!Next
  \/ filtersOnly /\ Filters!FiltersNext
  \/ graphOnly /\ Lineage!GraphNext
  \/ mtpingOnly /\ PingNext
  \/ apiserverOnly /\ ApiNext
  \/ adaptersOnly /\ AdapterMainNext
  \/ sendersOnly /\ SourceClientNext
  \/ clientsOnly /\ ClientsNext
  \/ backoffOnly /\ BackoffNext
  \/ serversOnly /\ ServersNext
  \/ authproxyOnly /\ AuthNext
  \/ policiesOnly /\ PolicyHandlersNext
  \/ keysOnly /\ KeysNext
  \/ routesOnly /\ RoutesNext
  \/ keystoreOnly /\ KeyStoreNext
  \/ channelsOnly /\ ChannelHandlersNext
  \/ trackingOnly /\ TrackedChannelsNext
  \/ certificatesOnly /\ CertificatesNext
  \/ configsOnly /\ ConfigStoresNext
  \/ sourcesOnly /\ SourceControllersNext
  \/ jobsinkOnly /\ JobNext
  \/ typesOnly /\ EventTypeNext

\* Every part goes on where its code does: see the Progress of each module. A
\* step of a part leaves the variables of the others alone, so that fairness is
\* stated over its own.
Spec ==
  /\ Init /\ [][Next]_vars
  /\ WF_apiVars(part = "apiserver" /\ ApiProgress)
  /\ WF_clientVars(part = "clients" /\ ClientsProgress)
  /\ WF_clientVars(part = "clients" /\ Resync)
  /\ WF_clientVars(part = "clients" /\ Handle)
  /\ WF_clientVars(part = "clients" /\ getClientForAddressable)
  /\ WF_filterVars(part = "filters" /\ Filters!FiltersProgress)
  /\ WF_keysVars(part = "keys" /\ KeysProgress)
  /\ WF_routesVars(part = "routes" /\ RoutesProgress)
  /\ WF_adapterMainVars(part = "adapters" /\ AdapterMainProgress)
  /\ WF_configStoresVars(part = "configs" /\ ConfigStoresProgress)

-----------------------------------------------------------------------------
(***************************************************************************)
(* The properties of several parts.  Those of one part that are checked by *)
(* themselves are stated in its module.                                    *)
(***************************************************************************)

\* Webhooks: a later write of a controller that changes nothing is admitted,
\* whatever the administrator makes of the defaults, as long as the features the
\* object relies on stay; defaulting is done with the first write; what is stored
\* is what the reconcilers and the data plane take for granted; and clients of all
\* versions see the same object and can write it back.
AdmittedIsStable ==
  part = "webhook" =>
    Webhooks!Readmitted /\ Webhooks!DefaultsSettle /\ Webhooks!Usable /\ Webhooks!VersionsAgree

\* Admission webhook: while an object exists no write, and no defaulting of a
\* later write under another configuration, changes the class or configuration
\* of a Broker, the Broker a Trigger names, a Channel's template or a
\* Subscription's channel; and the subscribers of an InMemoryChannel change only
\* by the hand of the eventing-controller, whose Subscriptions they are.
FrozenStays ==
  [][part = "webhook" => Webhooks!KeepsFrozen /\ Webhooks!KeepsSubscribers]_vars

\* At rest a process works with what it was last told, however the changes came
\* between its steps: the cron runner with the sources, the HTTPS server with the
\* key pair, a RequestReply pod with the keys in its volume, the dispatcher with
\* the channels, the leader with the CRDs of sources, an adapter with the level of
\* logging, a Subscription with its channels, an EventTransform with its
\* certificate, and the stores with the last configuration that could be parsed.
ProcessesFollow ==
  CASE part = "mtping" -> PingsAreScheduled
    [] part = "servers" -> PresentsLastPair
    [] part = "keystore" -> KeysFollowVolume
    [] part = "channels" -> ChannelsAreServed
    [] part = "sources" -> SourcesAreWatched
    [] part = "adapters" -> LevelIsCurrent
    [] part = "tracking" -> SubscriptionsFollow
    [] part = "certificates" -> CertificatesFollow
    [] part = "configs" -> HoldsLastGood
    [] OTHER -> TRUE

\* What is computed from a request or from resources is what they ask for: the
\* Location of an accepted event leads to its Job; a request passes under a policy
\* that lets it; a retry waits as long as the delivery specification and
\* Retry-After say, without overflow; an event passes exactly the filters that
\* hold of it, whatever others reorder meanwhile; and the lineage graph has the
\* edges that resources ask for and only paths that some event can take.
AnswersAreRight ==
  CASE part = "jobsink" -> PollFindsJob
    [] part = "authproxy" -> PassesUnderPolicy
    [] part = "backoff" -> WaitsAsAsked
    [] part = "filters" -> Filters!FilteredAsWritten
    [] part = "graph" -> Lineage!EdgesAreDeliveries /\ Lineage!LineageIsPossible
    [] OTHER -> TRUE

\* What is started once is not started twice, and what ends leaves nothing
\* running: the ping adapter ends between minutes and without jobs, the reflectors
\* of the fail-fast mode end with start, a kind of channel has one informer, and
\* a replica one controller for each version of a source's CRD.
StartsAndStops ==
  CASE part = "mtping" -> StopsBetweenMinutes
    [] part = "apiserver" -> ReturnsWhenDone
    [] part = "tracking" -> OneInformerEach
    [] part = "sources" -> OneControllerEach
    [] OTHER -> TRUE

\* Every part gets to its end.  "If any single watch fails, it will return an error
\* and stop all watches": one failed reflector ends all.  The clients of subscribers
\* come to trust the current certificates, although a late dispatch may put an old
\* client back.  Cleanup of filters, which holds a lock that every event needs,
\* ends.  Every RequestReply gets a key, the replies for every pod reach it, and
\* only the triggers of the current replica count are left ("so we can delete them
\* when we are ready"), if no call failed.  A receive adapter told to stop ends, and
\* a process whose ConfigMaps are well-formed comes up.
PartsComeToRest ==
  <>[](CASE part = "apiserver" -> EndsTogether
         [] part = "clients" -> CaughtUp
         [] part = "filters" -> cleanup # "closing"
         [] part = "keys" -> HaveKeys
         [] part = "routes" -> AllRouted /\ OnlyCurrent
         [] part = "adapters" -> MainStops
         [] part = "configs" -> UpIfGood
         [] OTHER -> TRUE)

=============================================================================
