------------------------------- MODULE Adapters -------------------------------
(***************************************************************************)
(* The receive adapter of PingSources, and the main function that it has   *)
(* in common with the other receive adapters.                              *)
(***************************************************************************)
EXTENDS Optional, Integers, Sequences

-----------------------------------------------------------------------------
(***************************************************************************)
(* The multi-tenant PingSource adapter (pkg/adapter/mtping).  Its          *)
(* controller hands ready sources to Update, informer handlers hand        *)
(* deleted ones to Remove, and losing the lease calls RemoveAll: three     *)
(* goroutines that share the map entryids and the cron runner.  A removal  *)
(* of a schedule commutes with everything the others do, so that it is one *)
(* step with the write to the map that follows it.                         *)
(***************************************************************************)

CONSTANTS
  PingKeys,        \* namespace/name of the sources
  Minute,          \* seconds of a minute
  AfterSecond,     \* K_NO_SHUTDOWN_AFTER
  MaxPingChanges   \* bound on changes to the sources and to the leadership

VARIABLES
  sources,    \* the informer's cache: version and readiness of each source
  notices,    \* changes that the informer's handlers have yet to see
  due,        \* the work queue
  leading,    \* this replica holds the lease
  entryids,   \* mtpingAdapter.entryids
  cron,       \* the cron runner's entries
  lastId,     \* the last id the runner gave
  updating,   \* Update of a key, between reading and writing entryids
  removing,   \* Remove of a key, between the same two
  raced,      \* an Update has overlapped a Remove of its key or a RemoveAll
  running,    \* ids of the entries whose job runs
  shutdown,   \* phase of the process, clock and remaining delay after a signal
  changes     \* count of changes

pingVars == <<sources, notices, due, leading, entryids, cron, lastId, updating, removing,
              raced, running, shutdown, changes>>

PingInit ==
  /\ sources = [k \in PingKeys |-> None]
  /\ notices = <<>>
  /\ due = {}
  /\ leading = FALSE
  /\ entryids = [k \in PingKeys |-> None]
  /\ cron = {}
  /\ lastId = 0
  /\ updating = [k \in PingKeys |-> None]
  /\ removing = None
  /\ raced = FALSE
  /\ running = {}
  /\ shutdown = [phase |-> "running", second |-> 0, delay |-> 0, late |-> FALSE]
  /\ changes = 0

Alive == shutdown.phase \in {"running", "delaying"}

PingChange == shutdown.phase = "running" /\ changes < MaxPingChanges /\ changes' = changes + 1

-----------------------------------------------------------------------------
\* A source is written; ready also says that it is not being deleted.
WriteSource(k, ready) ==
  /\ PingChange
  /\ sources' = [sources EXCEPT ![k] = [v |-> changes', ready |-> ready]]
  /\ notices' = Append(notices, [op |-> "enqueue", key |-> k])
  /\ UNCHANGED <<due, leading, entryids, cron, lastId, updating, removing, raced, running, shutdown>>

DeleteSource(k) ==
  /\ sources[k] # None
  /\ PingChange
  /\ sources' = [sources EXCEPT ![k] = None]
  /\ notices' = Append(notices, [op |-> "delete", key |-> k])
  /\ UNCHANGED <<due, leading, entryids, cron, lastId, updating, removing, raced, running, shutdown>>

\* The informer's handlers: Add and Update enqueue.
Enqueue ==
  /\ removing = None /\ notices # <<>> /\ Head(notices).op = "enqueue"
  /\ due' = due \cup {Head(notices).key}
  /\ notices' = Tail(notices)
  /\ UNCHANGED <<sources, leading, entryids, cron, lastId, updating, removing, raced, running,
                 shutdown, changes>>

\* deleteFunc and the first part of Remove.
RemoveRead ==
  /\ removing = None /\ notices # <<>> /\ Head(notices).op = "delete"
  /\ LET k == Head(notices).key IN
     /\ removing' = IF entryids[k] = None THEN None ELSE [key |-> k, id |-> entryids[k]]
     /\ raced' = (raced \/ updating[k] # None)
  /\ notices' = Tail(notices)
  /\ UNCHANGED <<sources, due, leading, entryids, cron, lastId, updating, running, shutdown, changes>>

RemoveSchedule(id) == {e \in cron : e.id # id}

RemoveWrite ==
  /\ removing # None
  /\ cron' = RemoveSchedule(removing.id)
  /\ entryids' = [entryids EXCEPT ![removing.key] = None]
  /\ removing' = None
  /\ UNCHANGED <<sources, notices, due, leading, lastId, updating, raced, running, shutdown, changes>>

\* ReconcileKind: a source that is not ready is skipped and keeps its entry.  The
\* source as it is now goes to Update, whose first part reads the map.
ReconcileKind(k) ==
  /\ Alive /\ k \in due /\ updating[k] = None
  /\ due' = due \ {k}
  /\ IF leading /\ sources[k] # None /\ sources[k].ready
     THEN /\ updating' = [updating EXCEPT ![k] = [id |-> entryids[k], v |-> sources[k].v]]
          /\ raced' = (raced \/ (removing # None /\ removing.key = k))
     ELSE UNCHANGED <<updating, raced>>
  /\ UNCHANGED <<sources, notices, leading, entryids, cron, lastId, removing, running, shutdown, changes>>

\* AddSchedule: the id is -1 when the client cannot be made.
AddSchedule(k, ok) ==
  IF ok THEN {[id |-> lastId + 1, key |-> k, v |-> updating[k].v]} ELSE {}

\* Mutant: the old schedule is not removed.
UpdateWriteTwice(k, ok) ==
  /\ updating[k] # None
  /\ cron' = cron \cup AddSchedule(k, ok)
  /\ lastId' = IF ok THEN lastId + 1 ELSE lastId
  /\ entryids' = [entryids EXCEPT ![k] = IF ok THEN lastId' ELSE -1]
  /\ updating' = [updating EXCEPT ![k] = None]
  /\ UNCHANGED <<sources, notices, due, leading, removing, raced, running, shutdown, changes>>

\* The rest of Update.
UpdateWrite(k, ok) ==
  /\ updating[k] # None
  /\ cron' = RemoveSchedule(updating[k].id) \cup AddSchedule(k, ok)
  /\ lastId' = IF ok THEN lastId + 1 ELSE lastId
  /\ entryids' = [entryids EXCEPT ![k] = IF ok THEN lastId' ELSE -1]
  /\ updating' = [updating EXCEPT ![k] = None]
  /\ UNCHANGED <<sources, notices, due, leading, removing, raced, running, shutdown, changes>>

-----------------------------------------------------------------------------
\* A new leader enqueues every source of the informer's cache.
Promote ==
  /\ ~ leading
  /\ PingChange
  /\ leading' = TRUE
  /\ due' = due \cup {k \in PingKeys : sources[k] # None}
  /\ UNCHANGED <<sources, notices, entryids, cron, lastId, updating, removing, raced, running, shutdown>>

\* DemoteFunc: RemoveAll, under the lock.
RemoveAll ==
  /\ leading
  /\ PingChange
  /\ leading' = FALSE
  /\ cron' = {e \in cron : \A k \in PingKeys : e.id # entryids[k]}
  /\ entryids' = [k \in PingKeys |-> None]
  /\ raced' = (raced \/ \E k \in PingKeys : updating[k] # None)
  /\ UNCHANGED <<sources, notices, due, lastId, updating, removing, running, shutdown>>

-----------------------------------------------------------------------------
\* A job of the cron runner starts; it sends the event with retries.
CronTick(e) ==
  /\ shutdown.phase \in {"running", "delaying", "cancelled"}
  /\ e.id \notin running
  /\ running' = running \cup {e.id}
  /\ UNCHANGED <<sources, notices, due, leading, entryids, cron, lastId, updating, removing, raced,
                 shutdown, changes>>

\* The event is sent, or lost when the retries are exhausted.
TickEnds(id) ==
  /\ running' = running \ {id}
  /\ UNCHANGED <<sources, notices, due, leading, entryids, cron, lastId, updating, removing, raced,
                 shutdown, changes>>

Goes(phase) ==
  /\ shutdown' = [shutdown EXCEPT !.phase = phase]
  /\ UNCHANGED <<sources, notices, due, leading, entryids, cron, lastId, updating, removing, raced,
                 running, changes>>

\* Mutant: the delay ends with the minute.
DelayToTheMinute(s) == IF s > AfterSecond THEN Minute - s ELSE 0

\* How long NewDelayingContext sleeps when the signal comes at second s.
Delay(s) == IF s > AfterSecond THEN Minute - s + 1 ELSE 0

PingSignal(s) ==
  /\ shutdown.phase = "running"
  /\ shutdown' = [phase |-> "delaying", second |-> s, delay |-> Delay(s), late |-> s > AfterSecond]
  /\ UNCHANGED <<sources, notices, due, leading, entryids, cron, lastId, updating, removing, raced,
                 running, changes>>

Sleep ==
  /\ shutdown.phase = "delaying" /\ shutdown.delay > 0
  /\ shutdown' = [shutdown EXCEPT !.second = (@ + 1) % Minute, !.delay = @ - 1]
  /\ UNCHANGED <<sources, notices, due, leading, entryids, cron, lastId, updating, removing, raced,
                 running, changes>>

Cancel == shutdown.phase = "delaying" /\ shutdown.delay = 0 /\ Goes("cancelled")

\* Start goes on to cronJobsRunner.Stop: no more ticks.
StopCron == shutdown.phase = "cancelled" /\ Goes("stopping")

\* Mutant: the jobs that run are not waited for.
EndNow ==
  /\ shutdown.phase = "stopping"
  /\ \A k \in PingKeys : updating[k] = None
  /\ Goes("ended")

\* Stop has waited for the jobs and MainWithInformers for the controller.
End ==
  /\ shutdown.phase = "stopping"
  /\ running = {}
  /\ \A k \in PingKeys : updating[k] = None
  /\ Goes("ended")

Ended == shutdown.phase = "ended" /\ UNCHANGED pingVars

Steps ==
  \/ Enqueue \/ RemoveRead \/ RemoveWrite
  \/ \E k \in PingKeys : ReconcileKind(k) \/ \E ok \in BOOLEAN : UpdateWrite(k, ok)
  \/ \E id \in running : TickEnds(id)

PingStops == Sleep \/ Cancel \/ StopCron \/ End

PingNext ==
  \/ \E k \in PingKeys : DeleteSource(k) \/ \E ready \in BOOLEAN : WriteSource(k, ready)
  \/ Promote \/ RemoveAll
  \/ \E e \in cron : CronTick(e)
  \/ \E s \in 0 .. Minute - 1 : PingSignal(s)
  \/ shutdown.phase # "ended" /\ Steps
  \/ PingStops
  \/ Ended

PingSpec == PingInit /\ [][PingNext]_pingVars

-----------------------------------------------------------------------------
PingQuiet ==
  /\ Alive /\ due = {} /\ notices = <<>> /\ removing = None
  /\ \A k \in PingKeys : updating[k] = None

EntriesOf(k) == {e \in cron : e.key = k}

(***************************************************************************)
(* Unless an Update overlapped a removal, the runner's entries are those   *)
(* of the map; and once everything was handled, a leader pings for each    *)
(* ready source once, with its latest version (unless no client could be   *)
(* made), for a deleted source nobody pings, and neither does a replica    *)
(* that does not lead.                                                     *)
(***************************************************************************)
PingsAreScheduled ==
  ~ raced =>
    /\ {e.id : e \in cron} = {entryids[k] : k \in PingKeys} \ {None, -1}
    /\ PingQuiet => \A k \in PingKeys :
         IF sources[k] = None \/ ~ leading THEN EntriesOf(k) = {}
         ELSE sources[k].ready =>
                \/ entryids[k] = -1
                \/ EntriesOf(k) = {[id |-> entryids[k], key |-> k, v |-> sources[k].v]}

(***************************************************************************)
(* The process ends when no job runs any more, and it does not give up its *)
(* lease late in a minute: after a signal at that time the jobs of the     *)
(* next minute have started (NewDelayingContext).                          *)
(***************************************************************************)
StopsBetweenMinutes ==
  /\ shutdown.phase = "ended" => running = {}
  /\ shutdown.phase = "cancelled" =>
       shutdown.second <= AfterSecond /\ (shutdown.late => shutdown.second > 0)

-----------------------------------------------------------------------------
(***************************************************************************)
(* The process around a receive adapter (pkg/adapter/v2/main.go): it is    *)
(* configured, starts its helpers, runs the adapter, and ends when its     *)
(* context does.  An adapter for many sources (PingSource) reads and       *)
(* watches the ConfigMaps itself; one for a single source has the          *)
(* configuration in its environment, which the source's controller fills   *)
(* from the ConfigMaps (pkg/reconciler/source/config_watcher.go).  The     *)
(* configuration is that of logging: a level, and perhaps another level    *)
(* for this component.                                                     *)
(***************************************************************************)

CONSTANTS
  Levels,       \* The levels of logging.
  DefaultLevel, \* The level without a configuration.
  MaxPolls,     \* How often a ConfigMap is asked for.
  MaxCMChanges, \* Bound on the changes of the ConfigMap.
  MaxStarts     \* Bound on the starts of the process.

VARIABLES
  multi,      \* Whether the adapter is one for many sources (constant).
  configMap,  \* The logging ConfigMap: a configuration, Invalid or Absent.
  cmNews,     \* Whether the adapter's watcher has still to hear of a change.
  cwNews,     \* Whether the controller's has.
  watched,    \* The adapter's watcher: "no", "registered" or "started".
  level,      \* The level in effect in the adapter.
  step,       \* Where MainWithInformers is.
  polls,      \* How often it has asked for the ConfigMap in this step.
  helpers,    \* The goroutines that main waits for.
  ctxDone,    \* Whether the process was told to stop.
  loggingCfg, \* The configuration that the controller's ConfigWatcher has.
  podEnv,     \* The configuration in the environment of the Deployment's pods.
  env,        \* The one in the environment of this process.
  cmChanges,  \* How often the ConfigMap changed.
  starts      \* How often the process started.

adapterMainVars == <<multi, configMap, cmNews, cwNews, watched, level, step, polls, helpers,
                     ctxDone, loggingCfg, podEnv, env, cmChanges, starts>>

mainControllerVars == <<cwNews, loggingCfg, podEnv>>

Configurations == [base : Levels, own : Levels \cup {None}]

Default == [base |-> DefaultLevel, own |-> None]
Invalid == [base |-> "invalid", own |-> None]
Absent == [base |-> None, own |-> None]

(* The level of the component, if it has one.                              *)
levelOf(cfg) == IF cfg.own = None THEN cfg.base ELSE cfg.own

AdapterMainInit ==
  /\ multi \in BOOLEAN
  /\ configMap \in {Default, Absent}
  /\ cmNews = FALSE
  /\ cwNews = FALSE
  /\ watched = "no"
  /\ level = None
  /\ step = "logger"
  /\ polls = 0
  /\ helpers = {}
  /\ ctxDone = FALSE
  /\ loggingCfg = Default
  /\ podEnv = Default
  /\ env = Default
  /\ cmChanges = 0
  /\ starts = 1

-----------------------------------------------------------------------------
(* The configuration on its way to the environment.                        *)

MainConfigMapChanges ==
  /\ cmChanges < MaxCMChanges
  /\ cmChanges' = cmChanges + 1
  /\ configMap' \in (Configurations \cup {Invalid}) \ {configMap}
  /\ cmNews' = (watched = "started")
  /\ cwNews' = TRUE
  /\ UNCHANGED <<multi, watched, level, step, polls, helpers, ctxDone, loggingCfg, podEnv, env,
                 starts>>

(* A configuration that cannot be read changes nothing.                    *)
updateFromLoggingConfigMap ==
  /\ cwNews
  /\ cwNews' = FALSE
  /\ loggingCfg' = IF configMap = Invalid THEN loggingCfg ELSE configMap
  /\ UNCHANGED <<multi, configMap, cmNews, watched, level, step, polls, helpers, ctxDone, podEnv,
                 env, cmChanges, starts>>

(* The level of the component replaces the other one, in the object that   *)
(* the ConfigWatcher keeps.                                                *)
overrideLoggingLevel(cfg) == IF cfg.own = None THEN cfg ELSE [cfg EXCEPT !.base = cfg.own]

(* A reconciliation of the source; a change of the ConfigMap alone does    *)
(* not cause one.                                                          *)
ToEnvVars ==
  /\ loggingCfg' = overrideLoggingLevel(loggingCfg)
  /\ podEnv' = loggingCfg'
  /\ <<loggingCfg, podEnv>>' # <<loggingCfg, podEnv>>
  /\ UNCHANGED <<multi, configMap, cmNews, cwNews, watched, level, step, polls, helpers, ctxDone,
                 env, cmChanges, starts>>

-----------------------------------------------------------------------------
(* The start of the process.                                               *)

Keep == UNCHANGED <<multi, configMap, mainControllerVars, env, cmChanges, starts>>

GoTo(next) == step' = next /\ polls' = 0

Dies ==
  /\ GoTo("dead")
  /\ helpers' = {}
  /\ UNCHANGED <<cmNews, watched, level, ctxDone>>

(* GetConfigMapByPolling: a ConfigMap that is not there is an empty one,   *)
(* any other error is tried again.                                         *)
PollFails ==
  /\ multi /\ step \in {"logger", "observability"}
  /\ polls < MaxPolls /\ ~ctxDone
  /\ polls' = polls + 1
  /\ Keep /\ UNCHANGED <<cmNews, watched, level, step, helpers, ctxDone>>

PollsOver == polls = MaxPolls \/ ctxDone

(* CreateLogger: the defaults, if the polls failed, and two observers.     *)
CreateLoggerUnwatched ==
  /\ multi /\ step = "logger"
  /\ LET read == IF PollsOver \/ configMap = Absent THEN Default ELSE configMap IN
       IF read = Invalid THEN Dies
       ELSE /\ level' = levelOf(read)
            /\ GoTo("observability")
            /\ UNCHANGED <<cmNews, watched, helpers, ctxDone>>
  /\ Keep

CreateLogger ==
  /\ multi /\ step = "logger"
  /\ LET read == IF PollsOver \/ configMap = Absent THEN Default ELSE configMap IN
       IF read = Invalid THEN Dies
       ELSE /\ level' = levelOf(read)
            /\ watched' = "registered"
            /\ GoTo("observability")
            /\ UNCHANGED <<cmNews, helpers, ctxDone>>
  /\ Keep

(* From the environment: the defaults, if it cannot be read.               *)
GetLogger ==
  /\ ~multi /\ step = "logger"
  /\ level' = levelOf(env)
  /\ GoTo("observability")
  /\ Keep /\ UNCHANGED <<cmNews, watched, helpers, ctxDone>>

(* Observability of many sources cannot do without its ConfigMap's polls.  *)
SetupObservabilityOrDie ==
  /\ step = "observability"
  /\ IF multi /\ PollsOver THEN Dies
     ELSE /\ GoTo("client")
          /\ UNCHANGED <<cmNews, watched, level, helpers, ctxDone>>
  /\ Keep

(* NewClient fails if the overrides cannot be read.                        *)
NewClient ==
  /\ step = "client"
  /\ \/ Dies
     \/ GoTo("watcher") /\ UNCHANGED <<cmNews, watched, level, helpers, ctxDone>>
  /\ Keep

(* The watcher's Start: every ConfigMap that is watched must be there; the *)
(* observers have heard of it when Start returns.                          *)
StartConfigWatcher ==
  /\ step = "watcher"
  /\ IF ~multi THEN GoTo("helpers") /\ UNCHANGED <<cmNews, watched, level, helpers, ctxDone>>
     ELSE IF configMap = Absent \/ ctxDone THEN Dies
     ELSE /\ watched' = IF watched = "registered" THEN "started" ELSE watched
          /\ level' = IF configMap = Invalid \/ watched = "no" THEN level ELSE levelOf(configMap)
          /\ cmNews' = FALSE
          /\ GoTo("helpers")
          /\ UNCHANGED <<helpers, ctxDone>>
  /\ Keep

StartHelpers ==
  /\ step = "helpers"
  /\ helpers' = {"probes", "pprof"} \cup (IF multi THEN {"controller"} ELSE {})
  /\ GoTo("running")
  /\ Keep /\ UNCHANGED <<cmNews, watched, level, ctxDone>>

-----------------------------------------------------------------------------
(* While the adapter runs, and after.                                      *)

UpdateLevelFromConfigMap ==
  /\ cmNews /\ watched = "started" /\ step \in {"running", "waiting"}
  /\ cmNews' = FALSE
  /\ level' = IF configMap = Invalid THEN level ELSE levelOf(configMap)
  /\ Keep /\ UNCHANGED <<watched, step, polls, helpers, ctxDone>>

MainSignal ==
  /\ ~ctxDone /\ step \notin {"dead", "ended"}
  /\ ctxDone' = TRUE
  /\ Keep /\ UNCHANGED <<cmNews, watched, level, step, polls, helpers>>

(* The adapter's Start ends with an error, or with its context; then the   *)
(* profiling server is shut down.                                          *)
AdapterReturnsOnly ==
  /\ step = "running"
  /\ \/ Dies
     \/ /\ ctxDone
        /\ GoTo("waiting")
        /\ UNCHANGED <<cmNews, watched, level, helpers, ctxDone>>
  /\ Keep

AdapterReturns ==
  /\ step = "running"
  /\ \/ Dies
     \/ /\ ctxDone
        /\ helpers' = helpers \ {"pprof"}
        /\ GoTo("waiting")
        /\ UNCHANGED <<cmNews, watched, level, ctxDone>>
  /\ Keep

(* The controller and the probes end with the context.                     *)
HelperEnds ==
  /\ ctxDone
  /\ \E h \in helpers \ {"pprof"} : helpers' = helpers \ {h}
  /\ Keep /\ UNCHANGED <<cmNews, watched, level, step, polls, ctxDone>>

WaitReturns ==
  /\ step = "waiting" /\ helpers = {}
  /\ GoTo("ended")
  /\ Keep /\ UNCHANGED <<cmNews, watched, level, helpers, ctxDone>>

(* A process that ended is started again, with the environment of today.   *)
Restart ==
  /\ step \in {"dead", "ended"} /\ starts < MaxStarts
  /\ starts' = starts + 1
  /\ GoTo("logger")
  /\ level' = None
  /\ watched' = "no"
  /\ cmNews' = FALSE
  /\ ctxDone' = FALSE
  /\ env' = podEnv
  /\ UNCHANGED <<multi, configMap, mainControllerVars, helpers, cmChanges>>

Finished ==
  /\ step = "waiting" \/ (step \in {"dead", "ended"} /\ starts = MaxStarts)
  /\ UNCHANGED adapterMainVars

Starting ==
  CreateLogger \/ GetLogger \/ SetupObservabilityOrDie \/ NewClient \/ StartConfigWatcher
    \/ StartHelpers

AdapterMainNext ==
  \/ MainConfigMapChanges \/ updateFromLoggingConfigMap \/ ToEnvVars
  \/ PollFails \/ Starting
  \/ UpdateLevelFromConfigMap \/ MainSignal
  \/ AdapterReturns \/ HelperEnds \/ WaitReturns
  \/ Restart \/ Finished

(* The steps of a process that its code takes by itself.                   *)
AdapterMainProgress == Starting \/ (ctxDone /\ AdapterReturns) \/ HelperEnds \/ WaitReturns

AdapterMainSpec == AdapterMainInit /\ [][AdapterMainNext]_adapterMainVars /\ WF_adapterMainVars(AdapterMainProgress)

-----------------------------------------------------------------------------
(* The level in effect is that of the ConfigMap, if that can be read.  An  *)
(* adapter that watches the ConfigMap comes to it by itself, whatever was  *)
(* changed or invalid while it started; one that has it in its environment *)
(* does when the source was reconciled since, and the pod started since.   *)
LevelIsCurrent ==
  step = "running" /\ configMap \in Configurations =>
    /\ multi /\ ~cmNews => level = levelOf(configMap)
    /\ ~multi /\ ~cwNews /\ podEnv = loggingCfg /\ env = podEnv => level = levelOf(configMap)

(* A process that was told to stop ends: nothing that main waits for stays.*)
MainStops == ctxDone => step \in {"dead", "ended"}

===============================================================================
