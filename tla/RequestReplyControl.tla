------------------------- MODULE RequestReplyControl --------------------------
(***************************************************************************)
(* What RequestReply pods rely on: the triggers that take replies back to  *)
(* the pod of their request, and the store of keys of a pod.               *)
(***************************************************************************)
EXTENDS Optional, Integers, Sequences, FiniteSetsExt

-----------------------------------------------------------------------------
(***************************************************************************)
(* reconcileTriggers (pkg/reconciler/requestreply/requestreply.go): one    *)
(* trigger per data plane pod routes the replies with that pod's index to  *)
(* the pod's address.  When the statefulset is scaled a new generation of  *)
(* triggers is made, and a timer deletes the old one after a delay, so     *)
(* that replies in flight still arrive.                                    *)
(*                                                                         *)
(* A trigger is named <<i, n>> by its index and the replicas it was made   *)
(* for.  Triggers are read through a lister whose objects the reconciler   *)
(* writes to; pods are read from the API server.                           *)
(***************************************************************************)

CONSTANTS
  MaxReplicas,   \* bound on the replicas of the statefulset
  MaxScalings,   \* bound on how often it is scaled
  MaxMoves,      \* bound on pods that are replaced
  MaxFaults,     \* bound on API calls that fail and restarts of the controller
  MaxDisturbances \* bound on scalings, moves and faults together

VARIABLES
  replicas,  \* spec.replicas of the statefulset
  podIP,     \* podIP[i]: the address of pod i, NoIP while it has none, or NoPod
  triggers,  \* the triggers of the API server
  triggersCached,    \* the lister's triggers
  events,    \* the watch: triggers as they were written, not yet delivered
  desired,   \* status.desiredReplicas, 0 if not set
  ready,     \* status.readyReplicas
  previous,  \* the annotation with the previous replica count, 0 if there is none
  timers,    \* timers[n]: timers that will delete the triggers made for n replicas
  rescaled,  \* history: a scaling came before all was done of the last one
  budget     \* scalings, moves and faults left

routesVars == <<replicas, podIP, triggers, triggersCached, events, desired, ready, previous, timers,
                rescaled, budget>>
status == <<desired, ready, previous, rescaled>>

Idx == 0..(MaxReplicas - 1)
Counts == 1..MaxReplicas
Names == {t \in Idx \X Counts : t[1] < t[2]}

NoPod == -2
NoIP == -1
Addresses == {NoIP} \union 0..MaxMoves

\* A trigger's subscriber, the address its subscription delivers to, and
\* whether its status says it is ready.
Trigger == [spec : Addresses, route : Addresses \union {NoPod}, ready : BOOLEAN]
NoTrigger == [spec |-> NoPod, route |-> NoPod, ready |-> FALSE]

\* The API server reports what was written to these triggers.
RoutesWatched(written) ==
  events' = FoldSet(LAMBDA t, es : Append(es, <<t, triggers'[t]>>), events, written)

Disturbances ==
  (MaxScalings - budget.scale) + (MaxMoves - budget.move) + (MaxFaults - budget.fault)

Spend(what) ==
  /\ budget[what] > 0 /\ Disturbances < MaxDisturbances
  /\ budget' = [budget EXCEPT ![what] = @ - 1]

RoutesInit ==
  /\ replicas \in Counts
  /\ podIP = [i \in Idx |-> IF i < replicas THEN 0 ELSE NoPod]
  /\ triggers = [t \in Names |-> NoTrigger]
  /\ triggersCached = triggers
  /\ events = <<>>
  /\ desired = 0 /\ ready = 0 /\ previous = 0
  /\ timers = [n \in Counts |-> 0]
  /\ rescaled = FALSE
  /\ budget = [scale |-> MaxScalings, move |-> MaxMoves, fault |-> MaxFaults]

-----------------------------------------------------------------------------
(***************************************************************************)
(* The reconciler.  A reconciliation handles the triggers in want, those   *)
(* of the current generation whose pod could be read.                      *)
(***************************************************************************)

\* Mutant: a trigger that is there is left as it is.
EqualByName(t) == triggersCached[t] # NoTrigger

\* The lister's trigger has the pod's address.
Equal(t) == triggersCached[t].spec = podIP[t[1]]

\* A write is refused if the lister is behind: a trigger it does not know
\* exists, or the one it knows has changed.
Accepted(t) == \A e \in Range(events) : e[1] # t

\* The triggers counted as ready.
Counted(want) == {t \in want : Equal(t) /\ triggersCached[t].ready}

\* A trigger is created, or updated in its spec only; an update writes to the
\* lister's object before it is sent.
CreateOrUpdate(want, written) ==
  /\ triggers' = [t \in Names |->
       IF t \notin written THEN triggers[t]
       ELSE IF triggers[t] = NoTrigger THEN [NoTrigger EXCEPT !.spec = podIP[t[1]]]
       ELSE [triggers[t] EXCEPT !.spec = podIP[t[1]]]]
  /\ triggersCached' = [t \in Names |->
       IF t \in want /\ triggersCached[t] # NoTrigger
       THEN [triggersCached[t] EXCEPT !.spec = podIP[t[1]]] ELSE triggersCached[t]]
  /\ RoutesWatched(written)

\* Mutant: the old triggers' timer is started before the new ones are ready.
StartCleanupEarly(previousCount, readyCount) ==
  IF replicas # ready /\ previousCount # 0
  THEN /\ timers' = [timers EXCEPT ![previousCount] = @ + 1]
       /\ previous' = 0
  ELSE UNCHANGED timers /\ previous' = previousCount

\* Mutant: the annotation is kept, but no timer started.
StartCleanupNever(previousCount, readyCount) ==
  UNCHANGED timers /\ previous' = previousCount

\* The old triggers' timer is started when the new ones have become ready;
\* ready still is the count of the last reconciliation.
StartCleanup(previousCount, readyCount) ==
  IF replicas # ready /\ previousCount # 0 /\ readyCount = replicas
  THEN /\ timers' = [timers EXCEPT ![previousCount] = @ + 1]
       /\ previous' = 0
  ELSE UNCHANGED timers /\ previous' = previousCount

\* The new triggers of the last scaling are not ready yet, or the old ones have still
\* to be deleted, or to go from the lister.
LeftToDo ==
  \/ previous # 0
  \/ \E n \in Counts : timers[n] > 0
  \/ \E e \in Range(events) : e[2] = NoTrigger

\* noPod are pods that cannot be read, noWrite triggers whose write fails.
reconcileTriggers(noPod, noWrite) ==
  LET want == {t \in Names : t[2] = replicas /\ t \notin noPod /\ podIP[t[1]] # NoPod}
      written == {t \in want \ noWrite : ~ Equal(t) /\ Accepted(t)}
      previousCount == IF desired \in {0, replicas} THEN previous ELSE desired
      readyCount == Cardinality(Counted(want))
  IN /\ CreateOrUpdate(want, written)
     /\ desired' = replicas
     /\ rescaled' = (rescaled \/ (desired \notin {0, replicas} /\ LeftToDo))
     /\ StartCleanup(previousCount, readyCount)
     /\ ready' = readyCount
     /\ UNCHANGED <<replicas, podIP>>

RoutesReconcile == reconcileTriggers({}, {}) /\ UNCHANGED budget

ReconcileWithFault ==
  /\ Spend("fault")
  /\ \E t \in Names : reconcileTriggers({t}, {}) \/ reconcileTriggers({}, {t})

\* A timer deletes the triggers the lister has with its replica count; a
\* deletion that fails is only logged.  The delay of over 20 seconds is taken to
\* be longer than the informer's lag.
CleanupTimer(n, noDelete) ==
  LET deleted == {t \in Names \ noDelete : t[2] = n /\ triggersCached[t] # NoTrigger}
  IN /\ timers[n] > 0 /\ events = <<>>
     /\ timers' = [timers EXCEPT ![n] = @ - 1]
     /\ triggers' = [t \in Names |-> IF t \in deleted THEN NoTrigger ELSE triggers[t]]
     /\ RoutesWatched(deleted)
     /\ UNCHANGED <<replicas, podIP, triggersCached, status>>

deleteTrigger(n) == CleanupTimer(n, {}) /\ UNCHANGED budget

deleteTriggerFails(n) == Spend("fault") /\ \E t \in Names : CleanupTimer(n, {t})

\* A restart loses the timers and reads the triggers anew.
RestartController ==
  /\ Spend("fault")
  /\ timers' = [n \in Counts |-> 0]
  /\ triggersCached' = triggers
  /\ events' = <<>>
  /\ UNCHANGED <<replicas, podIP, triggers, status>>

-----------------------------------------------------------------------------
(***************************************************************************)
(* The rest of the cluster.                                                *)
(***************************************************************************)

\* The informer delivers the next event and replaces the lister's object.
RoutesObserve ==
  /\ events # <<>>
  /\ events' = Tail(events)
  /\ triggersCached' = [triggersCached EXCEPT ![Head(events)[1]] = Head(events)[2]]
  /\ UNCHANGED <<replicas, podIP, triggers, status, timers, budget>>

\* The trigger's own reconciler subscribes the address and reports it.
TriggerReconciled(t) ==
  /\ triggers[t] # NoTrigger
  /\ triggers[t] # [triggers[t] EXCEPT !.route = triggers[t].spec, !.ready = TRUE]
  /\ triggers' = [triggers EXCEPT ![t].route = triggers[t].spec, ![t].ready = TRUE]
  /\ RoutesWatched({t})
  /\ UNCHANGED <<replicas, podIP, triggersCached, status, timers, budget>>

Scale(n) ==
  /\ n # replicas /\ Spend("scale")
  /\ replicas' = n
  /\ UNCHANGED <<podIP, triggers, triggersCached, events, status, timers>>

\* The statefulset's pods come and go with its replicas; a new pod has no
\* address at first.
PodProgress(i) ==
  /\ \/ i < replicas /\ podIP[i] = NoPod /\ podIP' = [podIP EXCEPT ![i] = NoIP]
     \/ podIP[i] = NoIP /\ podIP' = [podIP EXCEPT ![i] = MaxMoves - budget.move]
     \/ i >= replicas /\ podIP[i] # NoPod /\ podIP' = [podIP EXCEPT ![i] = NoPod]
  /\ UNCHANGED <<replicas, triggers, triggersCached, events, status, timers, budget>>

\* A pod is lost; its successor has another address.
LosePod(i) ==
  /\ podIP[i] # NoPod /\ Spend("move")
  /\ podIP' = [podIP EXCEPT ![i] = NoPod]
  /\ UNCHANGED <<replicas, triggers, triggersCached, events, status, timers>>

RoutesNext ==
  \/ RoutesReconcile
  \/ ReconcileWithFault
  \/ \E n \in Counts : deleteTrigger(n)
  \/ \E n \in Counts : deleteTriggerFails(n)
  \/ RestartController
  \/ RoutesObserve
  \/ \E t \in Names : TriggerReconciled(t)
  \/ \E n \in Counts : Scale(n)
  \/ \E i \in Idx : PodProgress(i)
  \/ \E i \in Idx : LosePod(i)

RoutesSpec == RoutesInit /\ [][RoutesNext]_routesVars

\* Changes of the statefulset and of triggers, and errors, requeue the
\* resource; informers, the trigger's reconciler, timers and pods go on.
RoutesProgress ==
  \/ RoutesObserve
  \/ \E i \in Idx : PodProgress(i)
  \/ \E t \in Names : TriggerReconciled(t)
  \/ \E n \in Counts : deleteTrigger(n)
  \/ RoutesReconcile

RoutesFairSpec == RoutesSpec /\ WF_routesVars(RoutesProgress)

-----------------------------------------------------------------------------
(***************************************************************************)
(* Properties.                                                             *)
(***************************************************************************)

\* KN_VERIFY_CORRELATION_ID: a trigger accepts the replies whose index is its
\* own modulo the replicas it was made for.
Accepts(t, i) == i % t[2] = t[1]

\* Some trigger takes the replies for pod i to the pod.
Routed(i) == \E t \in Names : Accepts(t, i) /\ t[1] = i /\ triggers[t].route = podIP[i]

\* A timer's step takes the last route from no desired pod.
KeepsRoutes ==
  (\E n \in Counts : timers'[n] < timers[n]) =>
    \A i \in 0..(desired - 1) : podIP[i] >= 0 /\ Routed(i) => Routed(i)'

\* "We only just got all new triggers ready -> lets clean up the old ones": the
\* timer does not delete the last trigger that takes a desired pod's replies to
\* it, if every scaling was done with before the next one came: when the statefulset
\* is scaled back within the delay, the timer deletes what is in use again.
CleanupKeepsRoutes == [][~ rescaled => KeepsRoutes]_routesVars

\* No call has failed, and the controller has not restarted.
Undisturbed == budget.fault = MaxFaults

AllRouted == Undisturbed => \A i \in 0..(replicas - 1) : podIP[i] >= 0 /\ Routed(i)

\* Nothing stays of former scalings, if each was done with before the next one came:
\* otherwise the annotation with the count to be deleted is overwritten, and no timer
\* is started if the new one asks for as many replicas as were ready.
OnlyCurrent ==
  Undisturbed /\ ~ rescaled => \A t \in Names : triggers[t] # NoTrigger => t[2] = replicas

-----------------------------------------------------------------------------
(***************************************************************************)
(* The key store of a RequestReply pod (pkg/requestreply/key_store.go).    *)
(* The Secret with the AES keys is mounted as a volume.  The kubelet       *)
(* writes every version of the Secret into a new directory, swaps the      *)
(* link ..data to it, and then creates and removes the links of the key    *)
(* files that came and went; a key file that stays keeps its link, which   *)
(* leads through ..data.  The store watches the volume, scans it once, and *)
(* then follows the events of the links.                                   *)
(***************************************************************************)

CONSTANTS
  KeyFiles,        \* The names of key files: sequences of the parts between dots.
  KeyFileOrder,    \* All of them, in the order of their names.
  MaxSecretWrites, \* Bound on the writes of the Secret.
  MaxRestarts,     \* Bound on the restarts of the pod.
  MaxLostEvents    \* Bound on overflows of the queue of events.

VARIABLES
  secretData, \* The Secret: the value of each key.
  dirs,       \* The directories of the volume, oldest first; ..data is the last.
  links,      \* The names that have a link.
  kubelet,    \* What the kubelet does next: "swap", "link", "unlink" or "clean".
  watching,   \* Whether watcher.Add was called.
  fsEvents,   \* The events on their way to the store.
  walk,       \* The files that the first scan has still to look at, or None.
  store,      \* The entries and the newest key of each resource.
  writes,     \* How often the Secret was written.
  restarts,   \* How often the pod was started again.
  lost,       \* How often events were lost.
  unseen      \* The names whose links changed, or whose value was replaced, in
              \* a way that no event tells the store of.

keyStoreVars == <<secretData, dirs, links, kubelet, watching, fsEvents, walk, store, writes,
                  restarts, lost, unseen>>

volumeVars == <<secretData, dirs, links, kubelet, writes>>
podVars == <<watching, walk, store, restarts>>

data == dirs[Len(dirs)].keys

(* namespace, name and key file: no other name belongs to a resource.      *)
parseFileName(file) ==
  IF Len(file) # 3 THEN None ELSE [rr |-> <<file[1], file[2]>>, key |-> file[3]]

Owners == {parseFileName(f).rr : f \in {g \in KeyFiles : parseFileName(g) # None}}

NoKeys == [rr \in Owners |-> None]

KeyStoreInit ==
  /\ secretData = <<>>
  /\ dirs = <<[stamp |-> 0, keys |-> <<>>]>>
  /\ links = {}
  /\ kubelet = "swap"
  /\ watching = FALSE
  /\ fsEvents = <<>>
  /\ walk = None
  /\ store = NoKeys
  /\ writes = 0
  /\ restarts = 0
  /\ lost = 0
  /\ unseen = {}

-----------------------------------------------------------------------------
(* The volume.                                                             *)

(* Somebody writes the Secret: a key comes, goes or gets a new value.      *)
SecretChanges ==
  /\ writes < MaxSecretWrites
  /\ writes' = writes + 1
  /\ \E f \in KeyFiles :
       \/ secretData' = [g \in DOMAIN secretData \cup {f} |->
                           IF g = f THEN writes' ELSE secretData[g]]
       \/ /\ f \in DOMAIN secretData
          /\ secretData' = [g \in DOMAIN secretData \ {f} |-> secretData[g]]
  /\ UNCHANGED <<dirs, links, kubelet, podVars, fsEvents, lost, unseen>>

Emit(op, names) ==
  fsEvents' = IF watching
                THEN fsEvents \o [i \in 1..Cardinality(names) |->
                       [op |-> op, file |-> SelectSeq(KeyFileOrder, LAMBDA f : f \in names)[i]]]
                ELSE fsEvents

(* A link that stays is not touched when the value behind it changes.      *)
KubeletSwaps ==
  /\ kubelet = "swap"
  /\ secretData # data
  /\ dirs' = Append(dirs, [stamp |-> writes, keys |-> secretData])
  /\ kubelet' = "link"
  /\ unseen' = unseen \cup {f \in links \cap DOMAIN secretData : secretData[f] # data[f]}
  /\ UNCHANGED <<secretData, links, writes, podVars, fsEvents, lost>>

KubeletLinks ==
  /\ kubelet = "link"
  /\ links' = links \cup DOMAIN data
  /\ Emit("Create", DOMAIN data \ links)
  /\ kubelet' = "unlink"
  /\ UNCHANGED <<secretData, dirs, writes, podVars, lost, unseen>>

KubeletUnlinks ==
  /\ kubelet = "unlink"
  /\ links' = DOMAIN data
  /\ Emit("Remove", links \ DOMAIN data)
  /\ kubelet' = "clean"
  /\ UNCHANGED <<secretData, dirs, writes, podVars, lost, unseen>>

(* A scan that has still to look into the old directory fails.             *)
KubeletCleans ==
  /\ kubelet = "clean"
  /\ dirs' = <<dirs[Len(dirs)]>>
  /\ kubelet' = "swap"
  /\ UNCHANGED <<secretData, links, writes, podVars, fsEvents, lost, unseen>>

-----------------------------------------------------------------------------
(* The store.                                                              *)

keysOf(rr) == IF store[rr] = None THEN [entries |-> <<>>, newest |-> None] ELSE store[rr]

addAesKey(file, value) ==
  LET p == parseFileName(file)
      s == keysOf(p.rr) IN
  [store EXCEPT ![p.rr] =
     [newest |-> [key |-> p.key, value |-> value],
      entries |-> [k \in DOMAIN s.entries \cup {p.key} |->
                     IF k = p.key THEN value ELSE s.entries[k]]]]

(* The newest key stays although its entry goes.                           *)
removeAesKey(file) ==
  LET p == parseFileName(file) IN
  IF store[p.rr] = None THEN store
  ELSE [store EXCEPT ![p.rr].entries = [k \in DOMAIN @ \ {p.key} |-> @[k]]]

(* dir is the directory that the path leads to.                            *)
processKeyFile(dir, file) ==
  IF parseFileName(file) = None \/ file \notin DOMAIN dir THEN store
  ELSE addAesKey(file, dir[file])

removeKeyFile(file) == IF parseFileName(file) = None THEN store ELSE removeAesKey(file)

Files(ds) ==
  LET In(d) == LET names == SelectSeq(KeyFileOrder, LAMBDA f : f \in DOMAIN d.keys)
               IN [j \in 1..Len(names) |-> [dir |-> d, file |-> names[j]]]
  IN MapThenFoldSet(LAMBDA first, rest : first \o rest, <<>>, LAMBDA i : In(ds[i]), Min, DOMAIN ds)

(* The watch is there before the scan lists the volume.  The links are not *)
(* regular files: the scan finds the files in the directories themselves.  *)
WatchPath ==
  /\ ~watching /\ walk = None
  /\ watching' = TRUE
  /\ walk' = Files(dirs)
  /\ unseen' = IF Len(dirs) = 1 THEN {} ELSE DOMAIN dirs[1].keys \cup DOMAIN data
  /\ UNCHANGED <<volumeVars, fsEvents, store, restarts, lost>>

(* The store's lock is held throughout, so that events wait.               *)
WalkFile ==
  /\ walk # None /\ walk # <<>>
  /\ \E i \in 1..Len(dirs) : dirs[i] = walk[1].dir
  /\ walk' = Tail(walk)
  /\ store' = processKeyFile(walk[1].dir.keys, walk[1].file)
  /\ UNCHANGED <<volumeVars, watching, fsEvents, restarts, lost, unseen>>

(* The directory is gone: WatchPath returns the error, main exits.         *)
WalkFails ==
  /\ walk # None /\ walk # <<>>
  /\ \A i \in 1..Len(dirs) : dirs[i] # walk[1].dir
  /\ watching' = FALSE
  /\ walk' = None
  /\ store' = NoKeys
  /\ fsEvents' = <<>>
  /\ UNCHANGED <<volumeVars, restarts, lost, unseen>>

handleEventKeeping ==
  /\ walk = <<>> /\ fsEvents # <<>>
  /\ LET event == fsEvents[1] IN
       store' = CASE event.op = "Create" /\ event.file \in links -> processKeyFile(data, event.file)
                  [] OTHER -> store
  /\ fsEvents' = Tail(fsEvents)
  /\ UNCHANGED <<volumeVars, watching, walk, restarts, lost, unseen>>

(* Stat and ReadFile follow the link to the file of today.  Nobody writes  *)
(* through a link, so that there are no Write events.                      *)
handleEvent ==
  /\ walk = <<>> /\ fsEvents # <<>>
  /\ LET event == fsEvents[1] IN
       store' = CASE event.op = "Create" /\ event.file \in links -> processKeyFile(data, event.file)
                  [] event.op = "Create" /\ event.file \notin links -> store
                  [] event.op = "Remove" -> removeKeyFile(event.file)
  /\ fsEvents' = Tail(fsEvents)
  /\ UNCHANGED <<volumeVars, watching, walk, restarts, lost, unseen>>

(* The watcher reports an overflow, which is logged.                       *)
EventsLost ==
  /\ fsEvents # <<>> /\ lost < MaxLostEvents
  /\ lost' = lost + 1
  /\ unseen' = unseen \cup {fsEvents[i].file : i \in DOMAIN fsEvents}
  /\ fsEvents' = <<>>
  /\ UNCHANGED <<volumeVars, podVars>>

(* The pod stops: StopWatch waits until the watcher's goroutine is between *)
(* two events.  It is started again with an empty store.                   *)
StopWatch ==
  /\ walk = <<>> /\ restarts < MaxRestarts
  /\ restarts' = restarts + 1
  /\ watching' = FALSE
  /\ walk' = None
  /\ store' = NoKeys
  /\ fsEvents' = <<>>
  /\ UNCHANGED <<volumeVars, lost, unseen>>

Kubelet == KubeletSwaps \/ KubeletLinks \/ KubeletUnlinks \/ KubeletCleans

KeyStoreIdle ==
  /\ writes = MaxSecretWrites /\ kubelet = "swap" /\ data = secretData
  /\ walk = <<>> /\ fsEvents = <<>>
  /\ UNCHANGED keyStoreVars

KeyStoreNext ==
  \/ SecretChanges
  \/ Kubelet
  \/ WatchPath \/ WalkFile \/ WalkFails
  \/ handleEvent \/ EventsLost \/ StopWatch
  \/ KeyStoreIdle

KeyStoreSpec == KeyStoreInit /\ [][KeyStoreNext]_keyStoreVars

-----------------------------------------------------------------------------
GetAllKeys(rr) == IF store[rr] = None THEN {} ELSE Range(store[rr].entries)

StoreSettled == kubelet = "swap" /\ walk = <<>> /\ fsEvents = <<>>

(* When every event was handled, the store verifies replies with exactly   *)
(* the keys in the volume, whatever came and went while the pod started or *)
(* before an event was looked at; and the key that signs requests is one   *)
(* of them, unless its file was removed.  Excepted are the names whose     *)
(* value was replaced behind a link that stays, whose events were lost, or *)
(* which a scan met in the middle of an update.                            *)
KeysFollowVolume ==
  StoreSettled =>
    \A f \in {g \in KeyFiles : parseFileName(g) # None} \ unseen :
      LET p == parseFileName(f)
          known == store[p.rr] # None /\ p.key \in DOMAIN store[p.rr].entries IN
      /\ known <=> f \in DOMAIN data
      /\ known => store[p.rr].entries[p.key] = data[f]
      /\ known /\ store[p.rr].newest.key = p.key => store[p.rr].newest.value \in GetAllKeys(p.rr)

===============================================================================
