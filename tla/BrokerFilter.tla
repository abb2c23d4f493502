----------------------------- MODULE BrokerFilter -----------------------------
(***************************************************************************)
(* The filter of a channel-based broker and what it knows of the triggers  *)
(* (pkg/broker/filter/filter_handler.go,                                   *)
(* pkg/eventfilter/subscriptionsapi/filters_map.go).                       *)
(*                                                                         *)
(* The handler reads triggers from the informer's store.  The filters of   *)
(* spec.filters are made by the informer's event handlers, which run after *)
(* the store has changed, and are kept in a map by the trigger's name.     *)
(*                                                                         *)
(* A trigger's filters are the event types they pass and how they were     *)
(* written: "attributes" (spec.filter, or nothing at all), "one" or "many" *)
(* expressions in spec.filters.  Many expressions make an allFilter, which *)
(* reports a failing expression over a Go channel that Cleanup closes.     *)
(* The status of a trigger is "resolved", or the subscriber or the dead    *)
(* letter sink is missing in it.                                           *)
(***************************************************************************)
EXTENDS Naturals, Sequences

CONSTANTS
  Triggers,    \* names of triggers of the broker
  Types,       \* event types
  Specs,       \* filters a user may write
  MaxChanges,  \* bound on the changes of triggers
  None

ASSUME SpecsAssumption ==
  Specs \subseteq [kind : {"attributes", "one", "many"}, passes : SUBSET Types]
ASSUME ChangesAssumption == MaxChanges \in Nat

VARIABLES
  triggers,    \* triggers[t]: the trigger in the informer's store, or None
  notices,     \* changes of the store that the event handlers have not seen
  filtersMap,  \* Handler.filtersMap
  changes      \* changes so far: versions and UIDs come from it (history)

filterVars == <<triggers, notices, filtersMap, changes>>

Versions == 0..MaxChanges
Statuses == {"resolved", "noSubscriber", "noSink"}

Trigger == [uid : Versions, version : Versions, filters : Specs, status : Statuses]

\* A filter object: the version of the trigger it was made for, or None if it
\* was made for one event and is in no map.
Filter == [version : Versions \union {None}, kind : {"attributes", "one", "many"},
           passes : SUBSET Types]

FilterTypeOK ==
  /\ triggers \in [Triggers -> Trigger \union {None}]
  /\ notices \in Seq([name : Triggers, trigger : Trigger \union {None}])
  /\ filtersMap \in [Triggers -> Filter \union {None}]
  /\ changes \in Versions

-----------------------------------------------------------------------------

\* CreateSubscriptionsAPIFilters: without spec.filters, a filter that passes
\* everything.
CreateSubscriptionsAPIFilters(spec, version) ==
  IF spec.kind = "attributes"
  THEN [version |-> version, kind |-> "attributes", passes |-> Types]
  ELSE [version |-> version, kind |-> spec.kind, passes |-> spec.passes]

FilterInit ==
  /\ triggers \in [Triggers -> [uid : {0}, version : {0}, filters : Specs,
                                status : {"resolved"}]]
  /\ notices = <<>>
  /\ filtersMap = [t \in Triggers |->
                     CreateSubscriptionsAPIFilters(triggers[t].filters, 0)]
  /\ changes = 0

\* The informer's store takes in what users and the trigger's controller
\* wrote: x is the trigger t now.
Change(t, x) ==
  /\ changes < MaxChanges
  /\ changes' = changes + 1
  /\ triggers' = [triggers EXCEPT ![t] = x]
  /\ notices' = Append(notices, [name |-> t, trigger |-> x])
  /\ UNCHANGED filtersMap

CreateTrigger(t) ==
  /\ triggers[t] = None
  /\ \E f \in Specs :
       Change(t, [uid |-> changes + 1, version |-> changes + 1, filters |-> f,
                  status |-> "resolved"])

UpdateTrigger(t) ==
  /\ triggers[t] # None
  /\ \E f \in Specs, st \in Statuses :
       Change(t, [triggers[t] EXCEPT !.version = changes + 1, !.filters = f,
                                     !.status = st])

DeleteTrigger(t) ==
  /\ triggers[t] # None
  /\ Change(t, None)

\* Mutant: a filter that is in the map stays there.
SetOnce(t, f) == [filtersMap EXCEPT ![t] = IF @ = None THEN f ELSE @]

\* FiltersMap.Set.  The filter it replaces is closed (see Closed).
Set(t, f) == [filtersMap EXCEPT ![t] = f]

\* The informer's handlers: AddFunc and UpdateFunc set the filter, DeleteFunc
\* deletes it.  (A deletion that the informer learns of late comes as a
\* tombstone, which DeleteFunc ignores; the filter of a trigger that is gone
\* is not asked for, and AddFunc replaces it if the name comes back.)
Handle ==
  /\ notices # <<>>
  /\ LET n == Head(notices) IN
       \/ /\ n.trigger # None
          /\ filtersMap' =
               Set(n.name, CreateSubscriptionsAPIFilters(n.trigger.filters, n.trigger.version))
       \/ /\ n.trigger = None
          /\ filtersMap' = [filtersMap EXCEPT ![n.name] = None]
       \/ /\ n.trigger = None
          /\ UNCHANGED filtersMap
  /\ notices' = Tail(notices)
  /\ UNCHANGED <<triggers, changes>>

TriggerStep(t) == CreateTrigger(t) \/ UpdateTrigger(t) \/ DeleteTrigger(t)

-----------------------------------------------------------------------------
(***************************************************************************)
(* What the handler makes of a request for trigger t with UID u.           *)
(***************************************************************************)

\* getTrigger: 404 for an unknown name, 400 for another trigger of that name.
getTrigger(t, u) ==
  IF triggers[t] = None THEN "transient"
  ELSE IF triggers[t].uid # u THEN "refused"
  ELSE "found"

\* The filter that filterEvent applies: that of the map if there are
\* spec.filters, or one made for this event.
filterEvent(t) ==
  LET spec == triggers[t].filters
  IN IF spec.kind # "attributes" /\ filtersMap[t] # None
     THEN filtersMap[t]
     ELSE [version |-> None, kind |-> spec.kind, passes |-> spec.passes]

\* Cleanup was called on filter f of trigger t.
Closed(t, f) == f.version # None /\ f # filtersMap[t]

=============================================================================
