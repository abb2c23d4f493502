----------------------------- MODULE BrokerSystem -----------------------------
(***************************************************************************)
(* The data plane of a channel-based broker: the ingress puts events into  *)
(* the broker's channel, the channel sends each to the filter on behalf of *)
(* every trigger, the filter asks the subscriber and hands a reply back to *)
(* the channel, which sends it to the ingress again                        *)
(* (pkg/broker/ttl.go, ingress/ingress_handler.go, filter/filter_handler.go*)
(* and subscribeToBrokerChannel of the trigger reconciler).                *)
(*                                                                         *)
(* Answers are classed as in EventDispatcher; a panic of a handler closes  *)
(* the connection, which is a transient failure for the channel.           *)
(***************************************************************************)
EXTENDS BrokerFilter, Integers, Bags

CONSTANTS
  DefaultTTL,  \* MAX_TTL of the ingress
  TTLs,        \* values of knativebrokerttl that producers set
  MaxInt32,    \* the largest int32
  Sinks,       \* dead letter sinks that triggers may have
  Retry,       \* RetryMax of the subscriptions
  MaxEvents,   \* bound on the events producers send
  MaxFaults    \* bound on the failures of the channel

MinInt32 == -MaxInt32 - 1
Int32 == MinInt32..MaxInt32

ASSUME TTLAssumption ==
  /\ MaxInt32 \in Nat
  /\ DefaultTTL \in Int32 /\ DefaultTTL > 0
  /\ TTLs \subseteq Int32
  /\ None \notin Int32
ASSUME SinkAssumption == Sinks \subseteq {"none", "sink", "broker"}
ASSUME BoundAssumption == Retry \in Nat /\ MaxEvents \in Nat /\ MaxFaults \in Nat

VARIABLES
  oidc,        \* OIDC is enabled: replies and dead letters go by the filter
  sink,        \* sink[t]: where the channel sends the dead letters of trigger t
  subscribed,  \* subscribed[t]: UID of the trigger the channel sends for, or None
  sends,       \* sends of the channel's dispatcher that go on, a bag
  published,   \* events producers have sent
  faults       \* failures of the channel so far

vars == <<filterVars, oidc, sink, subscribed, sends, published, faults>>

\* An event in the channel: hops counts how often it or what it replies to
\* passed the ingress, and granted is the TTL of the first time (history).
Event == [type : Types, ttl : Int32, hops : Nat, granted : Int32]

Send == [event : Event, trigger : Triggers, uid : Versions,
         at : {"subscriber", "filter", "reply", "deadLetter"},
         filter : Filter \union {None}, reply : Event \union {None}, attempt : 0..Retry]

TypeOK ==
  /\ FilterTypeOK
  /\ oidc \in BOOLEAN
  /\ sink \in [Triggers -> Sinks]
  /\ subscribed \in [Triggers -> Versions \union {None}]
  /\ IsABag(sends) /\ BagToSet(sends) \subseteq Send
  /\ published \in 0..MaxEvents
  /\ faults \in 0..MaxFaults

Init ==
  /\ FilterInit
  /\ oidc \in BOOLEAN
  /\ sink \in [Triggers -> Sinks]
  /\ subscribed = [t \in Triggers |-> 0]
  /\ sends = EmptyBag
  /\ published = 0
  /\ faults = 0

-----------------------------------------------------------------------------
(***************************************************************************)
(* The ingress.                                                            *)
(***************************************************************************)

\* ttl - 1 of an int32: the smallest one wraps around.
Decrement(ttl) == IF ttl = MinInt32 THEN MaxInt32 ELSE ttl - 1

\* Mutant: the TTL is kept.
TTLDefaulterKeeps(ttl) ==
  IF ttl = None THEN DefaultTTL ELSE IF ttl < 0 THEN 0 ELSE ttl

\* TTLDefaulter; None is a TTL that is missing or not an integer.
TTLDefaulter(ttl) ==
  IF ttl = None THEN DefaultTTL
  ELSE IF Decrement(ttl) < 0 THEN 0
  ELSE Decrement(ttl)

\* The event that receive puts into the channel.
Defaulted(e) ==
  LET ttl == TTLDefaulter(e.ttl)
  IN [type |-> e.type, ttl |-> ttl, hops |-> e.hops + 1,
      granted |-> IF e.hops = 0 THEN ttl ELSE e.granted]

\* The sends the channel starts for event e, one per subscription.
Started(e) ==
  {[event |-> e, trigger |-> t, uid |-> subscribed[t], at |-> "subscriber",
    filter |-> None, reply |-> None, attempt |-> 0] :
      t \in {u \in Triggers : subscribed[u] # None}}

\* receive: answer a for event e, and the sends that it starts.  The channel
\* may fail before or after it took the event in.
receive(e, a, started) ==
  LET d == Defaulted(e)
  IN \/ /\ d.ttl <= 0
        /\ a = "refused" /\ started = {}
        /\ UNCHANGED faults
     \/ /\ d.ttl > 0
        /\ a = "nonEvent" /\ started = Started(d)
        /\ UNCHANGED faults
     \/ /\ d.ttl > 0
        /\ a = "transient" /\ started \in {{}, Started(d)}
        /\ faults < MaxFaults
        /\ faults' = faults + 1

\* A producer sends an event to the broker.
Publish ==
  /\ published < MaxEvents
  /\ published' = published + 1
  /\ \E type \in Types, ttl \in TTLs \union {None}, a \in {"nonEvent", "transient", "refused"} :
       LET e == [type |-> type, ttl |-> ttl, hops |-> 0, granted |-> 0] IN
       \E started \in {{}, Started(Defaulted(e))} :
         /\ receive(e, a, started)
         /\ sends' = sends (+) SetToBag(started)
  /\ UNCHANGED <<filterVars, oidc, sink, subscribed>>

-----------------------------------------------------------------------------
(***************************************************************************)
(* A send of the channel's dispatcher.                                     *)
(***************************************************************************)

Failures == {"transient", "refused"}

\* Mutant: the attempts are not counted.
AgainUncounted(s) ==
  [s EXCEPT !.at = IF @ = "filter" THEN "subscriber" ELSE @, !.filter = None]

\* The retry loop sends the same request once more.
Again(s) ==
  [s EXCEPT !.at = IF @ = "filter" THEN "subscriber" ELSE @, !.filter = None,
            !.attempt = @ + 1]

ToDeadLetter(s) ==
  [s EXCEPT !.at = "deadLetter", !.filter = None, !.reply = None, !.attempt = 0]

\* DoWithRetries: another attempt is worth it and there are some left.
ShouldRetry(s, a) == a = "transient" /\ s.attempt < Retry

\* What is left of send s after answer a without an event.
After(s, a) ==
  CASE ShouldRetry(s, a) -> {Again(s)}
    [] /\ a \in Failures /\ ~ ShouldRetry(s, a)
       /\ s.at # "deadLetter" /\ sink[s.trigger] # "none" -> {ToDeadLetter(s)}
    [] OTHER -> {}

Replace(s, S) == sends' = (sends (-) SetToBag({s})) (+) SetToBag(S)

\* Send s is answered a by a handler that changes nothing else.
Answered(s, a) == Replace(s, After(s, a)) /\ UNCHANGED faults

\* The ingress gets event e from send s.
ToIngress(s, e) ==
  \E a \in {"nonEvent", "transient", "refused"}, started \in {{}, Started(Defaulted(e))} :
    /\ receive(e, a, started)
    /\ sends' = (sends (-) SetToBag({s})) (+) SetToBag(After(s, a)) (+) SetToBag(started)

\* The filter's ServeHTTP up to filterEvent: the trigger, its subscriber and
\* the filter are looked up.
LookUp(s) ==
  /\ s.at = "subscriber"
  /\ LET found == getTrigger(s.trigger, s.uid) IN
       \/ found # "found" /\ Answered(s, found)
       \/ /\ found = "found" /\ triggers[s.trigger].status = "noSubscriber"
          /\ Answered(s, "transient")
       \/ /\ found = "found" /\ triggers[s.trigger].status # "noSubscriber"
          /\ Replace(s, {[s EXCEPT !.at = "filter", !.filter = filterEvent(s.trigger)]})
          /\ UNCHANGED faults

\* The filter does not pass the event.  An allFilter that was closed panics
\* where it reports the expression that failed.
FailFilter(s) ==
  /\ s.at = "filter" /\ s.event.type \notin s.filter.passes
  /\ Answered(s, IF s.filter.kind = "many" /\ Closed(s.trigger, s.filter)
                 THEN "transient" ELSE "nonEvent")

\* writeResponse: the reply of the subscriber gets the TTL of the event,
\* whatever TTL the subscriber gave it.
writeResponse(s, type) ==
  [type |-> type, ttl |-> s.event.ttl, hops |-> s.event.hops, granted |-> s.event.granted]

\* The filter passes the event and the subscriber answers.
PassFilter(s) ==
  /\ s.at = "filter" /\ s.event.type \in s.filter.passes
  /\ \/ \E a \in {"nonEvent", "transient", "refused"} : Answered(s, a)
     \/ \E type \in Types :
          /\ Replace(s, {[s EXCEPT !.at = "reply", !.filter = None, !.attempt = 0,
                                   !.reply = writeResponse(s, type)]})
          /\ UNCHANGED faults

\* The channel forwards the reply: to the ingress, or with OIDC to the filter,
\* which passes it on to the ingress if the trigger is there.
ForwardReply(s) ==
  /\ s.at = "reply"
  /\ LET found == getTrigger(s.trigger, s.uid) IN
       \/ oidc /\ found # "found" /\ Answered(s, found)
       \/ (oidc => found = "found") /\ ToIngress(s, s.reply)

\* The channel gives the event to the dead letter sink, which may be the broker
\* itself; with OIDC the filter does that, if the trigger is there and
\* its status names a sink, and otherwise drops the event.
DeadLetter(s) ==
  /\ s.at = "deadLetter"
  /\ LET found == getTrigger(s.trigger, s.uid)
         noSink == found = "found" /\ triggers[s.trigger].status = "noSink"
     IN \/ oidc /\ found # "found" /\ Answered(s, found)
        \/ oidc /\ noSink /\ Answered(s, "nonEvent")
        \/ /\ oidc => found = "found" /\ ~ noSink
           /\ \/ sink[s.trigger] = "broker" /\ ToIngress(s, s.event)
              \/ /\ sink[s.trigger] = "sink"
                 /\ \E a \in {"nonEvent", "transient", "refused"} : Answered(s, a)

SendStep ==
  /\ \E s \in BagToSet(sends) :
       LookUp(s) \/ FailFilter(s) \/ PassFilter(s) \/ ForwardReply(s) \/ DeadLetter(s)
  /\ UNCHANGED <<filterVars, oidc, sink, subscribed, published>>

-----------------------------------------------------------------------------

\* The subscription of trigger t reaches the channel, or is gone from it.
Subscribe(t) ==
  /\ subscribed' = [subscribed EXCEPT ![t] = IF triggers[t] = None THEN None
                                             ELSE triggers[t].uid]
  /\ subscribed' # subscribed
  /\ UNCHANGED <<filterVars, oidc, sink, sends, published, faults>>

InformerStep ==
  /\ Handle \/ \E t \in Triggers : TriggerStep(t)
  /\ UNCHANGED <<oidc, sink, subscribed, sends, published, faults>>

Next ==
  \/ Publish
  \/ SendStep
  \/ InformerStep
  \/ \E t \in Triggers : Subscribe(t)

Spec == Init /\ [][Next]_vars

\* Requests are answered or time out, so that the dispatcher's goroutines go on.
FairSpec == Spec /\ WF_vars(SendStep)

-----------------------------------------------------------------------------
(***************************************************************************)
(* Properties.                                                             *)
(***************************************************************************)

\* TTL and passes through the ingress of event e add up.
Spent(e) == e.ttl > 0 /\ e.hops > 0 /\ e.hops + e.ttl = e.granted + 1

\* An event and all that is replied to it have the TTL that the ingress granted
\* the first of them: every further pass through the ingress costs one, also
\* for a request that is repeated and for a dead letter that the broker gets
\* back, and neither subscribers nor the filter add to it (TTLDefaulter,
\* handleDispatchToSubscriberRequest, writeResponse).
TTLIsSpent ==
  \A s \in BagToSet(sends) : Spent(s.event) /\ (s.reply # None => Spent(s.reply))

\* Once the informer's handlers have seen all changes of a trigger, the filter
\* in the map is the one of its spec, also when the name was deleted and used
\* again (FiltersMap, NewHandler).
MapIsTrue ==
  \A t \in Triggers :
    /\ triggers[t] # None
    /\ \A i \in DOMAIN notices : notices[i].name # t
    => filtersMap[t] =
         CreateSubscriptionsAPIFilters(triggers[t].filters, triggers[t].version)

\* What a producer sent goes round only so often: subscribers that reply to
\* replies and sinks that lead back to the broker do not keep the channel busy
\* for ever, nor do retries (receive, DoWithRetries).
LoopsEnd == <>[](sends = EmptyBag)

=============================================================================
