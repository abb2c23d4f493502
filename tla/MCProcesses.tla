---------------------------- MODULE MCProcesses ----------------------------
(* Instances of the parts for TLC.                                         *)
EXTENDS Processes, TLC

MCKinds == {"Broker", "Trigger", "EventPolicy", "EventTransform", "RequestReply", "EventType",
            "Channel", "InMemoryChannel", "Subscription", "Sequence", "Parallel",
            "ApiServerSource", "ContainerSource", "PingSource", "SinkBinding",
            "IntegrationSource", "IntegrationSink", "JobSink"}

\* Two events: a slash in the source of the one.
MCJobEvents == {[source |-> <<"a", "/", "b">>, id |-> <<"c">>], [source |-> <<"a">>, id |-> <<"d">>]}

MCSenders == {<<"ns", "a">>, <<"other", "b">>}
MCPolicyVariants ==
  {[from |-> {<<"ns", "a">>}, filter |-> "t1"],
   [from |-> {<<"ns", "a">>, <<"other", "*">>}, filter |-> "any"]}

MCRetryAfters == {-5, 2, 43, 90}

-----------------------------------------------------------------------------
(* Filters: nested lists, negation, an extension that may be missing, and  *)
(* expressions that say nothing.                                           *)

Attr(dialect, k, v) == [dialect |-> dialect, attrs |-> k :> v]
Not(x) == [dialect |-> "not", of |-> <<x>>]
Several(dialect, xs) == [dialect |-> dialect, of |-> xs]
Sql(text) == [dialect |-> "cesql", text |-> text]
Nothing == [dialect |-> "none"]

A == <<"a">>
AB == <<"a", "b">>
B == <<"b">>

MCFilterSpecs ==
  {<<>>,
   <<Attr("exact", "type", A), Attr("prefix", "source", A), Not(Sql("ext"))>>,
   <<Several("any", <<Attr("exact", "type", A), Attr("suffix", "source", B),
                      Several("all", <<Sql("ext"), Attr("prefix", "type", A)>>)>>)>>,
   <<[dialect |-> "exact", attrs |-> "type" :> A @@ "source" :> A], Sql("unparsable")>>,
   <<Attr("exact", "ext", <<>>), Nothing>>,
   <<Several("any", <<Not(Nothing), Attr("exact", "type", A)>>), Attr("suffix", "ext", A)>>}

MCFilterEvents ==
  {"type" :> A @@ "source" :> A,
   "type" :> AB @@ "source" :> AB @@ "ext" :> A,
   "type" :> A @@ "source" :> AB @@ "ext" :> AB,
   "type" :> AB @@ "source" :> A}

-----------------------------------------------------------------------------
(* Graphs: two brokers, one the dead letter sink of the other, a channel   *)
(* and a source, with triggers, subscriptions and event types.             *)

TriggerTo(name, subscriber, filter, dls) ==
  [name |-> name, broker |-> "b1", subscriber |-> subscriber, filter |-> filter, dls |-> dls]
SubscriptionTo(name, channel, reply, dls) ==
  [name |-> name, channel |-> channel, subscriber |-> "x", reply |-> reply, dls |-> dls]
TypeOf(name, refersTo, reference, attrs) ==
  [name |-> name, refersTo |-> refersTo, reference |-> reference, attrs |-> attrs]

MCWorlds ==
  [brokers : {<<[name |-> "b1", dls |-> "b2"], [name |-> "b2", dls |-> None]>>},
   channels : {<<[name |-> "c1", dls |-> "x"]>>},
   sources : {<<[name |-> "s1", sink |-> "b1", overrides |-> "type" :> A]>>,
              <<[name |-> "s1", sink |-> "c1", overrides |-> None]>>},
   triggers : {<<TriggerTo("t1", "x", "type" :> A, "y")>>,
               <<TriggerTo("t1", "x", "type" :> A, None), TriggerTo("t2", "c1", "type" :> B, None)>>,
               <<TriggerTo("t1", "x", None, "b2"),
                 TriggerTo("t2", "c1", "type" :> A @@ "ext" :> B, None)>>},
   subscriptions : {<<>>, <<SubscriptionTo("sub1", "c1", "b1", "y")>>,
                    <<SubscriptionTo("sub1", "c1", None, None),
                      SubscriptionTo("sub2", "c2", None, None)>>},
   eventTypes : {<<>>,
                 <<TypeOf("e1", "Broker", "b1", "type" :> <<"a", Variable>>),
                   TypeOf("e2", "Trigger", "t1", "type" :> B)>>,
                 <<TypeOf("e1", "Broker", "b1", "ext" :> <<Variable>>),
                   TypeOf("e2", "Subscription", "sub1", "type" :> B)>>,
                 <<TypeOf("e1", "Broker", "b1", "type" :> <<Brace>>)>>}]

AllListed ==
  [k \in {"brokers", "channels", "sources", "triggers", "subscriptions", "eventTypes"} |-> "ok"]
MCListings ==
  {AllListed} \cup {[AllListed EXCEPT ![k] = o] : k \in DOMAIN AllListed,
                                                  o \in {"notFound", "forbidden", "error"}}
MCOrders == {<<"type", "ext">>, <<"ext", "type">>}

-----------------------------------------------------------------------------
(* RequestReply: the name of a is a prefix of the name of ab.              *)

CONSTANTS a, ab, other
MCNamePrefixes == {<<a, ab>>}

\* Two keys of one resource, and a name that is none of a key.
MCKeyFileOrder == <<<<"ns", "a", "k1">>, <<"ns", "a", "k2">>, <<"ns", "b", "c", "k">>>>
MCKeyFiles == {MCKeyFileOrder[i] : i \in DOMAIN MCKeyFileOrder}

\* A Subscription to the Channel with retries of its own, and one to the channel
\* behind it without a delivery specification.
MCDeliverySpecs == {None, [sink |-> TRUE, retry |-> TRUE]}
MCOwnDelivery ==
  [s \in ViaChannel \cup Directly |->
     IF s \in ViaChannel THEN [sink |-> FALSE, retry |-> TRUE] ELSE None]

\* A policy is for everything, for one resource or for those with the label.
MCPolicyTargets == {None, {"labelled"}} \cup {{r} : r \in Protected}

-----------------------------------------------------------------------------
(* Configuration.                                                          *)

Word(w) == [word |-> w, exact |-> FALSE]
Entry(key, wellFormed) == [key |-> key, wellFormed |-> wellFormed, value |-> "some defaults"]

\* Default-ch-webhook is read as config-br-defaults is.
MCConfigData ==
  "config-features" :>
    {"transport-encryption" :> Word("Strict"),
     "transport-encryption" :> Word("Sometimes") @@ "default-authorization-mode" :> Word("Deny-All")}
  @@ "config-br-defaults" :> {Entry(TRUE, TRUE), Entry(TRUE, FALSE), Entry(FALSE, TRUE)}
  @@ "config-ping-defaults" :>
       {[bad |-> b, legacy |-> <<3>>, size |-> <<>>] : b \in BOOLEAN}
  @@ "config-sugar" :>
       {[ns |-> "absent", trigger |-> "selector"], [ns |-> "broken", trigger |-> "empty"],
        [ns |-> "selector", trigger |-> "empty"]}

-----------------------------------------------------------------------------
(* EventTypes: the type and the source of the first two make one text.     *)

MCTypedEvents ==
  {[type |-> <<"a">>, source |-> <<"b", "c">>], [type |-> <<"a", "b">>, source |-> <<"c">>],
   [type |-> <<"d">>, source |-> <<"c">>]}

=============================================================================
