------------------------------ MODULE EventGraph ------------------------------
(***************************************************************************)
(* The graph of where events may go (pkg/graph): its construction from the *)
(* resources of a namespace and the lineage that is read off it.           *)
(*                                                                         *)
(* A vertex is a destination.  An edge is made by a resource, to which its *)
(* ref points, and has a transform: what it does to the event type that    *)
(* comes along it.  An event type is a function from attributes to values, *)
(* which are sequences: the element Variable stands for a variable in      *)
(* braces, Brace for a brace that is not paired.                           *)
(***************************************************************************)
EXTENDS Naturals, Sequences, SequencesExt, TLC

CONSTANTS
  None,
  Worlds,    \* the resources there may be: a record of lists, one per kind
  Listings,  \* how listing each kind of resource may end
  Orders,    \* orders in which the attributes of a map may be visited
  Variable, Brace

VARIABLES
  world,     \* the resources in the namespace
  listing,   \* listing[k]: "ok", "notFound", "forbidden" or "error"
  lenient,   \* ConstructorConfig.Lenient
  graph,     \* the graph so far: vertices and edges
  fetched,   \* how many kinds are fetched
  built,     \* None, "graph" or "error": what ConstructGraph returned
  lineage    \* what Lineage returned for each source vertex

graphVars == <<world, listing, lenient, graph, fetched, built, lineage>>

-----------------------------------------------------------------------------
(***************************************************************************)
(* Vertices and edges.                                                     *)
(***************************************************************************)

NewGraph == [vertices |-> <<>>, edges |-> <<>>]

\* getOrCreateVertex: a vertex remembers the resource it was first made for.
getOrCreateVertex(g, dest, resource) ==
  IF dest \in DOMAIN g.vertices THEN g
  ELSE [g EXCEPT !.vertices = @ @@ (dest :> resource)]

\* Vertex.AddEdge.
AddEdge(g, from, to, ref, transform, isDLS) ==
  [g EXCEPT !.edges = Append(@, [from |-> from, to |-> to, ref |-> ref,
                                 transform |-> transform, isDLS |-> isDLS])]

\* An edge to a vertex that may be new; none if there is no destination.
EdgeTo(g, from, dest, ref, transform, isDLS) ==
  IF dest = None THEN g
  ELSE AddEdge(getOrCreateVertex(g, dest, None), from, dest, ref, transform, isDLS)

InEdges(g, v) == SelectSeq(g.edges, LAMBDA e : e.to = v)
OutEdges(g, v) == SelectSeq(g.edges, LAMBDA e : e.from = v)

\* Graph.Sources.
Sources(g) == {v \in DOMAIN g.vertices : InEdges(g, v) = <<>> /\ OutEdges(g, v) # <<>>}

\* GetPrimaryOutEdgeWithRef: the first edge of that resource that does not go
\* to a dead letter sink.
GetPrimaryOutEdgeWithRef(g, ref) ==
  LET es == SelectSeq(g.edges, LAMBDA e : e.ref = ref /\ ~e.isDLS)
  IN IF es = <<>> THEN None ELSE Head(es)

-----------------------------------------------------------------------------
(***************************************************************************)
(* Construction.  Adding a resource returns the graph, or None for an      *)
(* error.                                                                  *)
(***************************************************************************)

NoTransform == [kind |-> "none"]

AddBroker(g, b) ==
  EdgeTo(getOrCreateVertex(g, b.name, b.name), b.name, b.dls, b.name, NoTransform, TRUE)

AddChannel(g, c) ==
  EdgeTo(getOrCreateVertex(g, c.name, c.name), c.name, c.dls, c.name, NoTransform, TRUE)

AddSource(g, s) ==
  EdgeTo(getOrCreateVertex(g, s.name, s.name), s.name, s.sink, s.name,
         [kind |-> "overrides", attrs |-> s.overrides], TRUE)

\* getTransformForTrigger: spec.filters are not looked into.
getTransformForTrigger(t) ==
  IF t.filter = None THEN NoTransform ELSE [kind |-> "filter", attrs |-> t.filter]

AddTrigger(g, t) ==
  IF t.broker \notin DOMAIN g.vertices THEN None
  ELSE EdgeTo(EdgeTo(g, t.broker, t.subscriber, t.name, getTransformForTrigger(t), FALSE),
              t.broker, t.dls, t.name, NoTransform, TRUE)

\* Mutant: the reply of a subscription comes from its channel.
AddSubscriptionReplyFromChannel(g, s) ==
  IF s.channel \notin DOMAIN g.vertices THEN None
  ELSE EdgeTo(EdgeTo(EdgeTo(g, s.channel, s.subscriber, s.name, NoTransform, FALSE),
                     s.channel, s.reply, s.name, NoTransform, FALSE),
              s.channel, s.dls, s.name, NoTransform, TRUE)

AddSubscription(g, s) ==
  IF s.channel \notin DOMAIN g.vertices THEN None
  ELSE EdgeTo(EdgeTo(EdgeTo(g, s.channel, s.subscriber, s.name, NoTransform, FALSE),
                     s.subscriber, s.reply, s.name, NoTransform, FALSE),
              s.channel, s.dls, s.name, NoTransform, TRUE)

\* AddEventType: the event type of a trigger or a subscription is what its
\* subscriber replies; any other goes to the resource it refers to.
AddEventType(g, et) ==
  LET transform == [kind |-> "type", attrs |-> et.attrs]
      out == GetPrimaryOutEdgeWithRef(g, et.reference)
  IN IF et.refersTo \in {"Subscription", "Trigger"}
     THEN IF out = None THEN None
          ELSE AddEdge(g, out.to, out.from, et.name, transform, FALSE)
     ELSE EdgeTo(getOrCreateVertex(g, et.name, et.name), et.name, et.reference, et.name,
                 transform, FALSE)

\* The order of ConstructGraph.
Kinds == <<"brokers", "channels", "sources", "triggers", "subscriptions", "eventTypes">>

Add(kind, g, x) ==
  CASE kind = "brokers" -> AddBroker(g, x)
    [] kind = "channels" -> AddChannel(g, x)
    [] kind = "sources" -> AddSource(g, x)
    [] kind = "triggers" -> AddTrigger(g, x)
    [] kind = "subscriptions" -> AddSubscription(g, x)
    [] kind = "eventTypes" -> AddEventType(g, x)

GraphInit ==
  /\ world \in Worlds
  /\ listing \in Listings
  /\ lenient \in BOOLEAN
  /\ graph = NewGraph
  /\ fetched = 0
  /\ built = None
  /\ lineage = None

\* The list of a kind: a missing one is empty, and so is a forbidden one if
\* the constructor is lenient.
Listed(kind) ==
  CASE listing[kind] = "ok" -> world[kind]
    [] listing[kind] = "notFound" -> <<>>
    [] listing[kind] = "forbidden" -> IF lenient THEN <<>> ELSE None
    [] listing[kind] = "error" -> None

\* fetchBrokers, fetchChannels, fetchSources, fetchTriggers,
\* fetchSubscriptions and fetchEventTypes.
Fetch ==
  /\ built = None
  /\ fetched < Len(Kinds)
  /\ LET kind == Kinds[fetched + 1]
         xs == Listed(kind)
         g == IF xs = None THEN None
              ELSE FoldLeft(LAMBDA acc, x : IF acc = None THEN None ELSE Add(kind, acc, x),
                            graph, xs)
     IN IF g = None
        THEN built' = "error" /\ UNCHANGED <<graph, fetched>>
        ELSE graph' = g /\ fetched' = fetched + 1 /\ UNCHANGED built
  /\ UNCHANGED <<world, listing, lenient, lineage>>

ConstructGraph ==
  /\ built = None
  /\ fetched = Len(Kinds)
  /\ built' = "graph"
  /\ UNCHANGED <<world, listing, lenient, graph, fetched, lineage>>

-----------------------------------------------------------------------------
(***************************************************************************)
(* Transforms.  Apply returns the event type that goes along the edge, or  *)
(* None, and what is left of the event type it was given: filters and      *)
(* overrides change it in place.                                           *)
(***************************************************************************)

\* buildRegexForAttribute and MatchString: a variable takes one element or
\* more; an unpaired brace is an error.
RECURSIVE Fits(_, _)
Fits(value, v) ==
  IF value = <<>> THEN v = <<>>
  ELSE IF Head(value) = Variable
  THEN \E n \in 1..Len(v) : Fits(Tail(value), SubSeq(v, n + 1, Len(v)))
  ELSE v # <<>> /\ Head(v) = Head(value) /\ Fits(Tail(value), Tail(v))

buildRegexForAttribute(value, v) == (\A i \in DOMAIN value : value[i] # Brace) /\ Fits(value, v)

With(et, k, v) == (k :> v) @@ et

\* AttributesFilterTransform.Apply visits the filter's attributes in some
\* order; what it narrowed before it gives up stays narrowed, what it would
\* have added does not.
AttributesFilterApply(attrs, et, order) ==
  LET Visit(acc, k) ==
        IF ~acc.ok \/ k \notin DOMAIN attrs THEN acc
        ELSE IF k \notin DOMAIN et THEN [acc EXCEPT !.added = @ @@ (k :> attrs[k])]
        ELSE IF et[k] = attrs[k] THEN acc
        ELSE IF buildRegexForAttribute(et[k], attrs[k])
        THEN [acc EXCEPT !.et = With(@, k, attrs[k])]
        ELSE [acc EXCEPT !.ok = FALSE]
      r == FoldLeft(Visit, [ok |-> TRUE, et |-> et, added |-> <<>>], order)
  IN IF r.ok THEN [along |-> r.et @@ r.added, left |-> r.et @@ r.added]
     ELSE [along |-> None, left |-> r.et]

\* CloudEventOverridesTransform.Apply.
CloudEventOverridesApply(attrs, et) == [along |-> attrs @@ et, left |-> attrs @@ et]

\* Edge.Transform.
Transform(t, et, order) ==
  CASE t.kind = "none" -> [along |-> et, left |-> et]
    [] t.kind = "filter" -> AttributesFilterApply(t.attrs, et, order)
    [] t.kind = "type" -> [along |-> t.attrs, left |-> et]
    [] t.kind = "overrides" -> CloudEventOverridesApply(t.attrs, et)

\* A source without overrides makes Lineage panic: Apply does not expect it.
Panics(g) == \E i \in DOMAIN g.edges :
  LET t == g.edges[i].transform IN t.kind = "overrides" /\ t.attrs = None

\* Mutant: an event type that does not pass a transform goes on as it was.
RECURSIVE LineageUnfiltered(_, _, _, _, _)
LineageUnfiltered(g, v, et, visited, order) ==
  LET Explore(acc, e) ==
        LET to == LineageUnfiltered(g, e.to, acc.et, visited \cup {v}, order)
        IN IF e.to \in visited \cup {v}
           THEN [acc EXCEPT !.paths = @ \cup {<<e.ref>>}]
           ELSE [acc EXCEPT !.paths = @ \cup {<<e.ref>> \o p : p \in to}]
  IN FoldLeft(Explore, [et |-> et, paths |-> {<<>>}], OutEdges(g, v)).paths

\* Vertex.Lineage, as the paths in the tree it returns: a path is the edges
\* taken, and it stops at a vertex that is being visited.  The event type is
\* the same object for all the edges of v; the next vertex gets a copy.
RECURSIVE Lineage(_, _, _, _, _)
Lineage(g, v, et, visited, order) ==
  LET Explore(acc, e) ==
        LET r == Transform(e.transform, acc.et, order)
        IN IF e.to \in visited \cup {v}
           THEN [acc EXCEPT !.paths = @ \cup {<<e.ref>>}]
           ELSE IF r.along = None THEN [acc EXCEPT !.et = r.left]
           ELSE [acc EXCEPT !.et = r.left,
                            !.paths = @ \cup {<<e.ref>> \o p :
                                       p \in Lineage(g, e.to, r.along, visited \cup {v}, order)}]
  IN FoldLeft(Explore, [et |-> et, paths |-> {<<>>}], OutEdges(g, v)).paths

\* Graph.Lineage.
GraphLineage ==
  /\ built = "graph" /\ lineage = None
  /\ ~Panics(graph)
  /\ \E order \in Orders :
       lineage' = [v \in Sources(graph) |-> Lineage(graph, v, <<>>, {}, order)]
  /\ UNCHANGED <<world, listing, lenient, graph, fetched, built>>

GraphDone ==
  /\ built = "error" \/ (built = "graph" /\ (lineage # None \/ Panics(graph)))
  /\ UNCHANGED graphVars

GraphNext == Fetch \/ ConstructGraph \/ GraphLineage \/ GraphDone

GraphSpec == GraphInit /\ [][GraphNext]_graphVars

-----------------------------------------------------------------------------
(***************************************************************************)
(* What the graph promises.                                                *)
(***************************************************************************)

\* Where a message of the data plane may go because of a resource: one pair
\* for each delivery the resource asks for.
Deliveries(w) ==
  LET Of(kind) == {w[kind][i] : i \in DOMAIN w[kind]}
      Subscribed == Of("triggers") \cup Of("subscriptions")
      From(x) == IF "broker" \in DOMAIN x THEN x.broker ELSE x.channel
  IN {<<x.name, x.dls>> : x \in Of("brokers") \cup Of("channels")}
     \cup {<<x.name, x.sink>> : x \in Of("sources")}
     \cup {<<From(x), x.subscriber>> : x \in Subscribed}
     \cup {<<From(x), x.dls>> : x \in Subscribed}
     \cup {<<x.subscriber, x.reply>> : x \in Of("subscriptions")}
     \cup {<<e.name, e.reference>> : e \in {x \in Of("eventTypes") : x.refersTo = "Broker"}}
     \cup UNION {{<<x.subscriber, From(x)>> : x \in {y \in Subscribed : y.name = e.reference}} :
                  e \in Of("eventTypes")}

\* A graph that was built from complete lists has exactly the edges that the
\* resources ask for, whatever order their vertices were first seen in
\* (AddBroker, AddChannel, AddSource, AddTrigger, AddSubscription,
\* AddEventType and GetPrimaryOutEdgeWithRef).
EdgesAreDeliveries ==
  built = "graph" /\ (\A i \in DOMAIN Kinds : listing[Kinds[i]] = "ok")
    => {<<graph.edges[i].from, graph.edges[i].to>> : i \in DOMAIN graph.edges}
         = {d \in Deliveries(world) : d[2] # None}

\* The attributes that an event type and a filter agree on, or None.
Narrowed(attrs, et) ==
  IF \A k \in DOMAIN attrs \cap DOMAIN et :
       et[k] = attrs[k] \/ buildRegexForAttribute(et[k], attrs[k])
  THEN attrs @@ et ELSE None

\* The paths an event type can take from v, each edge judged by itself.
RECURSIVE Possible(_, _, _, _)
Possible(g, v, et, visited) ==
  {<<>>} \cup UNION {
    LET e == g.edges[i]
        next == CASE e.transform.kind = "none" -> et
                  [] e.transform.kind = "filter" -> Narrowed(e.transform.attrs, et)
                  [] e.transform.kind = "type" -> e.transform.attrs
                  [] e.transform.kind = "overrides" -> e.transform.attrs @@ et
    IN IF e.to \in visited \cup {v} THEN {<<e.ref>>}
       ELSE IF next = None THEN {}
       ELSE {<<e.ref>> \o p : p \in Possible(g, e.to, next, visited \cup {v})} :
    i \in {j \in DOMAIN g.edges : g.edges[j].from = v}}

\* A path in the lineage can be taken: at every edge some event of the type
\* that came so far passes (Vertex.Lineage, AttributesFilterTransform).
LineageIsPossible ==
  lineage # None => \A v \in DOMAIN lineage : lineage[v] \subseteq Possible(graph, v, <<>>, {})

===============================================================================
