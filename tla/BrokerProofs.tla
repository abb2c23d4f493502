----------------------------- MODULE BrokerProofs -----------------------------
(***************************************************************************)
(* Type correctness of BrokerSystem, the TTL, and the filters of the map:  *)
(* for any number of triggers, events, retries, changes and failures.      *)
(***************************************************************************)
EXTENDS BrokerSystem, TLAPS

\* A send whose events obey the TTL; one that forwards a reply has it.
SendOK(s) ==
  /\ s \in Send
  /\ Spent(s.event)
  /\ s.at = "reply" => s.reply \in Event /\ Spent(s.reply)
  /\ s.reply # None => Spent(s.reply)

\* The inductive invariant.
Inv ==
  /\ FilterTypeOK
  /\ oidc \in BOOLEAN
  /\ sink \in [Triggers -> Sinks]
  /\ subscribed \in [Triggers -> Versions \union {None}]
  /\ IsABag(sends)
  /\ \A s \in BagToSet(sends) : SendOK(s)
  /\ published \in 0..MaxEvents
  /\ faults \in 0..MaxFaults

-----------------------------------------------------------------------------
(***************************************************************************)
(* Bags.                                                                   *)
(***************************************************************************)

\* Adding sends to the dispatcher's bag adds those sends only.
LEMMA BagPlusSet ==
  ASSUME NEW B, IsABag(B), NEW S
  PROVE  IsABag(B (+) SetToBag(S)) /\ BagToSet(B (+) SetToBag(S)) = BagToSet(B) \union S
BY DEF IsABag, BagToSet, SetToBag, (+)

\* Taking a send out of the dispatcher's bag adds none.
LEMMA BagMinusSet ==
  ASSUME NEW B, IsABag(B), NEW S
  PROVE  IsABag(B (-) SetToBag(S)) /\ BagToSet(B (-) SetToBag(S)) \subseteq BagToSet(B)
BY DEF IsABag, BagToSet, SetToBag, (-)

-----------------------------------------------------------------------------
(***************************************************************************)
(* The ingress.                                                            *)
(***************************************************************************)

\* An event of the channel that the ingress does not drop has spent one more.
LEMMA DefaultedSpends ==
  ASSUME NEW e \in Event, Spent(e), Defaulted(e).ttl > 0
  PROVE  Defaulted(e) \in Event /\ Spent(Defaulted(e))
<1>1. e.ttl \in Int32 /\ e.ttl > 0 /\ e.hops \in Nat /\ e.hops > 0
  BY DEF Event, Spent
<1>2. TTLDefaulter(e.ttl) = e.ttl - 1
  BY <1>1, TTLAssumption DEF TTLDefaulter, Decrement, Int32, MinInt32
<1>3. Defaulted(e) = [type |-> e.type, ttl |-> e.ttl - 1, hops |-> e.hops + 1,
                      granted |-> e.granted]
  BY <1>1, <1>2 DEF Defaulted
<1> QED
  BY <1>1, <1>3, TTLAssumption DEF Event, Spent, Int32, MinInt32

\* The first pass grants what the ingress made of the producer's TTL.
LEMMA DefaultedGrants ==
  ASSUME NEW type \in Types, NEW ttl \in TTLs \union {None},
         NEW e, e = [type |-> type, ttl |-> ttl, hops |-> 0, granted |-> 0],
         Defaulted(e).ttl > 0
  PROVE  Defaulted(e) \in Event /\ Spent(Defaulted(e))
<1>1. TTLDefaulter(ttl) \in Int32
  BY TTLAssumption DEF TTLDefaulter, Decrement, Int32, MinInt32
<1>2. Defaulted(e) = [type |-> type, ttl |-> TTLDefaulter(ttl), hops |-> 1,
                      granted |-> TTLDefaulter(ttl)]
  BY DEF Defaulted
<1> QED
  BY <1>1, <1>2 DEF Event, Spent, Int32, MinInt32

\* The sends that an event starts obey the TTL if the event does.
LEMMA StartedOK ==
  ASSUME Inv, NEW d \in Event, Spent(d)
  PROVE  \A s \in Started(d) : SendOK(s)
BY BoundAssumption DEF Started, SendOK, Send, Inv, Spent

-----------------------------------------------------------------------------
(***************************************************************************)
(* A send.                                                                 *)
(***************************************************************************)

\* Retries and the way to the dead letter sink keep a send's events.
LEMMA AfterOK ==
  ASSUME NEW s, SendOK(s), NEW a
  PROVE  \A x \in After(s, a) : SendOK(x)
<1>1. ShouldRetry(s, a) => SendOK(Again(s))
  <2> SUFFICES ASSUME ShouldRetry(s, a)  PROVE SendOK(Again(s))
    OBVIOUS
  <2>1. s.attempt \in 0..Retry /\ s.attempt < Retry
    BY DEF ShouldRetry, SendOK, Send
  <2>2. s.attempt + 1 \in 0..Retry
    BY <2>1, BoundAssumption
  <2>3. Again(s) \in Send
    BY <2>2, Zenon DEF Again, SendOK, Send
  <2>4. /\ Again(s).event = s.event /\ Again(s).reply = s.reply
        /\ Again(s).at = "reply" => s.at = "reply"
    BY DEF Again, SendOK, Send
  <2> QED
    BY <2>3, <2>4 DEF SendOK
<1>2. SendOK(ToDeadLetter(s))
  <2>1. 0 \in 0..Retry
    BY BoundAssumption
  <2>2. ToDeadLetter(s) \in Send
    BY <2>1, Zenon DEF ToDeadLetter, SendOK, Send
  <2>3. /\ ToDeadLetter(s).event = s.event /\ ToDeadLetter(s).reply = None
        /\ ToDeadLetter(s).at = "deadLetter"
    BY DEF ToDeadLetter, SendOK, Send
  <2> QED
    BY <2>2, <2>3 DEF SendOK
<1> QED
  BY <1>1, <1>2 DEF After

\* A send that is replaced by sends that obey the TTL leaves a bag that does.
LEMMA ReplaceOK ==
  ASSUME Inv, NEW s, NEW S, \A x \in S : SendOK(x), Replace(s, S)
  PROVE  IsABag(sends') /\ \A x \in BagToSet(sends') : SendOK(x)
<1> DEFINE B == sends (-) SetToBag({s})
<1>1. IsABag(B) /\ BagToSet(B) \subseteq BagToSet(sends)
  BY BagMinusSet DEF Inv
<1>2. sends' = B (+) SetToBag(S)
  BY DEF Replace
<1>3. IsABag(sends') /\ BagToSet(sends') = BagToSet(B) \union S
  BY <1>1, <1>2, BagPlusSet, Zenon
<1> QED
  BY <1>1, <1>3 DEF Inv

\* The answers of handlers that start no sends.
LEMMA AnsweredOK ==
  ASSUME Inv, NEW s \in BagToSet(sends), NEW a, Answered(s, a)
  PROVE  IsABag(sends') /\ (\A x \in BagToSet(sends') : SendOK(x)) /\ faults' = faults
<1>1. \A x \in After(s, a) : SendOK(x)
  BY AfterOK DEF Inv
<1> QED
  BY <1>1, ReplaceOK DEF Answered

\* What receive starts obeys the TTL.
LEMMA ReceiveOK ==
  ASSUME Inv, NEW e, NEW a, NEW started, receive(e, a, started),
         Defaulted(e).ttl > 0 => Defaulted(e) \in Event /\ Spent(Defaulted(e))
  PROVE  (\A x \in started : SendOK(x)) /\ faults' \in 0..MaxFaults
<1>1. faults' \in 0..MaxFaults
  BY BoundAssumption DEF receive, Inv
<1>2. started = {} \/ (Defaulted(e).ttl > 0 /\ started = Started(Defaulted(e)))
  BY DEF receive
<1> QED
  BY <1>1, <1>2, StartedOK

\* A reply or a dead letter that comes to the ingress.
LEMMA ToIngressOK ==
  ASSUME Inv, NEW s \in BagToSet(sends), NEW e \in Event, Spent(e), ToIngress(s, e)
  PROVE  IsABag(sends') /\ (\A x \in BagToSet(sends') : SendOK(x)) /\ faults' \in 0..MaxFaults
<1>1. PICK a, started :
        /\ receive(e, a, started)
        /\ sends' = ((sends (-) SetToBag({s})) (+) SetToBag(After(s, a))) (+) SetToBag(started)
  BY DEF ToIngress
<1>2. (\A x \in started : SendOK(x)) /\ faults' \in 0..MaxFaults
  BY <1>1, ReceiveOK, DefaultedSpends
<1>3. \A x \in After(s, a) : SendOK(x)
  BY AfterOK DEF Inv
<1> DEFINE B == sends (-) SetToBag({s})
           C == B (+) SetToBag(After(s, a))
<1>4. IsABag(B) /\ BagToSet(B) \subseteq BagToSet(sends)
  BY BagMinusSet DEF Inv
<1>5. IsABag(C) /\ BagToSet(C) = BagToSet(B) \union After(s, a)
  BY <1>4, BagPlusSet, Zenon
<1>6. IsABag(sends') /\ BagToSet(sends') = BagToSet(C) \union started
  <2>1. sends' = C (+) SetToBag(started)
    BY <1>1
  <2> QED
    BY <1>5, <2>1, BagPlusSet, Zenon
<1> QED
  BY <1>2, <1>3, <1>4, <1>5, <1>6, Zenon DEF Inv

\* The filter that filterEvent applies is one.
LEMMA filterEventType ==
  ASSUME FilterTypeOK, NEW t \in Triggers, triggers[t] # None
  PROVE  filterEvent(t) \in Filter
<1>1. triggers[t] \in Trigger /\ filtersMap[t] \in Filter \union {None}
  BY DEF FilterTypeOK
<1>2. /\ triggers[t].filters.kind \in {"attributes", "one", "many"}
      /\ triggers[t].filters.passes \in SUBSET Types
  BY <1>1, SpecsAssumption DEF Trigger
<1> QED
  BY <1>1, <1>2 DEF filterEvent, Filter

-----------------------------------------------------------------------------
(***************************************************************************)
(* The invariant is inductive.                                             *)
(***************************************************************************)

\* The filter made for a trigger is one.
LEMMA CreateType ==
  ASSUME NEW spec \in Specs, NEW v \in Versions
  PROVE  CreateSubscriptionsAPIFilters(spec, v) \in Filter
BY SpecsAssumption DEF CreateSubscriptionsAPIFilters, Filter

\* The broker starts with sends that obey the TTL, as there are none.
LEMMA InitInv == Init => Inv
<1> SUFFICES ASSUME Init PROVE Inv
  OBVIOUS
<1>1. 0 \in Versions
  BY ChangesAssumption DEF Versions
<1>2. triggers \in [Triggers -> Trigger]
  BY <1>1 DEF Init, FilterInit, Trigger, Statuses
<1>3. filtersMap \in [Triggers -> Filter]
  <2>1. \A t \in Triggers : CreateSubscriptionsAPIFilters(triggers[t].filters, 0) \in Filter
    BY <1>1, <1>2, CreateType DEF Trigger
  <2> QED
    BY <2>1 DEF Init, FilterInit
<1>4. FilterTypeOK
  BY <1>1, <1>2, <1>3 DEF Init, FilterInit, FilterTypeOK
<1>5. IsABag(sends) /\ BagToSet(sends) = {}
  BY DEF Init, EmptyBag, SetToBag, IsABag, BagToSet
<1> QED
  BY <1>1, <1>4, <1>5, BoundAssumption DEF Init, Inv

\* Changes of triggers and the informer's handlers keep the filter's types.
LEMMA FilterStepType ==
  ASSUME FilterTypeOK, Handle \/ \E t \in Triggers : TriggerStep(t)
  PROVE  FilterTypeOK'
<1>1. ASSUME NEW t \in Triggers, NEW x \in Trigger \union {None}, Change(t, x)
      PROVE  FilterTypeOK'
  BY <1>1, ChangesAssumption DEF Change, FilterTypeOK, Versions
<1>2. ASSUME NEW t \in Triggers, CreateTrigger(t)
      PROVE  FilterTypeOK'
  <2>1. PICK f \in Specs :
          Change(t, [uid |-> changes + 1, version |-> changes + 1, filters |-> f,
                     status |-> "resolved"])
    BY <1>2 DEF CreateTrigger
  <2>2. changes + 1 \in Versions
    BY <2>1, ChangesAssumption DEF Change, FilterTypeOK, Versions
  <2>3. [uid |-> changes + 1, version |-> changes + 1, filters |-> f,
         status |-> "resolved"] \in Trigger
    BY <2>2 DEF Trigger, Statuses
  <2> QED
    BY <2>1, <2>3, <1>1
<1>3. ASSUME NEW t \in Triggers, UpdateTrigger(t)
      PROVE  FilterTypeOK'
  <2>1. PICK f \in Specs, st \in Statuses :
          Change(t, [triggers[t] EXCEPT !.version = changes + 1, !.filters = f,
                                        !.status = st])
    BY <1>3, Zenon DEF UpdateTrigger
  <2>2. changes + 1 \in Versions
    BY <2>1, ChangesAssumption DEF Change, FilterTypeOK, Versions
  <2>3. triggers[t] \in Trigger
    BY <1>3 DEF UpdateTrigger, FilterTypeOK
  <2>4. [triggers[t] EXCEPT !.version = changes + 1, !.filters = f, !.status = st] \in Trigger
    BY <2>2, <2>3, Zenon DEF Trigger
  <2> QED
    BY <2>1, <2>4, <1>1, SMTT(30)
<1>4. ASSUME NEW t \in Triggers, DeleteTrigger(t)
      PROVE  FilterTypeOK'
  BY <1>4, <1>1 DEF DeleteTrigger
<1>5. CASE Handle
  <2> DEFINE Notice == [name : Triggers, trigger : Trigger \union {None}]
  <2>1. Head(notices) \in Notice /\ Tail(notices) \in Seq(Notice)
    <3>1. notices \in Seq(Notice) /\ notices # <<>>
      BY <1>5 DEF Handle, FilterTypeOK
    <3> HIDE DEF Notice
    <3> QED
      BY <3>1
  <2>2. Head(notices).trigger # None =>
          CreateSubscriptionsAPIFilters(Head(notices).trigger.filters,
                                        Head(notices).trigger.version) \in Filter
    BY <2>1, CreateType DEF Trigger
  <2>3. filtersMap' \in [Triggers -> Filter \union {None}]
    BY <1>5, <2>1, <2>2 DEF Handle, Set, FilterTypeOK
  <2> QED
    BY <1>5, <2>1, <2>3 DEF Handle, FilterTypeOK
<1> QED
  BY <1>2, <1>3, <1>4, <1>5 DEF TriggerStep

\* A step of a send keeps the sends in order.
LEMMA SendStepOK ==
  ASSUME Inv, SendStep
  PROVE  IsABag(sends') /\ (\A x \in BagToSet(sends') : SendOK(x)) /\ faults' \in 0..MaxFaults
<1>1. PICK s \in BagToSet(sends) :
        LookUp(s) \/ FailFilter(s) \/ PassFilter(s) \/ ForwardReply(s) \/ DeadLetter(s)
  BY DEF SendStep
<1>2. SendOK(s) /\ faults \in 0..MaxFaults
  BY DEF Inv
<1>3. \A a : Answered(s, a) =>
        IsABag(sends') /\ (\A x \in BagToSet(sends') : SendOK(x)) /\ faults' \in 0..MaxFaults
  BY <1>2, AnsweredOK
<1>4. CASE LookUp(s)
  <2> DEFINE n == [s EXCEPT !.at = "filter", !.filter = filterEvent(s.trigger)]
  <2>1. CASE getTrigger(s.trigger, s.uid) = "found" /\ Replace(s, {n}) /\ UNCHANGED faults
    <3>1. s.trigger \in Triggers /\ triggers[s.trigger] # None
      BY <1>2, <2>1 DEF SendOK, Send, getTrigger
    <3>2. filterEvent(s.trigger) \in Filter
      BY <3>1, filterEventType DEF Inv
    <3>3. n \in Send /\ n.event = s.event /\ n.reply = s.reply /\ n.at = "filter"
      BY <1>2, <3>2, Zenon DEF SendOK, Send
    <3>4. SendOK(n)
      BY <1>2, <3>3 DEF SendOK
    <3> QED
      BY <1>2, <2>1, <3>4, ReplaceOK
  <2> QED
    BY <1>3, <1>4, <2>1 DEF LookUp
<1>5. CASE FailFilter(s)
  BY <1>3, <1>5 DEF FailFilter
<1>6. CASE PassFilter(s)
  <2>1. ASSUME NEW type \in Types,
               Replace(s, {[s EXCEPT !.at = "reply", !.filter = None, !.attempt = 0,
                                     !.reply = writeResponse(s, type)]}),
               UNCHANGED faults
        PROVE  IsABag(sends') /\ (\A x \in BagToSet(sends') : SendOK(x))
               /\ faults' \in 0..MaxFaults
    <3> DEFINE n == [s EXCEPT !.at = "reply", !.filter = None, !.attempt = 0,
                              !.reply = writeResponse(s, type)]
    <3>1. writeResponse(s, type) \in Event /\ Spent(writeResponse(s, type))
      BY <1>2 DEF writeResponse, SendOK, Send, Event, Spent
    <3>2. 0 \in 0..Retry
      BY BoundAssumption
    <3>3. n \in Send /\ n.event = s.event /\ n.reply = writeResponse(s, type)
      BY <1>2, <3>1, <3>2, Zenon DEF SendOK, Send
    <3>4. SendOK(n)
      BY <1>2, <3>1, <3>3 DEF SendOK
    <3> QED
      BY <1>2, <2>1, <3>4, ReplaceOK, SMTT(30)
  <2> QED
    BY <1>3, <1>6, <2>1, Zenon DEF PassFilter
<1>7. CASE ForwardReply(s)
  <2>1. s.reply \in Event /\ Spent(s.reply)
    BY <1>2, <1>7 DEF ForwardReply, SendOK, Send
  <2> QED
    BY <1>3, <1>7, <2>1, ToIngressOK, SMTT(30) DEF ForwardReply
<1>8. CASE DeadLetter(s)
  <2>1. s.event \in Event /\ Spent(s.event)
    BY <1>2 DEF SendOK, Send
  <2> QED
    BY <1>3, <1>8, <2>1, ToIngressOK DEF DeadLetter
<1> QED
  BY <1>1, <1>4, <1>5, <1>6, <1>7, <1>8, SMTT(30)

\* Every step keeps the invariant.
LEMMA NextInv == Inv /\ [Next]_vars => Inv'
<1> SUFFICES ASSUME Inv, [Next]_vars PROVE Inv'
  OBVIOUS
<1>1. CASE Publish
  <2>0. PICK type \in Types, ttl \in TTLs \union {None} : \E a, started :
          /\ receive([type |-> type, ttl |-> ttl, hops |-> 0, granted |-> 0], a, started)
          /\ sends' = sends (+) SetToBag(started)
    BY <1>1, SMTT(30) DEF Publish
  <2>1. PICK a, started :
          /\ receive([type |-> type, ttl |-> ttl, hops |-> 0, granted |-> 0], a, started)
          /\ sends' = sends (+) SetToBag(started)
    BY <2>0
  <2>2. (\A x \in started : SendOK(x)) /\ faults' \in 0..MaxFaults
    BY <2>1, ReceiveOK, DefaultedGrants
  <2>3. IsABag(sends') /\ BagToSet(sends') = BagToSet(sends) \union started
    BY <2>1, BagPlusSet DEF Inv
  <2>4. \A x \in BagToSet(sends') : SendOK(x)
    BY <2>2, <2>3 DEF Inv
  <2>5. published' \in 0..MaxEvents
    BY <1>1, BoundAssumption DEF Publish, Inv
  <2> QED
    BY <1>1, <2>2, <2>3, <2>4, <2>5, SMTT(30) DEF Publish, Inv, filterVars, FilterTypeOK
<1>2. CASE SendStep
  BY <1>2, SendStepOK DEF SendStep, Inv, filterVars, FilterTypeOK
<1>3. CASE InformerStep
  BY <1>3, FilterStepType DEF InformerStep, Inv
<1>4. ASSUME NEW t \in Triggers, Subscribe(t)
      PROVE  Inv'
  <2>1. triggers[t] # None => triggers[t].uid \in Versions
    BY DEF Inv, FilterTypeOK, Trigger
  <2>2. subscribed' \in [Triggers -> Versions \union {None}]
    BY <1>4, <2>1 DEF Subscribe, Inv
  <2> QED
    BY <1>4, <2>2 DEF Subscribe, Inv, filterVars, FilterTypeOK
<1>5. CASE UNCHANGED vars
  BY <1>5 DEF vars, filterVars, Inv, FilterTypeOK
<1> QED
  BY <1>1, <1>2, <1>3, <1>4, <1>5, SMTT(30) DEF Next

-----------------------------------------------------------------------------

\* Inv holds in every state of the broker.
THEOREM BrokerInvariant == Spec => []Inv
BY InitInv, NextInv, PTL DEF Spec

\* Every variable of the broker's data plane keeps its type.
THEOREM BrokerTypeCorrect == Spec => []TypeOK
<1>1. Inv => TypeOK
  BY DEF Inv, TypeOK, SendOK
<1> QED
  BY <1>1, BrokerInvariant, PTL

\* Whatever subscribers reply, whichever requests are repeated and wherever the
\* dead letters go, every pass of an event or of a reply through the ingress is
\* paid for from the TTL granted first (TTLDefaulter, writeResponse).
THEOREM TTLBoundsLoops == Spec => []TTLIsSpent
<1>1. Inv => TTLIsSpent
  BY DEF Inv, TTLIsSpent, SendOK
<1> QED
  BY <1>1, BrokerInvariant, PTL

-----------------------------------------------------------------------------
(***************************************************************************)
(* The filters of the map.                                                 *)
(***************************************************************************)

\* Notice i of the sequence q is the last one of its trigger.
LastOf(q, i) == \A j \in DOMAIN q : j > i => q[j].name # q[i].name

\* The last notice of a trigger that the handlers have not seen shows it as it is.
LastNoticeIsTrue ==
  \A i \in DOMAIN notices :
    LastOf(notices, i) => notices[i].trigger = triggers[notices[i].name]

\* A change of the store comes with its notice.
LEMMA ChangeIsNoticed ==
  ASSUME Inv, MapIsTrue, LastNoticeIsTrue, NEW t \in Triggers, NEW x \in Trigger \union {None},
         Change(t, x)
  PROVE  MapIsTrue' /\ LastNoticeIsTrue'
<1> DEFINE N == [name : Triggers, trigger : Trigger \union {None}]
<1> DEFINE n == [name |-> t, trigger |-> x]
<1>1. notices \in Seq(N) /\ n \in N
  BY DEF Inv, FilterTypeOK
<1>2. notices' = Append(notices, n) /\ UNCHANGED filtersMap
  BY DEF Change
<1>3. triggers'[t] = x /\ \A u \in Triggers \ {t} : triggers'[u] = triggers[u]
  BY DEF Change, Inv, FilterTypeOK
<1> HIDE DEF N, n
<1>4. /\ DOMAIN notices = 1 .. Len(notices) /\ Len(notices) \in Nat
      /\ DOMAIN notices' = 1 .. Len(notices) + 1
      /\ notices'[Len(notices) + 1] = n
      /\ \A i \in DOMAIN notices : notices'[i] = notices[i] /\ notices[i] \in N
  BY <1>1, <1>2
<1>5. n.name = t /\ n.trigger = x /\ \A m \in N : m.name \in Triggers
  BY DEF n, N
<1>6. MapIsTrue'
  BY <1>2, <1>3, <1>4, <1>5 DEF MapIsTrue
<1>7. ASSUME NEW i \in DOMAIN notices', LastOf(notices, i)'
      PROVE  notices'[i].trigger = triggers'[notices'[i].name]
  <2>1. CASE i = Len(notices) + 1
    BY <1>3, <1>4, <1>5, <2>1, SMTT(30)
  <2>2. CASE i \in DOMAIN notices
    <3>1. notices[i].name # t
      BY <1>4, <1>5, <1>7, <2>2, SMTT(30) DEF LastOf
    <3>2. LastOf(notices, i)
      BY <1>4, <1>7, <2>2, SMTT(30) DEF LastOf
    <3> QED
      BY <1>3, <1>4, <1>5, <2>2, <3>1, <3>2, SMTT(30) DEF LastNoticeIsTrue
  <2> QED
    BY <1>4, <2>1, <2>2
<1> QED
  BY <1>6, <1>7 DEF LastNoticeIsTrue

\* The informer's handlers take the notices in turn.
LEMMA HandleKeepsMap ==
  ASSUME Inv, MapIsTrue, LastNoticeIsTrue, Handle
  PROVE  MapIsTrue' /\ LastNoticeIsTrue'
<1> DEFINE N == [name : Triggers, trigger : Trigger \union {None}]
<1> DEFINE n == Head(notices)
<1>1. notices \in Seq(N) /\ notices # <<>>
  BY DEF Inv, FilterTypeOK, Handle
<1>2. notices' = Tail(notices) /\ UNCHANGED triggers
  BY DEF Handle
<1> HIDE DEF N
<1>3. /\ Len(notices) \in Nat \ {0} /\ DOMAIN notices = 1 .. Len(notices)
      /\ DOMAIN notices' = 1 .. Len(notices) - 1
      /\ n = notices[1] /\ n \in N
      /\ \A i \in DOMAIN notices' : notices'[i] = notices[i + 1] /\ i + 1 \in DOMAIN notices
  BY <1>1, <1>2
<1>4. LastNoticeIsTrue'
  <2>1. SUFFICES ASSUME NEW i \in DOMAIN notices', LastOf(notices, i)'
                 PROVE  notices'[i].trigger = triggers[notices'[i].name]
    BY <1>2 DEF LastNoticeIsTrue
  <2>2. LastOf(notices, i + 1)
    <3>1. ASSUME NEW j \in DOMAIN notices, j > i + 1
          PROVE  notices[j].name # notices[i + 1].name
      <4>1. j - 1 \in DOMAIN notices' /\ j - 1 > i /\ (j - 1) + 1 = j
        BY <1>3, <3>1
      <4> QED
        BY <1>3, <2>1, <4>1 DEF LastOf
    <3> QED
      BY <3>1 DEF LastOf
  <2> QED
    BY <1>3, <2>2 DEF LastNoticeIsTrue
<1>5. n.name \in Triggers /\ \A u \in Triggers \ {n.name} : filtersMap'[u] = filtersMap[u]
  <2>1. n.name \in Triggers
    BY <1>3 DEF N
  <2> QED
    BY <2>1 DEF Handle, Set, Inv, FilterTypeOK
<1>6. ASSUME NEW t \in Triggers, triggers[t] # None,
             \A i \in DOMAIN notices' : notices'[i].name # t
      PROVE  filtersMap'[t] =
               CreateSubscriptionsAPIFilters(triggers[t].filters, triggers[t].version)
  <2>1. \A j \in DOMAIN notices : j > 1 => notices[j].name # t
    <3>1. \A j \in DOMAIN notices : j > 1 => j - 1 \in DOMAIN notices' /\ (j - 1) + 1 = j
      BY <1>3
    <3> QED
      BY <1>3, <1>6, <3>1
  <2>2. CASE n.name = t
    <3>1. n.trigger = triggers[t]
      BY <1>3, <2>1, <2>2 DEF LastNoticeIsTrue, LastOf
    <3> QED
      BY <1>6, <2>2, <3>1, SMTT(30) DEF Handle, Set, Inv, FilterTypeOK
  <2>3. CASE n.name # t
    <3>1. \A i \in DOMAIN notices : notices[i].name # t
      BY <1>3, <2>1, <2>3
    <3> QED
      BY <1>5, <1>6, <2>3, <3>1 DEF MapIsTrue
  <2> QED
    BY <2>2, <2>3
<1> QED
  BY <1>2, <1>4, <1>6, SMTT(30) DEF MapIsTrue

\* Whatever becomes of the triggers, and however late the informer's handlers
\* run, the filter they leave in the map is the one of the trigger's spec
\* (FiltersMap, NewHandler).
THEOREM FiltersAreTrue == Spec => []MapIsTrue
<1>1. Init => MapIsTrue /\ LastNoticeIsTrue
  <2> SUFFICES ASSUME Init PROVE MapIsTrue /\ LastNoticeIsTrue
    OBVIOUS
  <2>1. \A t \in Triggers : triggers[t].version = 0
    BY Zenon DEF Init, FilterInit
  <2> QED
    BY <2>1 DEF Init, FilterInit, MapIsTrue, LastNoticeIsTrue
<1>2. ASSUME Inv, MapIsTrue, LastNoticeIsTrue, [Next]_vars
      PROVE  MapIsTrue' /\ LastNoticeIsTrue'
  <2>1. ASSUME NEW t \in Triggers, TriggerStep(t)
        PROVE  MapIsTrue' /\ LastNoticeIsTrue'
    <3>1. PICK x \in Trigger \union {None} : Change(t, x)
      <4>1. changes < MaxChanges => changes + 1 \in Versions
        BY <1>2, ChangesAssumption DEF Inv, FilterTypeOK, Versions
      <4>2. triggers[t] \in Trigger \union {None}
        BY <1>2 DEF Inv, FilterTypeOK
      <4>3. CASE CreateTrigger(t)
        <5>1. PICK f \in Specs : Change(t, [uid |-> changes + 1, version |-> changes + 1,
                                            filters |-> f, status |-> "resolved"])
          BY <4>3 DEF CreateTrigger
        <5>2. [uid |-> changes + 1, version |-> changes + 1, filters |-> f,
               status |-> "resolved"] \in Trigger
          BY <4>1, <5>1 DEF Change, Trigger, Statuses
        <5> QED
          BY <5>1, <5>2
      <4>4. CASE UpdateTrigger(t)
        <5>1. PICK f \in Specs, st \in Statuses :
                Change(t, [triggers[t] EXCEPT !.version = changes + 1, !.filters = f, !.status = st])
          BY <4>4, Zenon DEF UpdateTrigger
        <5>2. [triggers[t] EXCEPT !.version = changes + 1, !.filters = f, !.status = st] \in Trigger
          BY <4>1, <4>2, <4>4, <5>1, Zenon DEF Change, Trigger, UpdateTrigger
        <5> QED
          BY <5>1, <5>2, SMTT(30)
      <4>5. CASE DeleteTrigger(t)
        BY <4>5 DEF DeleteTrigger
      <4> QED
        BY <2>1, <4>3, <4>4, <4>5 DEF TriggerStep
    <3> QED
      BY <1>2, <3>1, ChangeIsNoticed
  <2>2. CASE UNCHANGED filterVars
    BY <1>2, <2>2 DEF filterVars, MapIsTrue, LastNoticeIsTrue, LastOf
  <2> QED
    BY <1>2, <2>1, <2>2, HandleKeepsMap
    DEF Next, InformerStep, Publish, SendStep, Subscribe, vars
<1> QED
  BY BrokerInvariant, <1>1, <1>2, PTL DEF Spec

=============================================================================
