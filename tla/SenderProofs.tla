----------------------------- MODULE SenderProofs -----------------------------
(***************************************************************************)
(* Proofs about RequestReply, for any number of requests, pods and keys,   *)
(* and about the sending of the receive adapters of sources.               *)
(***************************************************************************)
EXTENDS ApiServerAdapter, RequestReply, TLAPS

-----------------------------------------------------------------------------
(***************************************************************************)
(* What a reply is matched by is the event's id: the map of a pod, the     *)
(* channels and the responses only ever join requests with equal ids.      *)
(***************************************************************************)
IdsMatch ==
  /\ \A p \in Pods, i \in Ids : entries[p][i] # None => idOf(entries[p][i]) = i
  /\ \A h \in handlers : idOf(h[1].of) = idOf(h[2])
  /\ \A r \in Requests : replyEvent[r] # None => idOf(replyEvent[r]) = idOf(r)
  /\ \A r \in Requests : answer[r] # None => idOf(answer[r]) = idOf(r)

\* A request that is being served has a pod.
Served == \A r \in Requests : pc[r] \in InProgress \union {"deleting"} => podOf[r] \in Pods

IInv == TypeOK /\ Served /\ IdsMatch

\* The id of a request is one of Ids.
LEMMA IdType == \A r \in Requests : idOf(r) \in Ids
  BY RequestReplyAssumption DEF idOf

\* The empty state of the handler satisfies the invariant.
LEMMA InitInv == Init => IInv
  BY RequestReplyAssumption DEF Init, IInv, TypeOK, Served, IdsMatch, InProgress

\* addEvent, of handleNewEvent.
LEMMA addEventInv ==
  ASSUME NEW r \in Requests, NEW p \in Pods, IInv, addEvent(r, p)
  PROVE  IInv'
  BY RequestReplyAssumption, IdType DEF IInv, addEvent, keyVars, TypeOK, Served, IdsMatch, InProgress

\* The other steps of handleNewEvent.
LEMMA NewEventStepInv ==
  ASSUME NEW r \in Requests, IInv, NewEventStep(r)
  PROVE  IInv'
<1> USE RequestReplyAssumption, IdType DEF IInv, keyVars
<1>1. CASE NewEventFails(r)
  BY <1>1 DEF NewEventFails, TypeOK, Served, IdsMatch, InProgress
<1>2. CASE SendEvent(r)
  <2>1. [of |-> r, key |-> newestKey[podOf[r]], idx |-> podOf[r]] \in Correlations
    BY <1>2 DEF SendEvent, TypeOK, Served, Correlations, InProgress
  <2> QED
    BY <1>2, <2>1 DEF SendEvent, TypeOK, Served, IdsMatch, InProgress
<1>3. CASE SendReturns(r)
  BY <1>3 DEF SendReturns, TypeOK, Served, IdsMatch, InProgress
<1>4. CASE WriteReply(r)
  BY <1>4 DEF WriteReply, TypeOK, Served, IdsMatch, InProgress
<1>5. CASE ContextDone(r)
  BY <1>5 DEF ContextDone, TypeOK, Served, IdsMatch, InProgress
<1>6. CASE deleteEvent(r)
  BY <1>6 DEF deleteEvent, TypeOK, Served, IdsMatch, InProgress
<1> QED
  BY <1>1, <1>2, <1>3, <1>4, <1>5, <1>6 DEF NewEventStep

\* handleReplyEvent: the lookup and the send.
LEMMA ReplyStepInv ==
  ASSUME IInv,
         (\E c \in replies : getEvent(c)) \/ (\E h \in handlers : OfferReply(h[1], h[2]))
  PROVE  IInv'
<1> USE RequestReplyAssumption, IdType DEF IInv, keyVars
<1>1. ASSUME NEW c \in replies, getEvent(c)
      PROVE  IInv'
  <2> DEFINE r == entries[c.idx][idOf(c.of)]
  <2>1. c \in Correlations /\ c.of \in Requests /\ c.idx \in Pods /\ r \in Requests /\ r # None
    BY <1>1 DEF getEvent, TypeOK, Correlations
  <2>2. handlers' = handlers \union {<<c, r>>}
    BY <1>1, Zenon DEF getEvent
  <2>3. idOf(c.of) = idOf(r)
    BY <2>1, Zenon DEF IdsMatch
  <2> QED
    BY <1>1, <2>1, <2>2, <2>3 DEF getEvent, TypeOK, Served, IdsMatch
<1>2. ASSUME NEW h \in handlers, OfferReply(h[1], h[2])
      PROVE  IInv'
  <2>1. h[1] \in Correlations /\ h[1].of \in Requests /\ h[2] \in Requests
    BY DEF TypeOK, Correlations
  <2>2. idOf(h[1].of) = idOf(h[2])
    BY DEF IdsMatch
  <2> QED
    BY <1>2, <2>1, <2>2 DEF OfferReply, TypeOK, Served, IdsMatch
<1> QED
  BY <1>1, <1>2

\* The key store's callbacks and a restart.
LEMMA RestStepInv ==
  ASSUME NEW p \in Pods, IInv,
         (\E k \in Keys : addAesKey(p, k) \/ removeAesKey(p, k)) \/ RestartPod(p)
  PROVE  IInv'
<1> USE RequestReplyAssumption, IdType DEF IInv, keyVars
<1>1. ASSUME NEW k \in Keys, addAesKey(p, k) \/ removeAesKey(p, k)
      PROVE  IInv'
  <2>1. CASE addAesKey(p, k)
    BY <2>1 DEF addAesKey, TypeOK, Served, IdsMatch
  <2>2. CASE removeAesKey(p, k)
    BY <2>2 DEF removeAesKey, TypeOK, Served, IdsMatch
  <2> QED
    BY <1>1, <2>1, <2>2
<1>2. CASE RestartPod(p)
  BY <1>2 DEF RestartPod, TypeOK, Served, IdsMatch, InProgress
<1> QED
  BY <1>1, <1>2

\* A step that changes nothing.
LEMMA StutterInv == ASSUME IInv, UNCHANGED vars PROVE IInv'
  BY DEF IInv, vars, keyVars, TypeOK, Served, IdsMatch

\* The invariant holds in every reachable state.
THEOREM RequestReplyInvariant == Spec => []IInv
<1>1. IInv /\ [Next]_vars => IInv'
  BY addEventInv, NewEventStepInv, ReplyStepInv, RestStepInv, StutterInv DEF Next
<1> QED
  BY InitInv, <1>1, PTL DEF Spec

\* The handler's maps, channels and key store keep their types, whatever the
\* order of requests, replies, key changes and restarts.
THEOREM RequestReplyTypeCorrect == Spec => []TypeOK
  BY RequestReplyInvariant, PTL DEF IInv

\* When no two events share an id, a requester only ever gets a reply to its
\* own event: duplicated, delayed and reordered replies, retries of the
\* producer and restarts included.
THEOREM RepliesAreRight == ASSUME UniqueIds PROVE Spec => []RightReply
<1>1. IInv => RightReply
  BY RequestReplyAssumption, UniqueIds DEF IInv, TypeOK, IdsMatch, UniqueIds, RightReply, idOf
<1> QED
  BY RequestReplyInvariant, <1>1, PTL

-----------------------------------------------------------------------------

\* The entry of a request in progress whose id nobody else uses is its own.
THEOREM WaitingIsReached == Spec => []WaitingIsReachable
<1>1. Init => WaitingIsReachable
  BY DEF Init, WaitingIsReachable, InProgress
<1>2. ASSUME IInv, WaitingIsReachable, [Next]_vars
      PROVE  WaitingIsReachable'
  <2> USE RequestReplyAssumption, IdType DEF IInv, keyVars, InProgress, SentOnce
  <2>1. ASSUME NEW r \in Requests, NEW p \in Pods, addEvent(r, p)
        PROVE  WaitingIsReachable'
    BY <1>2, <2>1 DEF addEvent, WaitingIsReachable, TypeOK, Served
  <2>2. ASSUME NEW r \in Requests, NewEventStep(r)
        PROVE  WaitingIsReachable'
    <3>1. CASE deleteEvent(r)
      BY <1>2, <3>1 DEF deleteEvent, WaitingIsReachable, TypeOK, Served
    <3>2. CASE NewEventFails(r) \/ SendEvent(r) \/ SendReturns(r)
      BY <1>2, <3>2 DEF NewEventFails, SendEvent, SendReturns, WaitingIsReachable, TypeOK
    <3>3. CASE WriteReply(r) \/ ContextDone(r)
      BY <1>2, <3>3 DEF WriteReply, ContextDone, WaitingIsReachable, TypeOK
    <3> QED
      BY <2>2, <3>1, <3>2, <3>3 DEF NewEventStep
  <2>3. CASE UNCHANGED <<pc, podOf, entries>>
    BY <1>2, <2>3 DEF WaitingIsReachable
  <2>4. ASSUME NEW p \in Pods, RestartPod(p)
        PROVE  WaitingIsReachable'
    BY <1>2, <2>4 DEF RestartPod, WaitingIsReachable, TypeOK, Served
  <2> QED
    BY <1>2, <2>1, <2>2, <2>3, <2>4, Zenon
    DEF Next, getEvent, OfferReply, addAesKey, removeAesKey, vars
<1> QED
  BY RequestReplyInvariant, <1>1, <1>2, PTL DEF Spec

\* The entry of a pod is that of a request which the pod serves or has served.
EntriesAreOwn ==
  \A p \in Pods, i \in Ids :
    entries[p][i] # None => podOf[entries[p][i]] = p /\ pc[entries[p][i]] # "new"

\* deleteEvent ends a request and removes its entry, if it is still its own.
LEMMA deleteEventReleases ==
  ASSUME IInv, EntriesAreOwn, EntriesAreReleased, NEW r \in Requests, deleteEvent(r)
  PROVE  EntriesAreOwn' /\ EntriesAreReleased'
<1> USE RequestReplyAssumption, IdType DEF IInv, InProgress
<1>1. podOf[r] \in Pods /\ UNCHANGED <<podOf, status>>
  BY DEF deleteEvent, Served
<1>2. \A q \in Requests : pc'[q] = IF q = r THEN "done" ELSE pc[q]
  BY DEF deleteEvent, TypeOK
<1>3. \A p \in Pods, i \in Ids :
        entries'[p][i] = IF p = podOf[r] /\ i = idOf(r) THEN None ELSE entries[p][i]
  BY <1>1 DEF deleteEvent, TypeOK
<1>4. ASSUME NEW p \in Pods, NEW i \in Ids, entries'[p][i] # None
      PROVE  entries'[p][i] = entries[p][i] /\ entries[p][i] \in Requests /\ entries[p][i] # r
  <2>1. entries'[p][i] = entries[p][i] /\ entries[p][i] \in Requests
    BY <1>3, <1>4 DEF TypeOK
  <2>2. entries[p][i] = r => p = podOf[r] /\ i = idOf(r)
    BY <1>4, <2>1 DEF EntriesAreOwn, IdsMatch
  <2> QED
    BY <1>3, <1>4, <2>1, <2>2
<1> QED
  BY <1>1, <1>2, <1>4 DEF EntriesAreOwn, EntriesAreReleased

\* A restart empties the map of its pod, and ends the requests of that pod only.
LEMMA RestartReleases ==
  ASSUME IInv, EntriesAreOwn, EntriesAreReleased, NEW p \in Pods, RestartPod(p)
  PROVE  EntriesAreOwn' /\ EntriesAreReleased'
<1> USE RequestReplyAssumption DEF IInv, InProgress
<1>1. UNCHANGED <<podOf, status>>
  BY DEF RestartPod
<1>2. ASSUME NEW q \in Pods, NEW i \in Ids, entries'[q][i] # None
      PROVE  /\ q # p /\ entries'[q][i] = entries[q][i] /\ entries[q][i] \in Requests
             /\ pc'[entries[q][i]] = pc[entries[q][i]]
  <2>1. q # p /\ entries'[q][i] = entries[q][i] /\ entries[q][i] \in Requests
    BY <1>2 DEF RestartPod, TypeOK
  <2>2. podOf[entries[q][i]] = q
    BY <1>2, <2>1 DEF EntriesAreOwn
  <2> QED
    BY <2>1, <2>2 DEF RestartPod
<1> QED
  BY <1>1, <1>2 DEF EntriesAreOwn, EntriesAreReleased

\* An entry that stays behind is that of a handler that failed: whatever else
\* ends a request removes the entry, or another request has replaced it
\* (handleNewEvent, deleteEvent).
THEOREM EntriesGo == Spec => []EntriesAreReleased
<1>1. Init => EntriesAreOwn /\ EntriesAreReleased
  BY DEF Init, EntriesAreOwn, EntriesAreReleased
<1>2. ASSUME IInv, EntriesAreOwn, EntriesAreReleased, [Next]_vars
      PROVE  EntriesAreOwn' /\ EntriesAreReleased'
  <2> USE RequestReplyAssumption, IdType DEF IInv, keyVars, InProgress
  <2>1. ASSUME NEW r \in Requests, NEW p \in Pods, addEvent(r, p)
        PROVE  EntriesAreOwn' /\ EntriesAreReleased'
    BY <1>2, <2>1 DEF addEvent, EntriesAreOwn, EntriesAreReleased, TypeOK
  <2>2. ASSUME NEW r \in Requests, NewEventStep(r)
        PROVE  EntriesAreOwn' /\ EntriesAreReleased'
    <3>1. ASSUME UNCHANGED <<podOf, entries>>, pc[r] \in InProgress,
                 \A q \in Requests \ {r} : pc'[q] = pc[q] /\ status'[q] = status[q],
                 pc'[r] \in InProgress \union {"deleting"} \/ (pc'[r] = "done" /\ status'[r] = 500)
          PROVE  EntriesAreOwn' /\ EntriesAreReleased'
      <4>1. \A p \in Pods, i \in Ids : entries[p][i] # None => entries[p][i] \in Requests
        BY <1>2 DEF TypeOK
      <4> QED
        BY <1>2, <3>1, <4>1 DEF EntriesAreOwn, EntriesAreReleased
    <3>2. CASE NewEventFails(r)
      BY <1>2, <3>1, <3>2 DEF NewEventFails, TypeOK
    <3>3. CASE SendEvent(r) \/ SendReturns(r)
      BY <1>2, <3>1, <3>3 DEF SendEvent, SendReturns, TypeOK
    <3>4. CASE WriteReply(r) \/ ContextDone(r)
      BY <1>2, <3>1, <3>4 DEF WriteReply, ContextDone, TypeOK
    <3> QED
      BY <1>2, <2>2, <3>2, <3>3, <3>4, deleteEventReleases DEF NewEventStep
  <2>3. CASE UNCHANGED <<pc, podOf, status, entries>>
    BY <1>2, <2>3 DEF EntriesAreOwn, EntriesAreReleased
  <2> QED
    BY <1>2, <2>1, <2>2, <2>3, RestartReleases, Zenon
    DEF Next, getEvent, OfferReply, addAesKey, removeAesKey, vars
<1> QED
  BY RequestReplyInvariant, <1>1, <1>2, PTL DEF Spec

-----------------------------------------------------------------------------
(***************************************************************************)
(* The token provider's cache.                                             *)
(***************************************************************************)

(* The assumption of all that follows: a call is answered within the       *)
(* buffer (expirationBufferTime) by which a token leaves the cache early.  *)
BufferSuffices ==
  /\ Lifetimes \subseteq Nat
  /\ Buffer \in Nat /\ MaxDispatch \in Nat
  /\ MaxDispatch <= Buffer

CallState == [at : {"auth", "token", "cache", "dispatch"}, left : Nat, limit : Nat,
              cached : BOOLEAN]

ClientTypeOK ==
  /\ tokenCache \in [left : Nat, ttl : Nat] \cup {None}
  /\ sending \in [Sends -> CallState \cup {None}]

(* The induction hypothesis: what is cached lives longer than it stays     *)
(* cached, by the buffer, and the token of a call longer than the call may *)
(* take.                                                                   *)
ClientInv ==
  /\ ClientTypeOK
  /\ tokenCache # None => tokenCache.ttl >= 1 /\ tokenCache.left >= tokenCache.ttl + Buffer
  /\ \A s \in Sends :
       sending[s] # None /\ sending[s].at = "dispatch" /\ sending[s].cached =>
         sending[s].left > sending[s].limit

-----------------------------------------------------------------------------
LEMMA CallType ==
  ASSUME BufferSuffices, NEW at \in {"auth", "token", "cache", "dispatch"}, NEW left \in Nat,
         NEW kept \in BOOLEAN
  PROVE  /\ Call(at, left, kept) \in CallState
         /\ Call(at, left, kept).at = at
         /\ Call(at, left, kept).left = left
         /\ Call(at, left, kept).limit = MaxDispatch
         /\ Call(at, left, kept).cached = kept
  BY DEF Call, CallState, BufferSuffices

(* A step that moves one call.                                             *)
LEMMA MoveOne ==
  ASSUME ClientInv, NEW s \in Sends, NEW c \in CallState \cup {None},
         sending' = [sending EXCEPT ![s] = c],
         c # None /\ c.at = "dispatch" /\ c.cached => c.left > c.limit
  PROVE  /\ sending' \in [Sends -> CallState \cup {None}]
         /\ \A q \in Sends :
              sending'[q] # None /\ sending'[q].at = "dispatch" /\ sending'[q].cached =>
                sending'[q].left > sending'[q].limit
<1>1. \A q \in Sends : sending'[q] = IF q = s THEN c ELSE sending[q]
  BY DEF ClientInv, ClientTypeOK
<1>2. sending' \in [Sends -> CallState \cup {None}]
  BY DEF ClientInv, ClientTypeOK
<1> QED BY <1>1, <1>2 DEF ClientInv

LEMMA TickInv == ASSUME BufferSuffices, ClientInv, Tick PROVE ClientInv'
<1>1. /\ tokenCache' \in [left : Nat, ttl : Nat] \cup {None}
      /\ tokenCache' # None => tokenCache'.ttl >= 1 /\ tokenCache'.left >= tokenCache'.ttl + Buffer
  <2>1. CASE tokenCache = None \/ tokenCache.ttl = 1
    BY <2>1, Zenon DEF Tick
  <2>2. CASE ~ (tokenCache = None \/ tokenCache.ttl = 1)
    <3> DEFINE l == Less(tokenCache.left)
               t == tokenCache.ttl - 1
    <3>1. tokenCache' = [left |-> l, ttl |-> t]
      BY <2>2, Zenon DEF Tick
    <3>2. tokenCache.left \in Nat /\ tokenCache.ttl \in Nat
      BY <2>2 DEF ClientInv, ClientTypeOK
    <3>3. tokenCache.ttl >= 1 /\ tokenCache.left >= tokenCache.ttl + Buffer
      BY <2>2 DEF ClientInv
    <3>4. l \in Nat /\ t \in Nat /\ t >= 1 /\ l >= t + Buffer
      BY <2>2, <3>2, <3>3 DEF Less, BufferSuffices
    <3> HIDE DEF l, t
    <3> QED BY <3>1, <3>4, SMTT(30)
  <2> QED BY <2>1, <2>2, SMTT(30)
<1>3. ASSUME NEW s \in Sends, sending[s] # None
      PROVE  /\ sending'[s] \in CallState
             /\ sending'[s].at = sending[s].at /\ sending'[s].cached = sending[s].cached
             /\ sending'[s].left = Less(sending[s].left)
             /\ sending'[s].limit = Less(sending[s].limit)
  <2>1. sending[s] \in CallState
    BY <1>3 DEF ClientInv, ClientTypeOK
  <2>2. sending'[s] = [sending[s] EXCEPT !.left = Less(@), !.limit = Less(@)]
    BY <1>3, Zenon DEF Tick
  <2>3. \A n \in Nat : Less(n) \in Nat
    BY DEF Less
  <2> QED BY <2>1, <2>2, <2>3, Zenon DEF CallState
<1>4. \A s \in Sends : sending[s] = None => sending'[s] = None
  BY Zenon DEF Tick
<1>5. sending' \in [Sends -> CallState \cup {None}]
  <2>1. \A s \in Sends : sending'[s] \in CallState \cup {None}
    BY <1>3, <1>4
  <2> QED BY <2>1, Zenon DEF Tick
<1>6. ASSUME NEW s \in Sends, sending'[s] # None, sending'[s].at = "dispatch", sending'[s].cached
      PROVE  sending'[s].left > sending'[s].limit
  <2>1. sending[s] # None /\ sending[s].at = "dispatch" /\ sending[s].cached
    BY <1>3, <1>4, <1>6, SMTT(30)
  <2>2. sending[s].limit > 0 /\ sending[s].left > sending[s].limit
    BY <2>1, Zenon DEF Tick, ClientInv
  <2>3. sending[s].limit \in Nat /\ sending[s].left \in Nat
    BY <2>1 DEF ClientInv, ClientTypeOK, CallState
  <2> QED BY <1>3, <2>1, <2>2, <2>3 DEF Less
<1> QED BY <1>1, <1>5, <1>6 DEF ClientInv, ClientTypeOK

LEMMA ClientStepInv ==
  ASSUME BufferSuffices, ClientInv, [SourceClientNext]_sourceClientVars
  PROVE  ClientInv'
<1>1. CASE Tick
  BY <1>1, TickInv
<1>2. ASSUME NEW s \in Sends, Send(s) PROVE ClientInv'
  <2>1. PICK c \in CallState : sending' = [sending EXCEPT ![s] = c] /\ ~ c.cached
    <3>1. /\ Call("dispatch", 0, FALSE) \in CallState /\ ~ Call("dispatch", 0, FALSE).cached
          /\ Call("auth", 0, FALSE) \in CallState /\ ~ Call("auth", 0, FALSE).cached
      BY CallType, Zenon
    <3> QED BY <1>2, <3>1, Zenon DEF Send
  <2> QED BY <1>2, <2>1, MoveOne DEF Send, ClientInv, ClientTypeOK
<1>3. ASSUME NEW s \in Sends, GetJWT(s) PROVE ClientInv'
  <2>1. CASE tokenCache = None
    <3>1. PICK c \in CallState : sending' = [sending EXCEPT ![s] = c] /\ ~ c.cached
      BY <1>3, <2>1, CallType, Zenon DEF GetJWT
    <3> QED BY <1>3, <3>1, MoveOne, Zenon DEF GetJWT, ClientInv, ClientTypeOK
  <2>2. CASE tokenCache # None
    <3>1. tokenCache.left \in Nat /\ tokenCache.left > MaxDispatch
      BY <2>2 DEF ClientInv, ClientTypeOK, BufferSuffices
    <3> DEFINE c == Call("dispatch", tokenCache.left, TRUE)
    <3>2. sending' = [sending EXCEPT ![s] = c]
      BY <1>3, <2>2 DEF GetJWT
    <3>3. c \in CallState /\ c.left > c.limit
      BY <3>1, CallType, Zenon
    <3> HIDE DEF c
    <3> QED BY <1>3, <3>2, <3>3, MoveOne, Zenon DEF GetJWT, ClientInv, ClientTypeOK
  <2> QED BY <2>1, <2>2
<1>4. ASSUME NEW s \in Sends, CreateToken(s) PROVE ClientInv'
  <2>1. PICK c \in CallState : sending' = [sending EXCEPT ![s] = c] /\ ~ c.cached
    <3>1. PICK lifetime \in Nat : sending' = [sending EXCEPT ![s] = Call("cache", lifetime, FALSE)]
      BY <1>4, Zenon DEF CreateToken, BufferSuffices
    <3>2. Call("cache", lifetime, FALSE) \in CallState /\ ~ Call("cache", lifetime, FALSE).cached
      BY CallType, Zenon
    <3> QED BY <3>1, <3>2, Zenon
  <2> QED BY <1>4, <2>1, MoveOne, Zenon DEF CreateToken, ClientInv, ClientTypeOK
<1>5. ASSUME NEW s \in Sends, GetNewJWT(s) PROVE ClientInv'
  <2>1. sending[s].left \in Nat
    BY <1>5 DEF GetNewJWT, ClientInv, ClientTypeOK, CallState
  <2>2. PICK c \in CallState : sending' = [sending EXCEPT ![s] = c] /\ ~ c.cached
    BY <1>5, <2>1, CallType, Zenon DEF GetNewJWT
  <2>3. tokenCache' \in [left : Nat, ttl : Nat] \cup {None}
    BY <1>5, <2>1 DEF GetNewJWT, expiryTtl, BufferSuffices
  <2>4. tokenCache' # None =>
          tokenCache'.ttl >= 1 /\ tokenCache'.left >= tokenCache'.ttl + Buffer
    BY <1>5, <2>1 DEF GetNewJWT, expiryTtl, BufferSuffices
  <2> QED BY <2>2, <2>3, <2>4, MoveOne DEF ClientInv, ClientTypeOK
<1>6. ASSUME NEW s \in Sends, GetNewJWTFails(s) \/ RequestReturns(s) PROVE ClientInv'
  <2>1. sending' = [sending EXCEPT ![s] = None] /\ UNCHANGED tokenCache
    BY <1>6 DEF GetNewJWTFails, RequestReturns
  <2> QED BY <2>1, MoveOne DEF ClientInv, ClientTypeOK
<1>7. CASE UNCHANGED sourceClientVars
  BY <1>7 DEF sourceClientVars, ClientInv, ClientTypeOK
<1> QED BY <1>1, <1>2, <1>3, <1>4, <1>5, <1>6, <1>7 DEF SourceClientNext

(* A token that came from the cache lives until the sink has answered      *)
(* (pkg/auth/token_provider.go, GetJWT).                                   *)
THEOREM CachedTokensLive ==
  ASSUME BufferSuffices PROVE SourceClientSpec => []TokensAreValid
<1>1. SourceClientInit => ClientInv
  BY DEF SourceClientInit, ClientInv, ClientTypeOK
<1>2. ClientInv /\ [SourceClientNext]_sourceClientVars => ClientInv'
  BY ClientStepInv
<1>3. ClientInv => TokensAreValid
  BY DEF ClientInv, ClientTypeOK, CallState, TokensAreValid
<1> QED BY <1>1, <1>2, <1>3, PTL DEF SourceClientSpec

-----------------------------------------------------------------------------
(***************************************************************************)
(* The events of the ApiServerSource.                                      *)
(***************************************************************************)

ApiTypeOK ==
  /\ config \in [failFast : BOOLEAN, owner : BOOLEAN, namespaces : BOOLEAN, exists : SUBSET Watches]
  /\ objects \in [Watches -> Seq(Changes)]
  /\ position \in [Watches -> Nat]
  /\ listed \in [Watches -> SUBSET Nat]
  /\ sent \in [Watches -> Seq(Nat)]

(* The induction hypothesis for one watch: its reflector has seen a part   *)
(* of what happened, and what was sent or listed is of that part.          *)
SentOK(w) ==
  /\ position[w] <= Len(objects[w])
  /\ \A i \in listed[w] : i <= position[w]
  /\ \A i \in 1 .. Len(sent[w]) : sent[w][i] <= position[w]
  /\ \A i \in 1 .. Len(sent[w]) - 1 : sent[w][i] < sent[w][i + 1]
  /\ \A i \in 1 .. Len(sent[w]) : sent[w][i] \in SelectedIndices(w) \ listed[w]

ApiInv == ApiTypeOK /\ \A w \in Watches : SentOK(w)

(* What happened to an object stays so.                                    *)
LEMMA SelectedStays ==
  ASSUME ApiInv, NEW w \in Watches, NEW c \in Changes, UNCHANGED config,
         objects' = [objects EXCEPT ![w] = Append(@, c)]
  PROVE  /\ objects' \in [Watches -> Seq(Changes)]
         /\ \A v \in Watches : Len(objects[v]) <= Len(objects'[v])
         /\ \A v \in Watches : SelectedIndices(v) \subseteq SelectedIndices(v)'
<1>1. objects' \in [Watches -> Seq(Changes)]
  BY DEF ApiInv, ApiTypeOK
<1>2. ASSUME NEW v \in Watches
      PROVE  /\ Len(objects[v]) <= Len(objects'[v])
             /\ \A i \in 1 .. Len(objects[v]) : objects'[v][i] = objects[v][i]
  <2>1. objects[v] \in Seq(Changes) /\ objects'[v] = IF v = w THEN Append(objects[v], c) ELSE objects[v]
    BY DEF ApiInv, ApiTypeOK
  <2>2. Len(objects'[v]) \in {Len(objects[v]), Len(objects[v]) + 1} /\ Len(objects[v]) \in Nat
    BY <2>1
  <2> QED BY <2>1, <2>2
<1>3. ASSUME NEW v \in Watches PROVE SelectedIndices(v) \subseteq SelectedIndices(v)'
  <2>1. Len(objects[v]) \in Nat /\ Len(objects'[v]) \in Nat
    BY <1>1 DEF ApiInv, ApiTypeOK
  <2> QED BY <1>2, <2>1 DEF SelectedIndices
<1> QED BY <1>1, <1>2, <1>3

LEMMA ObjectChangesInv ==
  ASSUME ApiInv, NEW w \in Watches, NEW c \in Changes, ObjectChanges(w, c)
  PROVE  ApiInv'
<1> USE DEF ObjectChanges
<1>1. ApiTypeOK'
  BY SelectedStays DEF ApiInv, ApiTypeOK
<1>2. ASSUME NEW v \in Watches PROVE SentOK(v)'
  <2>1. Len(objects[v]) \in Nat /\ Len(objects'[v]) \in Nat /\ position[v] \in Nat
    BY SelectedStays DEF ApiInv, ApiTypeOK
  <2>2. Len(objects[v]) <= Len(objects'[v]) /\ SelectedIndices(v) \subseteq SelectedIndices(v)'
    BY SelectedStays, Zenon
  <2>3. position'[v] <= Len(objects'[v])
    BY <2>1, <2>2 DEF ApiInv, SentOK
  <2> QED BY <2>2, <2>3 DEF ApiInv, SentOK
<1> QED BY <1>1, <1>2 DEF ApiInv

LEMMA ListInv ==
  ASSUME ApiInv, NEW w \in Watches, List(w)
  PROVE  ApiInv'
<1>1. ApiTypeOK'
  BY DEF ApiInv, ApiTypeOK, List
<1>2. ASSUME NEW v \in Watches PROVE SentOK(v)'
  <2>1. /\ Len(objects[v]) \in Nat /\ position[v] \in Nat /\ sent[v] \in Seq(Nat)
        /\ listed[v] \subseteq Nat /\ SentOK(v)
    BY DEF ApiInv, ApiTypeOK
  <2>2. SelectedIndices(v)' = SelectedIndices(v) /\ sent'[v] = sent[v] /\ objects'[v] = objects[v]
    BY DEF List, SelectedIndices
  <2>3. CASE v = w
    <3>1. position'[v] = Len(objects[v]) /\ listed'[v] = listed[v] \cup (position[v] + 1 .. Len(objects[v]))
      BY <2>3 DEF List, ApiInv, ApiTypeOK
    <3>2. \A i \in 1 .. Len(sent[v]) : sent[v][i] \in Nat /\ sent[v][i] <= position[v]
      BY <2>1 DEF SentOK
    <3>3. \A i \in 1 .. Len(sent[v]) : sent[v][i] \notin position[v] + 1 .. Len(objects[v])
      BY <2>1, <3>2
    <3>4. \A i \in 1 .. Len(sent[v]) : sent[v][i] <= Len(objects[v])
      BY <2>1, <3>2, SMTT(30) DEF SentOK
    <3>5. \A i \in listed[v] \cup (position[v] + 1 .. Len(objects[v])) : i <= Len(objects[v])
      BY <2>1 DEF SentOK
    <3> QED BY <2>1, <2>2, <3>1, <3>3, <3>4, <3>5 DEF SentOK
  <2>4. CASE v # w
    BY <2>1, <2>2, <2>4 DEF SentOK, List, ApiInv, ApiTypeOK
  <2> QED BY <2>3, <2>4
<1> QED BY <1>1, <1>2 DEF ApiInv

LEMMA WatchInv ==
  ASSUME ApiInv, NEW w \in Watches, NEW acked \in BOOLEAN, Watch(w, acked)
  PROVE  ApiInv'
<1> DEFINE c == objects[w][position[w] + 1]
           s == handleKubernetesObject(w, c, acked)
<1>1. /\ Len(objects[w]) \in Nat /\ position[w] \in Nat /\ sent[w] \in Seq(Nat)
      /\ listed[w] \subseteq Nat /\ SentOK(w) /\ position[w] < Len(objects[w])
      /\ position[w] + 1 \in 1 .. Len(objects[w])
      /\ config.owner \in BOOLEAN
  BY SMTT(30) DEF ApiInv, ApiTypeOK, Watch
<1>2. \/ s = sent[w]
      \/ s = Append(sent[w], position[w] + 1) /\ position[w] + 1 \in SelectedIndices(w)
  <2>1. c \in Changes
    BY <1>1, SMTT(30) DEF ApiInv, ApiTypeOK
  <2>2. CASE ~ filtered(c) /\ c.passes /\ acked
    <3>1. s = Append(sent[w], position[w] + 1)
      BY <2>2 DEF handleKubernetesObject
    <3>2. c.passes /\ (config.owner => c.owned)
      BY <2>2 DEF filtered
    <3> QED BY <1>1, <3>1, <3>2 DEF SelectedIndices
  <2>3. CASE ~ (~ filtered(c) /\ c.passes /\ acked)
    BY <2>3, Zenon DEF handleKubernetesObject
  <2> QED BY <2>2, <2>3
<1>3. s \in Seq(Nat)
  <2>1. Append(sent[w], position[w] + 1) \in Seq(Nat)
    BY <1>1
  <2> QED BY <1>1, <1>2, <2>1, Zenon
<1>4. ApiTypeOK'
  BY <1>3 DEF ApiInv, ApiTypeOK, Watch
<1>5. ASSUME NEW v \in Watches PROVE SentOK(v)'
  <2>1. SelectedIndices(v)' = SelectedIndices(v) /\ objects'[v] = objects[v] /\ listed'[v] = listed[v]
    BY DEF Watch, SelectedIndices
  <2>2. CASE v # w
    BY <2>1, <2>2, SMTT(30) DEF SentOK, Watch, ApiInv, ApiTypeOK
  <2>3. CASE v = w
    <3>1. position'[v] = position[w] + 1 /\ sent'[v] = s
      BY <2>3 DEF Watch, ApiInv, ApiTypeOK
    <3>2. position'[v] <= Len(objects'[v]) /\ \A i \in listed'[v] : i <= position'[v]
      BY <1>1, <2>1, <2>3, <3>1, SMTT(30) DEF SentOK
    <3>3. CASE s = sent[w]
      <4>1. \A i \in 1 .. Len(sent[w]) : sent[w][i] \in Nat /\ sent[w][i] <= position[w] + 1
        BY <1>1, SMTT(30) DEF SentOK
      <4> QED BY <1>1, <2>1, <2>3, <3>1, <3>2, <3>3, <4>1, SMTT(30) DEF SentOK
    <3>4. CASE s = Append(sent[w], position[w] + 1) /\ position[w] + 1 \in SelectedIndices(w)
      <4>1. /\ Len(s) = Len(sent[w]) + 1 /\ Len(sent[w]) \in Nat
            /\ \A i \in 1 .. Len(sent[w]) : s[i] = sent[w][i]
            /\ s[Len(sent[w]) + 1] = position[w] + 1
        BY <1>1, <3>4
      <4>2. \A i \in 1 .. Len(sent[w]) : sent[w][i] \in Nat /\ sent[w][i] <= position[w]
        BY <1>1 DEF SentOK
      <4>3. position[w] + 1 \notin listed[w]
        BY <1>1, SMTT(30) DEF SentOK
      <4>4. ASSUME NEW i \in 1 .. Len(s)
            PROVE  s[i] <= position[w] + 1 /\ s[i] \in SelectedIndices(w) \ listed[w]
        <5>1. CASE i = Len(sent[w]) + 1
          BY <1>1, <3>4, <4>1, <4>3, <5>1, SMTT(30)
        <5>2. CASE i # Len(sent[w]) + 1
          <6>1. i \in 1 .. Len(sent[w])
            BY <4>1, <5>2, SMTT(30)
          <6>2. s[i] \in Nat /\ s[i] <= position[w] /\ s[i] \in SelectedIndices(w) \ listed[w]
            BY <1>1, <4>1, <4>2, <6>1, SMTT(30) DEF SentOK
          <6>3. \A n \in Nat : n <= position[w] => n <= position[w] + 1
            BY <1>1
          <6> QED BY <6>2, <6>3
        <5> QED BY <5>1, <5>2, SMTT(30)
      <4>5. ASSUME NEW i \in 1 .. Len(s) - 1 PROVE s[i] < s[i + 1]
        <5>1. i \in 1 .. Len(sent[w])
          BY <4>1, SMTT(30)
        <5>2. CASE i = Len(sent[w])
          BY <1>1, <4>1, <4>2, <5>1, <5>2, SMTT(30)
        <5>3. CASE i # Len(sent[w])
          <6>1. i \in 1 .. Len(sent[w]) - 1 /\ i + 1 \in 1 .. Len(sent[w])
            BY <4>1, <5>1, <5>3
          <6> QED BY <1>1, <4>1, <6>1 DEF SentOK
        <5> QED BY <5>2, <5>3
      <4> QED BY <2>1, <2>3, <3>1, <3>2, <4>4, <4>5, SMTT(30) DEF SentOK
    <3> QED BY <1>2, <3>3, <3>4
  <2> QED BY <2>2, <2>3
<1> QED BY <1>4, <1>5 DEF ApiInv

(* The steps of start and of the reflectors' ends move no event.           *)
LEMMA ApiRestInv ==
  ASSUME ApiInv, UNCHANGED <<config, objects, position, listed, sent>>
  PROVE  ApiInv'
BY DEF ApiInv, ApiTypeOK, SentOK, SelectedIndices

(* The sink of an ApiServerSource gets the changes of a resource in their  *)
(* order, each once at most and only those that the filters let pass, for  *)
(* any number of watches that fail and list again (handleKubernetesObject, *)
(* Replace).                                                               *)
THEOREM EventsStayInOrder == ApiSpec => []EventsInOrder
<1>1. ApiInit => ApiInv
  BY DEF ApiInit, ApiInv, ApiTypeOK, SentOK, SelectedIndices
<1>2. ApiInv /\ [ApiNext]_apiVars => ApiInv'
  <2> SUFFICES ASSUME ApiInv, [ApiNext]_apiVars PROVE ApiInv'
    OBVIOUS
  <2>1. ASSUME NEW w \in Watches, NEW c \in Changes, ObjectChanges(w, c) PROVE ApiInv'
    BY <2>1, ObjectChangesInv
  <2>2. ASSUME NEW w \in Watches, List(w) PROVE ApiInv'
    BY <2>2, ListInv
  <2>3. ASSUME NEW w \in Watches, NEW acked \in BOOLEAN, Watch(w, acked) PROVE ApiInv'
    BY <2>3, WatchInv, SMTT(30)
  <2>4. CASE MainSteps
    BY <2>4, ApiRestInv DEF MainSteps, CollectResourceMatches, StartReflector, AllStarted,
       EndResilient, ReceiveError, ReceiveStop, EndFailFast
  <2>5. ASSUME NEW w \in Watches, WatchFails(w) \/ ReflectorStops(w) PROVE ApiInv'
    BY <2>5, ApiRestInv DEF WatchFails, ReflectorStops
  <2>6. CASE Stop \/ ApiEnded \/ UNCHANGED apiVars
    BY <2>6, ApiRestInv, SMTT(30) DEF Stop, ApiEnded, apiVars
  <2> QED BY <2>1, <2>2, <2>3, <2>4, <2>5, <2>6 DEF ApiNext
<1>3. ApiInv => EventsInOrder
  BY DEF ApiInv, SentOK, EventsInOrder
<1> QED BY <1>1, <1>2, <1>3, PTL DEF ApiSpec

===============================================================================
