----------------------------- MODULE RequestReply -----------------------------
(***************************************************************************)
(* The data plane of RequestReply (pkg/requestreply): pods that forward a  *)
(* request's event to a broker with a correlation id and hold the HTTP     *)
(* request until a reply event with that id comes back.                    *)
(*                                                                         *)
(* The broker delivers a reply event to the pod whose index its id names   *)
(* (KN_VERIFY_CORRELATION_ID), any number of times, in any order, or not   *)
(* at all.  Encryption is perfect: an id made with a key is verified by    *)
(* that key only.                                                          *)
(***************************************************************************)
EXTENDS Optional, Integers, FiniteSets

CONSTANTS
  Requests,     \* HTTP requests with a new event
  Events,       \* the events; a request may be a retry of another one
  Ids,          \* their "id" attributes
  EventOf,      \* EventOf[r]: the event of request r
  IdOf,         \* IdOf[e]: the id of event e
  ColonIds,     \* the ids that hold the separator of correlation ids
  Pods,         \* indices of the data plane's pods
  Keys,         \* AES keys of the resource
  MaxHandlers   \* bound on the reply handlers that run at once

ASSUME RequestReplyAssumption ==
  /\ EventOf \in [Requests -> Events]
  /\ IdOf \in [Events -> Ids]
  /\ ColonIds \subseteq Ids
  /\ None \notin Requests \union Keys
  /\ MaxHandlers \in Nat

VARIABLES
  pc,         \* pc[r]: where handleNewEvent is
  podOf,      \* podOf[r]: the pod that serves r
  status,     \* status[r]: the response: 0 none yet, 200, 500
  answer,     \* answer[r]: the request whose reply was written to r, or None
  replyEvent, \* replyEvent[r]: the channel of r's proxiedRequest
  entries,    \* entries[p][i]: the request h.entries has under id i
  keys,       \* keys[p]: the key store's entries
  newestKey,  \* newestKey[p]: the key that was added last
  replies,    \* the reply events in the broker
  handlers    \* handleReplyEvent calls between getEvent and the send

vars == <<pc, podOf, status, answer, replyEvent, entries, keys, newestKey, replies, handlers>>
keyVars == <<keys, newestKey>>

\* A correlation id: the request it was made for, the key and the pod's index.
Correlations == [of : Requests, key : Keys, idx : Pods]

idOf(r) == IdOf[EventOf[r]]

InProgress == {"dispatching", "sending", "waiting"}

TypeOK ==
  /\ pc \in [Requests -> {"new", "deleting", "done"} \union InProgress]
  /\ podOf \in [Requests -> Pods \union {None}]
  /\ status \in [Requests -> {0, 200, 500}]
  /\ answer \in [Requests -> Requests \union {None}]
  /\ replyEvent \in [Requests -> Requests \union {None}]
  /\ entries \in [Pods -> [Ids -> Requests \union {None}]]
  /\ keys \in [Pods -> SUBSET Keys]
  /\ newestKey \in [Pods -> Keys \union {None}]
  /\ replies \subseteq Correlations
  /\ handlers \subseteq Correlations \X Requests

\* The key store has done its initial scan.
Init ==
  /\ pc = [r \in Requests |-> "new"]
  /\ podOf = [r \in Requests |-> None]
  /\ status = [r \in Requests |-> 0]
  /\ answer = [r \in Requests |-> None]
  /\ replyEvent = [r \in Requests |-> None]
  /\ entries = [p \in Pods |-> [i \in Ids |-> None]]
  /\ \E k \in Keys \union {None} :
       /\ keys = [p \in Pods |-> {k} \ {None}]
       /\ newestKey = [p \in Pods |-> k]
  /\ replies = {}
  /\ handlers = {}

-----------------------------------------------------------------------------
(***************************************************************************)
(* handleNewEvent.                                                         *)
(***************************************************************************)

\* addEvent, which overwrites what the map has under the event's id.
addEvent(r, p) ==
  /\ pc[r] = "new"
  /\ pc' = [pc EXCEPT ![r] = "dispatching"]
  /\ podOf' = [podOf EXCEPT ![r] = p]
  /\ entries' = [entries EXCEPT ![p][idOf(r)] = r]
  /\ UNCHANGED <<status, answer, replyEvent, keyVars, replies, handlers>>

\* No broker address, no key, or no response from the broker: the handler
\* answers 500 and leaves the entry behind.
NewEventFails(r) ==
  /\ pc[r] \in {"dispatching", "sending"}
  /\ pc' = [pc EXCEPT ![r] = "done"]
  /\ status' = [status EXCEPT ![r] = 500]
  /\ UNCHANGED <<podOf, answer, replyEvent, entries, keyVars, replies, handlers>>

\* GetLatestKey, SetCorrelationId, and the request to the broker is sent.
\* Some service may reply from now on.
SendEvent(r) ==
  /\ pc[r] = "dispatching" /\ newestKey[podOf[r]] # None
  /\ pc' = [pc EXCEPT ![r] = "sending"]
  /\ replies' = replies \union {[of |-> r, key |-> newestKey[podOf[r]], idx |-> podOf[r]]}
  /\ UNCHANGED <<podOf, status, answer, replyEvent, entries, keyVars, handlers>>

\* The broker accepts the event and the handler waits.
SendReturns(r) ==
  /\ pc[r] = "sending"
  /\ pc' = [pc EXCEPT ![r] = "waiting"]
  /\ UNCHANGED <<podOf, status, answer, replyEvent, entries, keyVars, replies, handlers>>

\* The select finds a reply and writes it.
WriteReply(r) ==
  /\ pc[r] = "waiting" /\ replyEvent[r] # None
  /\ answer' = [answer EXCEPT ![r] = replyEvent[r]]
  /\ replyEvent' = [replyEvent EXCEPT ![r] = None]
  /\ status' = [status EXCEPT ![r] = 200]
  /\ pc' = [pc EXCEPT ![r] = "deleting"]
  /\ UNCHANGED <<podOf, entries, keyVars, replies, handlers>>

\* Mutant: the entry is left behind.
ContextDoneLeaks(r) ==
  /\ pc[r] = "waiting"
  /\ pc' = [pc EXCEPT ![r] = "done"]
  /\ status' = [status EXCEPT ![r] = 200]
  /\ UNCHANGED <<podOf, answer, replyEvent, entries, keyVars, replies, handlers>>

\* Mutant: the select does not wait for the context.
ContextIgnored(r) ==
  /\ pc[r] = "waiting" /\ replyEvent[r] # None
  /\ pc' = [pc EXCEPT ![r] = "deleting"]
  /\ status' = [status EXCEPT ![r] = 200]
  /\ UNCHANGED <<podOf, answer, replyEvent, entries, keyVars, replies, handlers>>

\* The select finds the context done.  Nothing is written, so net/http
\* answers 200 when the handler returns.
ContextDone(r) ==
  /\ pc[r] = "waiting"
  /\ pc' = [pc EXCEPT ![r] = "deleting"]
  /\ status' = [status EXCEPT ![r] = 200]
  /\ UNCHANGED <<podOf, answer, replyEvent, entries, keyVars, replies, handlers>>

\* Mutant: the entries of all requests are deleted.
deleteEvents(r) ==
  /\ pc[r] = "deleting"
  /\ pc' = [pc EXCEPT ![r] = "done"]
  /\ entries' = [entries EXCEPT ![podOf[r]] = [i \in Ids |-> None]]
  /\ UNCHANGED <<podOf, status, answer, replyEvent, keyVars, replies, handlers>>

\* deleteEvent: by id, whatever request is there.
deleteEvent(r) ==
  /\ pc[r] = "deleting"
  /\ pc' = [pc EXCEPT ![r] = "done"]
  /\ entries' = [entries EXCEPT ![podOf[r]][idOf(r)] = None]
  /\ UNCHANGED <<podOf, status, answer, replyEvent, keyVars, replies, handlers>>

-----------------------------------------------------------------------------
(***************************************************************************)
(* handleReplyEvent.                                                       *)
(***************************************************************************)

\* VerifyReplyId with one of the pod's keys; an id with a separator in it does
\* not split into three parts.
VerifyReplyId(c, p) == c.key \in keys[p] /\ idOf(c.of) \notin ColonIds

\* Mutant: any request will do.
getAnyEvent(c) ==
  /\ c \in replies /\ VerifyReplyId(c, c.idx)
  /\ Cardinality(handlers) < MaxHandlers
  /\ \E i \in Ids :
       LET r == entries[c.idx][i] IN r # None /\ handlers' = handlers \union {<<c, r>>}
  /\ UNCHANGED <<pc, podOf, status, answer, replyEvent, entries, keyVars, replies>>

\* A reply is delivered to its pod, verified, and its request looked up.
getEvent(c) ==
  /\ c \in replies /\ VerifyReplyId(c, c.idx)
  /\ Cardinality(handlers) < MaxHandlers
  /\ LET r == entries[c.idx][idOf(c.of)]
     IN r # None /\ handlers' = handlers \union {<<c, r>>}
  /\ UNCHANGED <<pc, podOf, status, answer, replyEvent, entries, keyVars, replies>>

\* Mutant: the send blocks while the channel is full.
OfferReplyBlocks(c, r) ==
  /\ <<c, r>> \in handlers /\ replyEvent[r] = None
  /\ replyEvent' = [replyEvent EXCEPT ![r] = c.of]
  /\ handlers' = handlers \ {<<c, r>>}
  /\ UNCHANGED <<pc, podOf, status, answer, entries, keyVars, replies>>

\* The reply goes into the channel, or is dropped if that is full.
OfferReply(c, r) ==
  /\ <<c, r>> \in handlers
  /\ replyEvent' = [replyEvent EXCEPT ![r] = IF @ = None THEN c.of ELSE @]
  /\ handlers' = handlers \ {<<c, r>>}
  /\ UNCHANGED <<pc, podOf, status, answer, entries, keyVars, replies>>

-----------------------------------------------------------------------------
(***************************************************************************)
(* The key store, and restarts.                                            *)
(***************************************************************************)

\* handleEvent for a file that was created or written.
addAesKey(p, k) ==
  /\ k # newestKey[p]
  /\ keys' = [keys EXCEPT ![p] = @ \union {k}]
  /\ newestKey' = [newestKey EXCEPT ![p] = k]
  /\ UNCHANGED <<pc, podOf, status, answer, replyEvent, entries, replies, handlers>>

\* handleEvent for a file that was removed; the newest key stays what it was.
removeAesKey(p, k) ==
  /\ k \in keys[p]
  /\ keys' = [keys EXCEPT ![p] = @ \ {k}]
  /\ UNCHANGED <<pc, podOf, status, answer, replyEvent, entries, newestKey, replies, handlers>>

\* The container restarts: its connections break and its maps are empty.
RestartPod(p) ==
  /\ \E r \in Requests : podOf[r] = p /\ pc[r] \in InProgress
  /\ pc' = [r \in Requests |-> IF podOf[r] = p /\ pc[r] # "done" THEN "done" ELSE pc[r]]
  /\ entries' = [entries EXCEPT ![p] = [i \in Ids |-> None]]
  /\ handlers' = {h \in handlers : h[1].idx # p}
  /\ UNCHANGED <<podOf, status, answer, replyEvent, keyVars, replies>>

-----------------------------------------------------------------------------

NewEventStep(r) ==
  \/ NewEventFails(r)
  \/ SendEvent(r)
  \/ SendReturns(r)
  \/ WriteReply(r)
  \/ ContextDone(r)
  \/ deleteEvent(r)

Next ==
  \/ \E r \in Requests, p \in Pods : addEvent(r, p)
  \/ \E r \in Requests : NewEventStep(r)
  \/ \E c \in replies : getEvent(c)
  \/ \E h \in handlers : OfferReply(h[1], h[2])
  \/ \E p \in Pods, k \in Keys : addAesKey(p, k)
  \/ \E p \in Pods, k \in Keys : removeAesKey(p, k)
  \/ \E p \in Pods : RestartPod(p)

Spec == Init /\ [][Next]_vars

\* The handlers run, the broker answers or the context ends, and the context
\* of a waiting handler ends after its timeout.
Fairness == \A r \in Requests : WF_vars(NewEventStep(r))

FairSpec == Spec /\ Fairness

-----------------------------------------------------------------------------
(***************************************************************************)
(* Properties.                                                             *)
(***************************************************************************)

\* Different events have different ids.
UniqueIds == \A e, f \in Events : IdOf[e] = IdOf[f] => e = f

\* A requester gets a reply to its own event: the correlation id is there "to
\* track which cloudevent is a reply to the initial request".
RightReply == \A r \in Requests : answer[r] # None => EventOf[answer[r]] = EventOf[r]

\* The entry of an ended request is gone unless the handler failed.
EntriesAreReleased ==
  \A p \in Pods, i \in Ids :
    entries[p][i] # None =>
      LET r == entries[p][i] IN pc[r] \in InProgress \union {"deleting"} \/ status[r] = 500

\* Nobody else sends an event with this request's id.
SentOnce(r) == \A s \in Requests : idOf(s) = idOf(r) => s = r

\* While a handler waits, a reply finds it, unless its event is sent twice:
\* nobody else removes its entry.
WaitingIsReachable ==
  \A r \in Requests :
    pc[r] \in InProgress /\ SentOnce(r) => entries[podOf[r]][idOf(r)] = r

\* Nobody is stuck: every request that was taken comes to its end, answered or
\* broken off, and leaves no handler of a reply waiting for room in its channel:
\* "a full buffer to detect and drop duplicate replies without blocking".
HandlersEnd ==
  \A r \in Requests :
    pc[r] # "new" ~>
      pc[r] = "done" /\ \A h \in handlers : h[2] = r => ENABLED OfferReply(h[1], r)

=============================================================================
