--------------------------- MODULE EventDispatcher ---------------------------
(***************************************************************************)
(* kncloudevents.Dispatcher: sending one event to one destination, with    *)
(* retries, forwarding of the reply and a dead letter sink                 *)
(* (pkg/kncloudevents/event_dispatcher.go, retries.go).                    *)
(*                                                                         *)
(* A "send" is one call of SendEvent: an event for one subscription.  Many *)
(* sends run at the same time, each in a goroutine of its own; the sends   *)
(* of one event share a context that may be cancelled at any time.         *)
(*                                                                         *)
(* An HTTP exchange is abstracted to the class of its answer:              *)
(*   event      2xx whose headers are those of a CloudEvent (its body may  *)
(*              be the text of a read error, the code forwards it all the  *)
(*              same)                                                      *)
(*   nonEvent   any other 2xx; the response is discarded                   *)
(*   transient  5xx, 404, 408, 409, 429, or no answer at all: a transport  *)
(*              error or the request timeout, after which the target may   *)
(*              have handled the request nevertheless                      *)
(*   refused    every other status, or no request could be built           *)
(* A failed answer carries a body; only whether it still fits the error    *)
(* extension matters, see dispatchExecutionInfoTransformers.               *)
(* A nil RetryConfig (a single Do) and RetryMax = 0 behave alike.          *)
(***************************************************************************)
EXTENDS Naturals

CONSTANTS
  Events,    \* events handed to the dispatcher
  Subs,      \* fanout.Subscription values an event may be sent to
  Config     \* Config[s]: the send options derived from subscription s

Sends == Events \X Subs

\* url: the destination has a URL; reply, dls: a reply and a dead letter sink
\* are configured; retries: RetryConfig.RetryMax.
SendConfig == [url : BOOLEAN, reply : BOOLEAN, dls : BOOLEAN, retries : Nat]

ASSUME ConfigAssumption == Config \in [Subs -> SendConfig]

VARIABLES
  at,        \* at[s]: the target send s is working on, or how it ended
  inflight,  \* inflight[s]: a request of s is on the wire
  attempt,   \* attempt[s]: the retry loop's counter i for the current target
  answer,    \* answer[s][h]: what executeRequest ended with for target h
  tried,     \* tried[s][h]: requests sent to target h on behalf of s (history)
  err,       \* err[s]: the error SendEvent returned is not nil
  ctxDone    \* ctxDone[e]: the context of the sends of event e is cancelled

dispatcherVars == <<at, inflight, attempt, answer, tried, err, ctxDone>>

-----------------------------------------------------------------------------

Targets == {"destination", "reply", "deadLetter"}

Taken == {"event", "nonEvent"}
Failures == {"transient", "refused"}
Answers == Taken \union Failures

cfg(s) == Config[s[2]]

Live(s) == at[s] \in Targets

DispatcherTypeOK ==
  /\ at \in [Sends -> Targets \union {"idle", "returned", "panicked", "dead"}]
  /\ inflight \in [Sends -> BOOLEAN]
  /\ attempt \in [Sends -> Nat]
  /\ answer \in [Sends -> [Targets -> Answers \union {"none"}]]
  /\ tried \in [Sends -> [Targets -> Nat]]
  /\ err \in [Sends -> BOOLEAN]
  /\ ctxDone \in [Events -> BOOLEAN]

DispatcherInit ==
  /\ at = [s \in Sends |-> "idle"]
  /\ inflight = [s \in Sends |-> FALSE]
  /\ attempt = [s \in Sends |-> 0]
  /\ answer = [s \in Sends |-> [h \in Targets |-> "none"]]
  /\ tried = [s \in Sends |-> [h \in Targets |-> 0]]
  /\ err = [s \in Sends |-> FALSE]
  /\ ctxDone = [e \in Events |-> FALSE]

-----------------------------------------------------------------------------
(***************************************************************************)
(* Decisions of the code.                                                  *)
(***************************************************************************)

\* SelectiveRetry: no response, an error, or a status worth another attempt.
SelectiveRetry(o) == o = "transient"

\* Mutant: the attempts are counted from one.
ShouldRetryOffByOne(s, o) ==
  /\ SelectiveRetry(o)
  /\ attempt[s] + 1 < cfg(s).retries
  /\ ~ ctxDone[s[1]]

\* The retry loop goes on while CheckRetry asks for it, RetryMax - i > 0 and
\* the wait for the backoff is not ended by the context.
ShouldRetry(s, o) ==
  /\ SelectiveRetry(o)
  /\ attempt[s] < cfg(s).retries
  /\ ~ ctxDone[s[1]]

\* The base64 text of the body is written into a buffer of at most
\* KnativeErrorDataExtensionMaxLength bytes: a longer body runs past its end.
dispatchExecutionInfoTransformers(long) == IF long THEN "panicked" ELSE "deadLetter"

\* send(): where a send goes once executeRequest ended with answer o at h.
NextTarget(c, h, o, long) ==
  CASE o \in Failures /\ h # "deadLetter" /\ c.dls ->
         dispatchExecutionInfoTransformers(long)
    [] o = "event" /\ h = "destination" /\ c.reply -> "reply"
    [] OTHER -> "returned"

\* executeRequest returns answer o for the current target, and send() goes on.
Conclude(s, o, long) ==
  LET h == at[s]
      next == NextTarget(cfg(s), h, o, long)
  IN /\ answer' = [answer EXCEPT ![s][h] = o]
     /\ at' = [at EXCEPT ![s] = next]
     /\ attempt' = [attempt EXCEPT ![s] = 0]
     /\ err' = [err EXCEPT ![s] = (next = "returned" /\ o \in Failures)]

-----------------------------------------------------------------------------
(***************************************************************************)
(* Steps of a send.                                                        *)
(***************************************************************************)

\* The goroutines of the sends in S start: SendEvent, SendMessage and the
\* beginning of send.  Without a destination URL a send fails at once.  (An
\* option fails only for an empty service account name, which the control
\* plane never produces.)
SendMessage(S) ==
  /\ at' = [s \in Sends |-> IF s \notin S THEN at[s]
                            ELSE IF cfg(s).url THEN "destination" ELSE "returned"]
  /\ err' = [s \in Sends |-> IF s \in S THEN ~ cfg(s).url ELSE err[s]]

\* executeRequest builds no request: the target fails before any attempt.
CreateRequestFails(s) ==
  /\ Live(s) /\ attempt[s] = 0 /\ ~ inflight[s]
  /\ Conclude(s, "refused", FALSE)
  /\ UNCHANGED <<inflight, tried, ctxDone>>

\* client.Do: one attempt goes out.
Do(s) ==
  /\ Live(s) /\ ~ inflight[s] /\ ~ ctxDone[s[1]]
  /\ inflight' = [inflight EXCEPT ![s] = TRUE]
  /\ tried' = [tried EXCEPT ![s][at[s]] = @ + 1]
  /\ UNCHANGED <<at, attempt, answer, err, ctxDone>>

\* Mutant: the wait for the backoff does not notice the cancellation.
DoCancelledWaits(s) ==
  /\ Live(s) /\ ~ inflight[s] /\ ctxDone[s[1]]
  /\ UNCHANGED dispatcherVars

\* With a cancelled context Do fails without a request, and DoWithRetries
\* gives up instead of waiting for the backoff.
DoCancelled(s) ==
  /\ Live(s) /\ ~ inflight[s] /\ ctxDone[s[1]]
  /\ Conclude(s, "transient", FALSE)
  /\ UNCHANGED <<inflight, tried, ctxDone>>

\* The attempt on the wire ends with answer o; DoWithRetries loops or returns.
Answer(s, o, long) ==
  /\ Live(s) /\ inflight[s]
  /\ inflight' = [inflight EXCEPT ![s] = FALSE]
  /\ \/ /\ ShouldRetry(s, o)
        /\ attempt' = [attempt EXCEPT ![s] = @ + 1]
        /\ UNCHANGED <<at, answer, err>>
     \/ /\ ~ ShouldRetry(s, o)
        /\ Conclude(s, o, long)
  /\ UNCHANGED <<tried, ctxDone>>

\* Any answer may come; only a failure carries a body that matters.
AnswerAny(s) ==
  \E o \in Answers, long \in BOOLEAN :
    /\ long => o \in Failures
    /\ Answer(s, o, long)

SendStep(s) ==
  \/ CreateRequestFails(s)
  \/ Do(s)
  \/ DoCancelled(s)
  \/ AnswerAny(s)

-----------------------------------------------------------------------------

\* The target took the event, and a reply to it was taken as well if one had
\* to be forwarded; or the dead letter sink took the event.
HandedOver(s) ==
  \/ answer[s]["deadLetter"] \in Taken
  \/ /\ answer[s]["destination"] \in Taken
     /\ \/ answer[s]["destination"] # "event"
        \/ ~ cfg(s).reply
        \/ answer[s]["reply"] \in Taken

\* Targets whose failure sent s to the dead letter sink, or would have.
FailedTargets(s) == {h \in {"destination", "reply"} : answer[s][h] \in Failures}

=============================================================================
