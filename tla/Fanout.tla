-------------------------------- MODULE Fanout --------------------------------
(***************************************************************************)
(* The fanout event handler of a channel and the receiver in front of it   *)
(* (pkg/channel/fanout/fanout_event_handler.go, pkg/channel/               *)
(* event_receiver.go), running the sends of EventDispatcher.               *)
(*                                                                         *)
(* A request carries one event.  The handler takes a snapshot of its       *)
(* subscriptions, starts one goroutine per subscription and collects their *)
(* results over a buffered channel, giving up when no result arrives       *)
(* within its timeout.  A synchronous handler answers the producer with    *)
(* the collected result, an asynchronous one right after the snapshot.     *)
(*                                                                         *)
(* The process may crash at any time, and does so when a goroutine panics: *)
(* it restarts with no subscriptions and without the work in progress.     *)
(***************************************************************************)
EXTENDS EventDispatcher, FiniteSets

CONSTANTS
  Async,        \* the handler's asyncHandler flag
  MaxRestarts   \* bound on restarts of the process

ASSUME AsyncAssumption == Async \in BOOLEAN
ASSUME MaxRestartsAssumption == MaxRestarts \in Nat

VARIABLES
  subscriptions,  \* f.subscriptions
  stage,          \* stage[e]: where the request carrying e is
  snapshot,       \* snapshot[e]: the subscriptions e is dispatched to
  collected,      \* collected[e]: results taken off the channel by dispatch
  fanoutErr,      \* fanoutErr[e]: dispatchResultForFanout.err is not nil
  response,       \* response[e]: the status the producer got
  restarts        \* crashes so far that no panic caused

fanoutVars == <<subscriptions, stage, snapshot, collected, fanoutErr, response>>
vars == <<dispatcherVars, fanoutVars, restarts>>

-----------------------------------------------------------------------------

Stages == {"new", "dispatching", "done"}

\* "reset": the connection broke, the producer got no status at all.
Responses == {"none", "accepted", "rejected", "serverError", "reset"}

TypeOK ==
  /\ DispatcherTypeOK
  /\ subscriptions \in SUBSET Subs
  /\ stage \in [Events -> Stages]
  /\ snapshot \in [Events -> SUBSET Subs]
  /\ collected \in [Events -> SUBSET Subs]
  /\ fanoutErr \in [Events -> BOOLEAN]
  /\ response \in [Events -> Responses]
  /\ restarts \in 0..MaxRestarts

Init ==
  /\ DispatcherInit
  /\ subscriptions = {}
  /\ stage = [e \in Events |-> "new"]
  /\ snapshot = [e \in Events |-> {}]
  /\ collected = [e \in Events |-> {}]
  /\ fanoutErr = [e \in Events |-> FALSE]
  /\ response = [e \in Events |-> "none"]
  /\ restarts = 0

-----------------------------------------------------------------------------

\* Mutant: the list is shared with the requests in progress, not copied.
SetSubscriptionsShared(S) ==
  /\ S # subscriptions
  /\ subscriptions' = S
  /\ snapshot' = [e \in Events |-> IF stage[e] = "dispatching" THEN S ELSE snapshot[e]]
  /\ UNCHANGED <<dispatcherVars, stage, collected, fanoutErr, response, restarts>>

\* SetSubscriptions: the reconciler replaces the list under the write lock.
SetSubscriptions(S) ==
  /\ S # subscriptions
  /\ subscriptions' = S
  /\ UNCHANGED <<dispatcherVars, stage, snapshot, collected, fanoutErr, response,
                 restarts>>

\* ServeHTTP turns a request away: bad method, path, host, event or token.
Reject(e) ==
  /\ stage[e] = "new"
  /\ stage' = [stage EXCEPT ![e] = "done"]
  /\ response' = [response EXCEPT ![e] = "rejected"]
  /\ UNCHANGED <<dispatcherVars, subscriptions, snapshot, collected, fanoutErr,
                 restarts>>

\* ServeHTTP and the receiver function up to the start of dispatch's
\* goroutines.
Receive(e) ==
  LET sends == {e} \X subscriptions
  IN /\ stage[e] = "new"
     /\ snapshot' = [snapshot EXCEPT ![e] = subscriptions]
     /\ stage' = [stage EXCEPT
                    ![e] = IF subscriptions = {} THEN "done" ELSE "dispatching"]
     /\ response' = [response EXCEPT
                       ![e] = IF subscriptions = {} \/ Async THEN "accepted" ELSE @]
     /\ SendMessage(sends)
     /\ UNCHANGED <<inflight, attempt, answer, tried, ctxDone, subscriptions,
                    collected, fanoutErr, restarts>>

\* dispatch returns with error b.  A synchronous handler answers, and the
\* server cancels the context of the request it served; an asynchronous one
\* has answered before and runs with a background context.
Return(e, b) ==
  /\ stage' = [stage EXCEPT ![e] = "done"]
  /\ fanoutErr' = [fanoutErr EXCEPT ![e] = b]
  /\ response' = IF response[e] # "none" THEN response
                 ELSE [response EXCEPT ![e] = IF b THEN "serverError" ELSE "accepted"]
  /\ ctxDone' = IF Async THEN ctxDone ELSE [ctxDone EXCEPT ![e] = TRUE]

\* Mutant: a later success hides an earlier error.
CollectLastWins(e, s) ==
  LET b == err[<<e, s>>]
  IN /\ stage[e] = "dispatching"
     /\ s \in snapshot[e] \ collected[e]
     /\ at[<<e, s>>] = "returned"
     /\ collected' = [collected EXCEPT ![e] = @ \union {s}]
     /\ \/ /\ collected'[e] = snapshot[e]
           /\ Return(e, b)
        \/ /\ collected'[e] # snapshot[e]
           /\ fanoutErr' = [fanoutErr EXCEPT ![e] = b]
           /\ UNCHANGED <<stage, response, ctxDone>>
     /\ UNCHANGED <<at, inflight, attempt, answer, tried, err,
                    subscriptions, snapshot, restarts>>

\* Mutant: dispatch waits for the subscriptions added since as well.
CollectRereads(e, s) ==
  LET b == fanoutErr[e] \/ err[<<e, s>>]
  IN /\ stage[e] = "dispatching"
     /\ s \in snapshot[e] \ collected[e]
     /\ at[<<e, s>>] = "returned"
     /\ collected' = [collected EXCEPT ![e] = @ \union {s}]
     /\ \/ /\ collected'[e] = snapshot[e] \union subscriptions
           /\ Return(e, b)
        \/ /\ collected'[e] # snapshot[e] \union subscriptions
           /\ fanoutErr' = [fanoutErr EXCEPT ![e] = b]
           /\ UNCHANGED <<stage, response, ctxDone>>
     /\ UNCHANGED <<at, inflight, attempt, answer, tried, err,
                    subscriptions, snapshot, restarts>>

\* dispatch takes the result of subscription s off the results channel; the
\* last error wins, and the loop ends after one result per subscription.
Collect(e, s) ==
  LET b == fanoutErr[e] \/ err[<<e, s>>]
  IN /\ stage[e] = "dispatching"
     /\ s \in snapshot[e] \ collected[e]
     /\ at[<<e, s>>] = "returned"
     /\ collected' = [collected EXCEPT ![e] = @ \union {s}]
     /\ \/ /\ collected'[e] = snapshot[e]
           /\ Return(e, b)
        \/ /\ collected'[e] # snapshot[e]
           /\ fanoutErr' = [fanoutErr EXCEPT ![e] = b]
           /\ UNCHANGED <<stage, response, ctxDone>>
     /\ UNCHANGED <<at, inflight, attempt, answer, tried, err,
                    subscriptions, snapshot, restarts>>

\* time.After(f.timeout) fires while dispatch waits for a result.
Timeout(e) ==
  /\ stage[e] = "dispatching"
  /\ Return(e, TRUE)
  /\ UNCHANGED <<at, inflight, attempt, answer, tried, err,
                 subscriptions, snapshot, collected, restarts>>

\* The producer gives up on a synchronous request: its context is cancelled.
Disconnect(e) ==
  /\ ~ Async
  /\ stage[e] = "dispatching" /\ ~ ctxDone[e]
  /\ ctxDone' = [ctxDone EXCEPT ![e] = TRUE]
  /\ UNCHANGED <<at, inflight, attempt, answer, tried, err, fanoutVars, restarts>>

\* A goroutine's step in the dispatcher.
Deliver(s) ==
  /\ SendStep(s)
  /\ UNCHANGED <<fanoutVars, restarts>>

\* The process dies, by itself or because a goroutine panicked, and starts
\* again with an empty registry of subscriptions.
Restart ==
  /\ \/ /\ \E s \in Sends : at[s] = "panicked"
        /\ UNCHANGED restarts
     \/ /\ restarts < MaxRestarts
        /\ restarts' = restarts + 1
  /\ at' = [s \in Sends |-> IF Live(s) \/ at[s] = "panicked" THEN "dead" ELSE at[s]]
  /\ inflight' = [s \in Sends |-> FALSE]
  /\ stage' = [e \in Events |-> IF stage[e] = "dispatching" THEN "done" ELSE stage[e]]
  /\ response' = [e \in Events |->
                    IF stage[e] = "dispatching" /\ response[e] = "none"
                    THEN "reset" ELSE response[e]]
  /\ subscriptions' = {}
  /\ UNCHANGED <<attempt, answer, tried, err, ctxDone, snapshot, collected, fanoutErr>>

Next ==
  \/ \E S \in SUBSET Subs : SetSubscriptions(S)
  \/ \E e \in Events : Reject(e)
  \/ \E e \in Events : Receive(e)
  \/ \E e \in Events, s \in Subs : Collect(e, s)
  \/ \E e \in Events : Timeout(e)
  \/ \E e \in Events : Disconnect(e)
  \/ \E s \in Sends : Deliver(s)
  \/ Restart

Spec == Init /\ [][Next]_vars

(***************************************************************************)
(* Fairness: the Go scheduler runs every goroutine that can run, HTTP      *)
(* requests end (an answer, a transport error or the request timeout), and *)
(* the runtime ends a process in which a goroutine panicked.  Nothing is   *)
(* assumed of producers, of the reconciler or of the timeout.              *)
(***************************************************************************)
Fairness ==
  /\ \A s \in Sends : WF_vars(Deliver(s))
  /\ \A e \in Events : \A s \in Subs : WF_vars(Collect(e, s))
  /\ WF_vars(Restart /\ \E s \in Sends : at[s] = "panicked")

FairSpec == Spec /\ Fairness

-----------------------------------------------------------------------------
(***************************************************************************)
(* Properties.                                                             *)
(***************************************************************************)

\* A synchronous channel that accepted an event (202) has handed it over for
\* every subscription it had when the event came in: the subscriber took it,
\* with its reply, or the dead letter sink did.
AcceptedIsHandedOver ==
  ~ Async => \A e \in Events : response[e] = "accepted" =>
               \A s \in snapshot[e] : HandedOver(<<e, s>>)

\* A target of x failed with an answer no retry is made for, or after every
\* retry was used up.
ExhaustedOrRefused(x) ==
  \E h \in FailedTargets(x) :
    \/ answer[x][h] = "refused"
    \/ tried[x][h] = cfg(x).retries + 1

\* An event goes to the dead letter sink only after one of the other targets
\* failed for good: with an answer no retry helps against, or after as many
\* attempts as the subscription's retry configuration allows.
DeadLetterIsLastResort ==
  \A x \in Sends :
    tried[x]["deadLetter"] > 0 => ExhaustedOrRefused(x)

\* A producer that waits for a synchronous channel gets an answer (or learns
\* that the process died): neither a slow subscriber, nor retries, nor a
\* panic in another goroutine keeps dispatch from returning.
RequestIsAnswered ==
  \A e \in Events : stage[e] = "dispatching" ~> response[e] # "none"

\* A send that failed and has a dead letter sink goes on to it: the comment in
\* send says "If DeadLetter is configured, then send original message with
\* knative error extensions", and that of KnativeErrorDataExtensionKey's
\* transformer that the data are truncated to the maximal length.
FailedIsDeadLettered ==
  \A x \in Sends : FailedTargets(x) # {} /\ cfg(x).dls => at[x] # "panicked"

\* Every goroutine started for a subscription ends, also those dispatch no
\* longer waits for because it timed out.
SendsEnd ==
  \A x \in Sends : Live(x) ~> ~ Live(x)

\* Nobody waits forever: the producer gets its answer, and no goroutine of the
\* fanout outlives its work.
DispatchEnds == RequestIsAnswered /\ SendsEnd

-----------------------------------------------------------------------------
(***************************************************************************)
(* The inductive invariant behind the safety properties.                   *)
(***************************************************************************)

\* Where a send is agrees with what it has asked and been answered so far.
SendInv(x) ==
  /\ at[x] \in {"idle", "destination"} =>
       /\ \A h \in Targets : answer[x][h] = "none"
       /\ tried[x]["reply"] = 0
  /\ at[x] = "reply" =>
       answer[x]["destination"] = "event" /\ answer[x]["reply"] = "none" /\ cfg(x).reply
  /\ at[x] \in {"idle", "destination", "reply"} =>
       tried[x]["deadLetter"] = 0 /\ answer[x]["deadLetter"] = "none"
  /\ at[x] \in {"destination", "reply"} =>
       /\ tried[x][at[x]] = attempt[x] + (IF inflight[x] THEN 1 ELSE 0)
       /\ attempt[x] <= cfg(x).retries
  /\ at[x] = "idle" =>
       /\ \A h \in Targets : tried[x][h] = 0
       /\ attempt[x] = 0 /\ ~ inflight[x]
  /\ at[x] = "returned" => (err[x] <=> ~ HandedOver(x))
  /\ at[x] # "returned" => ~ HandedOver(x)
  /\ at[x] = "deadLetter" => ExhaustedOrRefused(x) \/ ctxDone[x[1]]
  /\ tried[x]["deadLetter"] > 0 => ExhaustedOrRefused(x)

\* What a request has collected agrees with its sends and with its response.
RequestInv(e) ==
  /\ collected[e] \subseteq snapshot[e]
  /\ stage[e] = "new" => snapshot[e] = {} /\ response[e] = "none" /\ ~ fanoutErr[e]
  /\ stage[e] = "dispatching" =>
       snapshot[e] # {} /\ (response[e] = "none" <=> ~ Async)
  /\ stage[e] = "done" => response[e] # "none"
  /\ \A s \in Subs : s \in snapshot[e] <=> at[<<e, s>>] # "idle"
  /\ \A s \in collected[e] :
       at[<<e, s>>] = "returned" /\ (err[<<e, s>>] => fanoutErr[e])
  /\ ~ Async /\ response[e] = "accepted" =>
       collected[e] = snapshot[e] /\ ~ fanoutErr[e]

IInv ==
  /\ TypeOK
  /\ \A x \in Sends : SendInv(x)
  /\ \A e \in Events : RequestInv(e)

-----------------------------------------------------------------------------
(***************************************************************************)
(* The handler implements the contract of a channel.                       *)
(***************************************************************************)

\* What became of subscription s of event e, read off the dispatcher.
fateOf(e, s) ==
  LET x == <<e, s>>
  IN IF s \notin snapshot[e] THEN "none"
     ELSE IF HandedOver(x) THEN "handedOver"
     ELSE IF Live(x) \/ at[x] = "panicked" THEN "owed"
     ELSE "failed"

Contract == INSTANCE DeliveryContract WITH
  fate <- [e \in Events |-> [s \in Subs |-> fateOf(e, s)]],
  verdict <- response

\* The fanout handler with the dispatcher underneath does no more than a
\* channel promises: debts are taken once, settled once and never forgotten
\* short of a crash, and a synchronous 202 means that all were met.
ImplementsContract == Contract!Spec

=============================================================================
