--------------------------- MODULE ApiServerAdapter ---------------------------
(***************************************************************************)
(* The receive adapter of an ApiServerSource, and the client that receive  *)
(* adapters send their events with.                                        *)
(***************************************************************************)
EXTENDS Optional, Integers, Sequences, FiniteSets

-----------------------------------------------------------------------------
(***************************************************************************)
(* The receive adapter of an ApiServerSource (pkg/adapter/apiserver): a    *)
(* reflector per watched resource and namespace, whose store makes events  *)
(* of what it is given, in the resilient and in the fail-fast mode.        *)
(***************************************************************************)

CONSTANTS
  Watches,          \* the configured resources and namespaces
  MaxObjectChanges  \* bound on the changes to the watched objects

VARIABLES
  config,      \* the mode, the owner filter, whether there are namespaces to watch, and
               \* the watches whose resource exists
  main,        \* where start is, and what it returns
  reflectors,  \* what each reflector does
  started,     \* watches whose reflector start has started
  errorChan,   \* errors in the channel of capacity one
  stopped,     \* stopCh is closed
  cancelled,   \* the local stop channel is closed, or watchCtx is cancelled
  objects,     \* per watch, what happened to its objects, in order
  position,    \* per watch, how much of that its reflector has seen
  listed,      \* per watch, changes that it saw in a list only
  sent         \* per watch, the events that the sink got

apiVars == <<config, main, reflectors, started, errorChan, stopped, cancelled, objects, position,
             listed, sent>>

ApiIdle == "idle"

\* owned: the object's controller is of the kind the owner filter asks for;
\* passes: the filters let the event pass.
Changes == {[type |-> "add", owned |-> TRUE, passes |-> TRUE],
            [type |-> "update", owned |-> TRUE, passes |-> FALSE],
            [type |-> "delete", owned |-> FALSE, passes |-> TRUE]}

ChangeCount == Cardinality(UNION {{w} \X DOMAIN objects[w] : w \in Watches})

ApiInit ==
  /\ config \in [failFast : BOOLEAN, owner : BOOLEAN, namespaces : BOOLEAN, exists : SUBSET Watches]
  /\ main = "collecting"
  /\ reflectors = [w \in Watches |-> ApiIdle]
  /\ started = {}
  /\ errorChan = 0
  /\ stopped = FALSE
  /\ cancelled = FALSE
  /\ objects = [w \in Watches |-> <<>>]
  /\ position = [w \in Watches |-> 0]
  /\ listed = [w \in Watches |-> {}]
  /\ sent = [w \in Watches |-> <<>>]

Returned == main \in {"nil", "error"}

ApiRunning(w) == reflectors[w] \notin {ApiIdle, "exited"}

\* The API server: an object is added, updated or deleted.
ObjectChanges(w, c) ==
  /\ ~ Returned
  /\ ChangeCount < MaxObjectChanges
  /\ objects' = [objects EXCEPT ![w] = Append(@, c)]
  /\ UNCHANGED <<config, main, reflectors, started, errorChan, stopped, cancelled, position, listed, sent>>

Stop ==
  /\ ~ stopped
  /\ stopped' = TRUE
  /\ UNCHANGED <<config, main, reflectors, started, errorChan, cancelled, objects, position, listed, sent>>

-----------------------------------------------------------------------------
\* collectResourceMatches: without discovery there is nothing to start.
CollectResourceMatches(ok) ==
  /\ main = "collecting"
  /\ main' = IF ok THEN "starting" ELSE "error"
  /\ UNCHANGED <<config, reflectors, started, errorChan, stopped, cancelled, objects, position, listed, sent>>

\* One turn of the loops of startResilient and startFailFast: a resource that does
\* not exist is skipped, or ends the adapter with the reflectors started so far
\* cancelled, but not waited for.
StartReflector(w) ==
  /\ main = "starting" /\ w \notin started
  /\ started' = started \cup {w}
  /\ IF w \in config.exists
     THEN /\ reflectors' = [reflectors EXCEPT ![w] = IF config.namespaces THEN "listing" ELSE ApiIdle]
          /\ UNCHANGED <<main, cancelled>>
     ELSE /\ main' = IF config.failFast THEN "error" ELSE main
          /\ cancelled' = config.failFast
          /\ UNCHANGED reflectors
  /\ UNCHANGED <<config, errorChan, stopped, objects, position, listed, sent>>

\* The select of startFailFast, or the wait for stopCh of startResilient.
AllStarted ==
  /\ main = "starting" /\ started = Watches
  /\ main' = "waiting"
  /\ UNCHANGED <<config, reflectors, started, errorChan, stopped, cancelled, objects, position, listed, sent>>

\* startResilient ends with stopCh only.
EndResilient ==
  /\ main = "waiting" /\ ~ config.failFast
  /\ stopped
  /\ cancelled' = TRUE
  /\ main' = "nil"
  /\ UNCHANGED <<config, reflectors, started, errorChan, stopped, objects, position, listed, sent>>

\* The two cases of the select of startFailFast; errorChan is closed when no
\* reflector is left.
ReceiveError ==
  /\ main = "waiting" /\ config.failFast
  /\ \/ errorChan = 1 /\ main' = "failing"
     \/ errorChan = 0 /\ (\A w \in Watches : ~ ApiRunning(w)) /\ main' = "nil"
  /\ cancelled' = TRUE
  /\ UNCHANGED <<config, reflectors, started, errorChan, stopped, objects, position, listed, sent>>

ReceiveStop ==
  /\ main = "waiting" /\ config.failFast
  /\ stopped
  /\ cancelled' = TRUE
  /\ main' = "stopping"
  /\ UNCHANGED <<config, reflectors, started, errorChan, stopped, objects, position, listed, sent>>

\* Mutant: start returns without waiting for the reflectors.
EndFailFastNow ==
  /\ main \in {"failing", "stopping"}
  /\ main' = IF main = "failing" THEN "error" ELSE "nil"
  /\ UNCHANGED <<config, reflectors, started, errorChan, stopped, cancelled, objects, position, listed, sent>>

\* wg.Wait and the return.
EndFailFast ==
  /\ main \in {"failing", "stopping"}
  /\ \A w \in Watches : ~ ApiRunning(w)
  /\ main' = IF main = "failing" THEN "error" ELSE "nil"
  /\ UNCHANGED <<config, reflectors, started, errorChan, stopped, cancelled, objects, position, listed, sent>>

-----------------------------------------------------------------------------
\* Mutant: the reflectors get the context of the process.
OverWithProcess == stopped

\* The contexts of the reflectors, watchCtx in the fail-fast mode, end with the
\* process' context too.
Over == cancelled \/ stopped

\* A list: Replace does nothing, whatever the list shows.
List(w) ==
  /\ reflectors[w] = "listing" /\ ~ Over
  /\ listed' = [listed EXCEPT ![w] = @ \cup (position[w] + 1 .. Len(objects[w]))]
  /\ position' = [position EXCEPT ![w] = Len(objects[w])]
  /\ reflectors' = [reflectors EXCEPT ![w] = "watching"]
  /\ UNCHANGED <<config, main, started, errorChan, stopped, cancelled, objects, sent>>

\* Mutant: the owner filter lets deletions pass.
filteredButDelete(c) == config.owner /\ ~ c.owned /\ c.type # "delete"

\* controllerFilter.filtered
filtered(c) == config.owner /\ ~ c.owned

\* handleKubernetesObject: an event that passes is sent, and lost when the sink
\* does not accept it.
handleKubernetesObject(w, c, acked) ==
  IF ~ filtered(c) /\ c.passes /\ acked THEN Append(sent[w], position[w] + 1) ELSE sent[w]

\* Add, Update and Delete of the store.
Watch(w, acked) ==
  /\ reflectors[w] = "watching" /\ position[w] < Len(objects[w])
  /\ sent' = [sent EXCEPT ![w] = handleKubernetesObject(w, objects[w][position[w] + 1], acked)]
  /\ position' = [position EXCEPT ![w] = @ + 1]
  /\ UNCHANGED <<config, main, reflectors, started, errorChan, stopped, cancelled, objects, listed>>

\* The goroutine of startFailFast after ListAndWatchWithContext: the error is
\* offered to the channel, then the others are cancelled.
ReflectorExits(w) ==
  /\ reflectors' = [reflectors EXCEPT ![w] = "exited"]
  /\ errorChan' = 1
  /\ cancelled' = TRUE

\* A list or a watch fails, or is refused: Run of the resilient mode lists again,
\* ListAndWatchWithContext returns.
WatchFails(w) ==
  /\ reflectors[w] \in {"listing", "watching"} /\ ~ Over
  /\ IF config.failFast THEN ReflectorExits(w)
     ELSE reflectors' = [reflectors EXCEPT ![w] = "listing"] /\ UNCHANGED <<errorChan, cancelled>>
  /\ UNCHANGED <<config, main, started, stopped, objects, position, listed, sent>>

\* A reflector notices that its context or its stop channel is done.
ReflectorStops(w) ==
  /\ ApiRunning(w) /\ Over
  /\ config.failFast \/ cancelled
  /\ IF config.failFast THEN ReflectorExits(w)
     ELSE reflectors' = [reflectors EXCEPT ![w] = "exited"] /\ UNCHANGED <<errorChan, cancelled>>
  /\ UNCHANGED <<config, main, started, stopped, objects, position, listed, sent>>

ApiEnded == Returned /\ (\A w \in Watches : ~ ApiRunning(w)) /\ UNCHANGED apiVars

MainSteps ==
  \/ \E ok \in BOOLEAN : CollectResourceMatches(ok)
  \/ \E w \in Watches : StartReflector(w)
  \/ AllStarted \/ EndResilient \/ ReceiveError \/ ReceiveStop \/ EndFailFast

ApiNext ==
  \/ \E w \in Watches, c \in Changes : ObjectChanges(w, c)
  \/ Stop
  \/ MainSteps
  \/ \E w \in Watches : List(w) \/ (\E acked \in BOOLEAN : Watch(w, acked)) \/ WatchFails(w)
                        \/ ReflectorStops(w)
  \/ ApiEnded

\* Nothing but a reflector's own success is required of lists and watches.
ApiProgress == MainSteps \/ \E w \in Watches : ReflectorStops(w) \/ List(w)

ApiSpec == ApiInit /\ [][ApiNext]_apiVars /\ WF_apiVars(ApiProgress)

-----------------------------------------------------------------------------
SelectedIndices(w) ==
  {i \in 1 .. Len(objects[w]) : objects[w][i].passes /\ (config.owner => objects[w][i].owned)}

(***************************************************************************)
(* The sink gets the changes of a resource in their order, each at most    *)
(* once, none that the owner filter or the filters exclude, and none that  *)
(* a list has shown: what changes while there is no watch makes no event.  *)
(***************************************************************************)
EventsInOrder ==
  \A w \in Watches :
    /\ \A i \in 1 .. Len(sent[w]) - 1 : sent[w][i] < sent[w][i + 1]
    /\ \A i \in 1 .. Len(sent[w]) : sent[w][i] \in SelectedIndices(w) \ listed[w]

(***************************************************************************)
(* Once start has returned from waiting, no reflector of the fail-fast     *)
(* mode runs; the resilient mode returns when it is told to stop only; and *)
(* a failed watch of the fail-fast mode never ends in a plain return       *)
(* unless a stop was asked for.                                            *)
(***************************************************************************)
ReturnsWhenDone ==
  /\ Returned /\ config.failFast /\ started = Watches /\ config.exists = Watches =>
       \A w \in Watches : ~ ApiRunning(w)
  /\ main = "nil" /\ ~ config.failFast => stopped
  /\ main = "nil" /\ (\E w \in Watches : reflectors[w] = "exited") => stopped

\* In the fail-fast mode a failed watch has ended start and the other watches.
EndsTogether ==
  config.failFast /\ (\E w \in Watches : reflectors[w] = "exited") =>
    Returned /\ \A w \in Watches : ~ ApiRunning(w)

-----------------------------------------------------------------------------
(***************************************************************************)
(* The client that a receive adapter sends its events with                 *)
(* (pkg/adapter/v2/cloudevents.go) and the provider of the tokens that it  *)
(* authenticates with (pkg/auth/token_provider.go).  Several events may be *)
(* on their way at once.  A token is taken from the cache, or requested    *)
(* from the API server and cached until some time before it expires; an    *)
(* answer may take long, and a token lives as long as the API server says. *)
(* Times are kept as what is left of them.                                 *)
(***************************************************************************)

CONSTANTS
  Sends,          \* The calls of Send that can be on their way at once.
  Lifetimes,      \* The lifetimes that the API server may give a token.
  Buffer,         \* expirationBufferTime.
  MaxDispatch,    \* How long a call takes from having its token to the answer.
  MaxTokenFaults  \* Bound on requests for a token that fail.

VARIABLES
  audience,    \* Whether the sink has an audience (constant).
  tokenCache,  \* The cached token's time to live, and how long it stays cached.
  sending,     \* The calls: what each one does next, the time to live of its
               \* token, how long it may take, and whether the token was cached.
  tokenFaults  \* How many requests for a token failed.

sourceClientVars == <<audience, tokenCache, sending, tokenFaults>>

SourceClientInit ==
  /\ audience \in BOOLEAN
  /\ tokenCache = None
  /\ sending = [s \in Sends |-> None]
  /\ tokenFaults = 0

Less(time) == IF time > 0 THEN time - 1 ELSE 0

(* Time passes.  A call that has its token is answered in time.            *)
Tick ==
  /\ \A s \in Sends : sending[s] # None /\ sending[s].at = "dispatch" => sending[s].limit > 0
  /\ tokenCache' = IF tokenCache = None \/ tokenCache.ttl = 1 THEN None
                   ELSE [left |-> Less(tokenCache.left), ttl |-> tokenCache.ttl - 1]
  /\ sending' = [s \in Sends |->
       IF sending[s] = None THEN None
       ELSE [sending[s] EXCEPT !.left = Less(@), !.limit = Less(@)]]
  /\ UNCHANGED <<audience, tokenFaults>>

Call(at, left, cached) == [at |-> at, left |-> left, limit |-> MaxDispatch, cached |-> cached]

(* Send and Request: without an audience no token is needed, otherwise     *)
(* withAuthHeader gets one.                                                *)
Send(s) ==
  /\ sending[s] = None
  /\ \/ ~audience /\ sending' = [sending EXCEPT ![s] = Call("dispatch", 0, FALSE)]
     \/ audience /\ sending' = [sending EXCEPT ![s] = Call("auth", 0, FALSE)]
  /\ UNCHANGED <<audience, tokenCache, tokenFaults>>

(* What is cached is used.                                                 *)
GetJWT(s) ==
  /\ sending[s] # None /\ sending[s].at = "auth"
  /\ sending' = [sending EXCEPT ![s] =
       IF tokenCache = None THEN Call("token", 0, FALSE)
       ELSE Call("dispatch", tokenCache.left, TRUE)]
  /\ UNCHANGED <<audience, tokenCache, tokenFaults>>

(* The API server makes the token.                                         *)
CreateToken(s) ==
  /\ sending[s] # None /\ sending[s].at = "token"
  /\ \E lifetime \in Lifetimes : sending' = [sending EXCEPT ![s] = Call("cache", lifetime, FALSE)]
  /\ UNCHANGED <<audience, tokenCache, tokenFaults>>

expiryTtlUnbuffered(left) == left

expiryTtl(left) == left - Buffer

(* The answer is there: the token is cached, for a time that is counted    *)
(* from now on.  A time that is over at once caches nothing.               *)
GetNewJWT(s) ==
  /\ sending[s] # None /\ sending[s].at = "cache"
  /\ LET left == sending[s].left
         ttl == expiryTtl(left) IN
       /\ tokenCache' = IF ttl > 0 THEN [left |-> left, ttl |-> ttl] ELSE None
       /\ sending' = [sending EXCEPT ![s] = Call("dispatch", left, FALSE)]
  /\ UNCHANGED <<audience, tokenFaults>>

(* Without a token the event is not sent.                                  *)
GetNewJWTFails(s) ==
  /\ sending[s] # None /\ sending[s].at = "token"
  /\ tokenFaults < MaxTokenFaults
  /\ tokenFaults' = tokenFaults + 1
  /\ sending' = [sending EXCEPT ![s] = None]
  /\ UNCHANGED <<audience, tokenCache>>

(* The sink answers, and reportMetrics counts the answer and the retries.  *)
RequestReturns(s) ==
  /\ sending[s] # None /\ sending[s].at = "dispatch"
  /\ sending' = [sending EXCEPT ![s] = None]
  /\ UNCHANGED <<audience, tokenCache, tokenFaults>>

SourceClientNext ==
  \/ Tick
  \/ \E s \in Sends :
       \/ Send(s) \/ GetJWT(s) \/ CreateToken(s) \/ GetNewJWT(s) \/ GetNewJWTFails(s)
       \/ RequestReturns(s)

SourceClientSpec == SourceClientInit /\ [][SourceClientNext]_sourceClientVars

-----------------------------------------------------------------------------
(* "this gives us a buffer so that it doesn't expire between when we       *)
(* retrieve it and when we use it": a token that came from the cache lives *)
(* until the sink has answered, whichever of several calls cached which    *)
(* token, and whatever lifetimes the API server gives.                     *)
TokensAreValid ==
  \A s \in Sends :
    sending[s] # None /\ sending[s].at = "dispatch" /\ sending[s].cached => sending[s].left > 0

===============================================================================
