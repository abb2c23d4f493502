----------------------------- MODULE FanoutProofs -----------------------------
(***************************************************************************)
(* Proofs about Fanout, for every set of events and subscriptions, every   *)
(* send configuration and any number of restarts.                          *)
(***************************************************************************)
EXTENDS Fanout, TLAPS

USE DEF Targets, Answers, Taken, Failures

\* A send is a pair of an event and a subscription.
LEMMA SendPair ==
  ASSUME NEW x \in Sends
  PROVE  x[1] \in Events /\ x[2] \in Subs /\ x = <<x[1], x[2]>>
BY DEF Sends

\* An event and a subscription make a send.
LEMMA PairSend ==
  ASSUME NEW e \in Events, NEW s \in Subs
  PROVE  <<e, s>> \in Sends /\ <<e, s>>[1] = e /\ <<e, s>>[2] = s
BY DEF Sends

\* The send options derived from a subscription have the declared types.
LEMMA CfgType ==
  ASSUME NEW x \in Sends
  PROVE  /\ cfg(x).retries \in Nat
         /\ cfg(x).url \in BOOLEAN
         /\ cfg(x).reply \in BOOLEAN
         /\ cfg(x).dls \in BOOLEAN
BY SendPair, ConfigAssumption DEF cfg, SendConfig

\* Type correctness of Fanout and of the dispatcher under it: what every
\* handler writes stays within the declared state.
LEMMA TypeInit == Init => TypeOK
BY MaxRestartsAssumption DEF Init, TypeOK, DispatcherInit, DispatcherTypeOK, Stages, Responses

\* The end of executeRequest keeps the dispatcher's types.
LEMMA ConcludeType ==
  ASSUME TypeOK, NEW x \in Sends, Live(x), NEW o \in Answers, NEW long \in BOOLEAN,
         Conclude(x, o, long)
  PROVE  /\ at' \in [Sends -> Targets \union {"idle", "returned", "panicked", "dead"}]
         /\ attempt' \in [Sends -> Nat]
         /\ answer' \in [Sends -> [Targets -> Answers \union {"none"}]]
         /\ err' \in [Sends -> BOOLEAN]
<1>1. NextTarget(cfg(x), at[x], o, long) \in Targets \union {"returned", "panicked"}
  BY DEF NextTarget, dispatchExecutionInfoTransformers
<1> QED
  BY <1>1 DEF Conclude, TypeOK, DispatcherTypeOK, Live

\* A goroutine's step keeps the dispatcher's types.
LEMMA SendStepType ==
  ASSUME TypeOK, NEW x \in Sends, SendStep(x)
  PROVE  DispatcherTypeOK'
<1>1. CASE CreateRequestFails(x)
  BY <1>1, ConcludeType, Zenon DEF CreateRequestFails, TypeOK, DispatcherTypeOK
<1>2. CASE Do(x)
  BY <1>2 DEF Do, TypeOK, DispatcherTypeOK, Live
<1>3. CASE DoCancelled(x)
  BY <1>3, ConcludeType, Zenon DEF DoCancelled, TypeOK, DispatcherTypeOK
<1>4. CASE AnswerAny(x)
  <2>1. PICK o \in Answers, long \in BOOLEAN : Answer(x, o, long)
    BY <1>4 DEF AnswerAny
  <2>2. CASE ShouldRetry(x, o)
    BY <2>1, <2>2, SMTT(30) DEF Answer, TypeOK, DispatcherTypeOK
  <2>3. CASE ~ ShouldRetry(x, o)
    BY <2>1, <2>3, ConcludeType DEF Answer, TypeOK, DispatcherTypeOK
  <2> QED BY <2>2, <2>3
<1> QED BY <1>1, <1>2, <1>3, <1>4 DEF SendStep

\* Every handler keeps the types.
LEMMA TypeStep == TypeOK /\ [Next]_vars => TypeOK'
<1> SUFFICES ASSUME TypeOK, [Next]_vars PROVE TypeOK'
  OBVIOUS
<1>1. ASSUME NEW S \in SUBSET Subs, SetSubscriptions(S) PROVE TypeOK'
  BY <1>1 DEF SetSubscriptions, TypeOK, DispatcherTypeOK, dispatcherVars
<1>2. ASSUME NEW e \in Events, Reject(e) PROVE TypeOK'
  BY <1>2 DEF Reject, TypeOK, DispatcherTypeOK, dispatcherVars, Stages, Responses
<1>3. ASSUME NEW e \in Events, Receive(e) PROVE TypeOK'
  <2>1. err' \in [Sends -> BOOLEAN]
    <3>1. err' = [x \in Sends |-> IF x \in {e} \X subscriptions THEN ~ cfg(x).url ELSE err[x]]
      BY <1>3 DEF Receive, SendMessage
    <3>2. err \in [Sends -> BOOLEAN]
      BY DEF TypeOK, DispatcherTypeOK
    <3>3. \A x \in Sends : (~ cfg(x).url) \in BOOLEAN /\ err[x] \in BOOLEAN
      BY <3>2
    <3>4. \A x \in Sends :
            (IF x \in {e} \X subscriptions THEN ~ cfg(x).url ELSE err[x]) \in BOOLEAN
      BY <3>3, Zenon
    <3> QED BY <3>1, <3>4
  <2>2. at' \in [Sends -> Targets \union {"idle", "returned", "panicked", "dead"}]
    BY <1>3 DEF Receive, SendMessage, TypeOK, DispatcherTypeOK
  <2>3. /\ snapshot' \in [Events -> SUBSET Subs]
        /\ stage' \in [Events -> Stages]
        /\ response' \in [Events -> Responses]
    BY <1>3 DEF Receive, TypeOK, Stages, Responses
  <2> QED
    BY <1>3, <2>1, <2>2, <2>3 DEF Receive, TypeOK, DispatcherTypeOK
<1>4. ASSUME NEW e \in Events, NEW s \in Subs, Collect(e, s) PROVE TypeOK'
  BY <1>4, ZenonT(30) DEF Collect, Return, TypeOK, DispatcherTypeOK, Stages, Responses
<1>5. ASSUME NEW e \in Events, Timeout(e) PROVE TypeOK'
  BY <1>5 DEF Timeout, Return, TypeOK, DispatcherTypeOK, Stages, Responses
<1>6. ASSUME NEW e \in Events, Disconnect(e) PROVE TypeOK'
  BY <1>6 DEF Disconnect, TypeOK, DispatcherTypeOK, fanoutVars
<1>7. ASSUME NEW x \in Sends, Deliver(x) PROVE TypeOK'
  BY <1>7, SendStepType DEF Deliver, TypeOK, fanoutVars
<1>8. CASE Restart
  BY <1>8, MaxRestartsAssumption DEF Restart, TypeOK, DispatcherTypeOK, Stages, Responses
<1>9. CASE UNCHANGED vars
  BY <1>9 DEF vars, dispatcherVars, fanoutVars, TypeOK, DispatcherTypeOK
<1> QED
  BY <1>1, <1>2, <1>3, <1>4, <1>5, <1>6, <1>7, <1>8, <1>9 DEF Next

-----------------------------------------------------------------------------
(***************************************************************************)
(* The inductive invariant.                                                *)
(***************************************************************************)

\* The invariant holds when the process starts for the first time.
LEMMA InitInv == Init => IInv
<1> SUFFICES ASSUME Init PROVE IInv
  OBVIOUS
<1>1. TypeOK
  BY TypeInit
<1>2. ASSUME NEW x \in Sends PROVE SendInv(x)
  BY SendPair DEF Init, DispatcherInit, SendInv, HandedOver
<1>3. ASSUME NEW e \in Events PROVE RequestInv(e)
  BY PairSend DEF Init, DispatcherInit, RequestInv
<1> QED BY <1>1, <1>2, <1>3 DEF IInv

\* A send whose own state does not change keeps its invariant; the context of
\* its event may be cancelled meanwhile, never revived.
LEMMA SendFrame ==
  ASSUME NEW x \in Sends, SendInv(x),
         at'[x] = at[x], inflight'[x] = inflight[x], attempt'[x] = attempt[x],
         answer'[x] = answer[x], tried'[x] = tried[x], err'[x] = err[x],
         ctxDone[x[1]] => ctxDone'[x[1]]
  PROVE  SendInv(x)'
<1>1. HandedOver(x)' <=> HandedOver(x)
  BY DEF HandedOver, cfg
<1>2. ExhaustedOrRefused(x)' <=> ExhaustedOrRefused(x)
  BY DEF ExhaustedOrRefused, FailedTargets, cfg
<1> QED
  BY <1>1, <1>2 DEF SendInv, cfg

\* The same for a send that a crash ends.
LEMMA SendDies ==
  ASSUME NEW x \in Sends, SendInv(x), Live(x) \/ at[x] = "panicked",
         at'[x] = "dead",
         answer'[x] = answer[x], tried'[x] = tried[x]
  PROVE  SendInv(x)'
<1>1. HandedOver(x)' <=> HandedOver(x)
  BY DEF HandedOver, cfg
<1>2. ExhaustedOrRefused(x)' <=> ExhaustedOrRefused(x)
  BY DEF ExhaustedOrRefused, FailedTargets, cfg
<1>3. ~ HandedOver(x)
  BY DEF SendInv, Live
<1> QED
  BY <1>1, <1>2, <1>3 DEF SendInv

\* executeRequest concluding on an answer keeps the invariant, as long as a
\* transient failure is concluded on only after the last retry or under a
\* cancelled context.
LEMMA ConcludeInv ==
  ASSUME TypeOK, NEW x \in Sends, SendInv(x), Live(x),
         NEW o \in Answers, NEW long \in BOOLEAN,
         Conclude(x, o, long),
         tried' = tried, ctxDone' = ctxDone, inflight'[x] = FALSE,
         \/ o # "transient"
         \/ ctxDone[x[1]]
         \/ inflight[x] /\ attempt[x] >= cfg(x).retries
  PROVE  SendInv(x)'
<1> DEFINE h == at[x]
           n == NextTarget(cfg(x), h, o, long)
<1>1. /\ at'[x] = n
      /\ attempt'[x] = 0
      /\ err'[x] = (n = "returned" /\ o \in Failures)
      /\ answer'[x][h] = o
      /\ \A k \in Targets : k # h => answer'[x][k] = answer[x][k]
      /\ tried'[x] = tried[x]
  BY DEF Conclude, TypeOK, DispatcherTypeOK, Live
<1>2. cfg(x)' = cfg(x) /\ cfg(x).retries \in Nat /\ cfg(x).reply \in BOOLEAN /\ cfg(x).dls \in BOOLEAN
  BY CfgType DEF cfg
<1>3. tried[x] \in [Targets -> Nat] /\ attempt[x] \in Nat /\ inflight[x] \in BOOLEAN
  BY DEF TypeOK, DispatcherTypeOK
<1>4. HandedOver(x)' <=> (n = "returned" /\ o \in Taken)
  <2>1. CASE h = "destination"
    BY <1>1, <1>2, <2>1 DEF HandedOver, SendInv, NextTarget, dispatchExecutionInfoTransformers
  <2>2. CASE h = "reply"
    BY <1>1, <1>2, <2>2 DEF HandedOver, SendInv, NextTarget, dispatchExecutionInfoTransformers
  <2>3. CASE h = "deadLetter"
    <3>1. ~ HandedOver(x)
      BY <2>3 DEF SendInv
    <3> QED BY <1>1, <1>2, <2>3, <3>1 DEF HandedOver, NextTarget, dispatchExecutionInfoTransformers
  <2> QED BY <2>1, <2>2, <2>3 DEF Live
<1>5. h # "deadLetter" /\ o \in Failures => ExhaustedOrRefused(x)' \/ ctxDone'[x[1]]
  <2> SUFFICES ASSUME h # "deadLetter", o \in Failures, ~ ctxDone'[x[1]]
               PROVE  ExhaustedOrRefused(x)'
    OBVIOUS
  <2>1. h \in {"destination", "reply"}
    BY DEF Live
  <2>2. h \in FailedTargets(x)'
    BY <1>1, <2>1 DEF FailedTargets
  <2>3. answer'[x][h] = "refused" \/ tried'[x][h] = cfg(x).retries + 1
    BY <1>1, <1>2, <1>3, <2>1 DEF SendInv
  <2> QED BY <1>2, <2>2, <2>3 DEF ExhaustedOrRefused
<1>6. ExhaustedOrRefused(x) /\ h = "deadLetter" => ExhaustedOrRefused(x)'
  BY <1>1, <1>2 DEF ExhaustedOrRefused, FailedTargets
<1>7. n \in {"reply", "deadLetter", "panicked", "returned"}
  BY DEF NextTarget, dispatchExecutionInfoTransformers
<1>8. n = "reply" => h = "destination" /\ o = "event" /\ cfg(x).reply
  BY DEF NextTarget, dispatchExecutionInfoTransformers
<1>9. n = "deadLetter" => h # "deadLetter" /\ o \in Failures
  BY DEF NextTarget, dispatchExecutionInfoTransformers
<1>10. n = "reply" =>
         /\ answer'[x]["destination"] = "event" /\ answer'[x]["reply"] = "none"
         /\ tried'[x]["reply"] = 0
         /\ tried'[x]["deadLetter"] = 0 /\ answer'[x]["deadLetter"] = "none"
  BY <1>1, <1>8 DEF SendInv
<1>11. tried'[x]["deadLetter"] > 0 => ExhaustedOrRefused(x)'
  <2> SUFFICES ASSUME tried'[x]["deadLetter"] > 0 PROVE ExhaustedOrRefused(x)'
    OBVIOUS
  <2>1. h = "deadLetter"
    BY <1>1, <1>3 DEF SendInv, Live
  <2> QED BY <1>1, <1>6, <2>1 DEF SendInv
<1>12. n = "returned" => (err'[x] <=> ~ HandedOver(x)')
  BY <1>1, <1>4, Zenon
<1>13. n # "returned" => ~ HandedOver(x)'
  BY <1>4
<1>14. n \in {"destination", "reply"} =>
         /\ tried'[x][n] = attempt'[x] + (IF inflight'[x] THEN 1 ELSE 0)
         /\ attempt'[x] <= cfg(x)'.retries
  BY <1>1, <1>2, <1>3, <1>7, <1>10
<1>15. n = "deadLetter" => ExhaustedOrRefused(x)' \/ ctxDone'[x[1]]
  BY <1>5, <1>9
<1> HIDE DEF n, h
<1> QED
  BY <1>1, <1>2, <1>7, <1>8, <1>10, <1>11, <1>12, <1>13, <1>14, <1>15 DEF SendInv

\* What a step of send x changes: only x's own state; x was running before,
\* and it is not idle afterwards.
LEMMA SendStepFrame ==
  ASSUME TypeOK, NEW x \in Sends, SendStep(x)
  PROVE  /\ Live(x) /\ at'[x] # "idle"
         /\ \A y \in Sends \ {x} :
              /\ at'[y] = at[y] /\ inflight'[y] = inflight[y] /\ attempt'[y] = attempt[y]
              /\ answer'[y] = answer[y] /\ tried'[y] = tried[y] /\ err'[y] = err[y]
         /\ ctxDone' = ctxDone
<1>1. ASSUME NEW o \in Answers, NEW long \in BOOLEAN, Live(x), Conclude(x, o, long)
      PROVE  /\ at'[x] # "idle"
             /\ \A y \in Sends \ {x} :
                  /\ at'[y] = at[y] /\ attempt'[y] = attempt[y]
                  /\ answer'[y] = answer[y] /\ err'[y] = err[y]
  <2>1. NextTarget(cfg(x), at[x], o, long) # "idle"
    BY DEF NextTarget, dispatchExecutionInfoTransformers
  <2> QED BY <1>1, <2>1 DEF Conclude, TypeOK, DispatcherTypeOK
<1>2. CASE CreateRequestFails(x)
  BY <1>1, <1>2, Zenon DEF CreateRequestFails
<1>3. CASE Do(x)
  BY <1>3 DEF Do, TypeOK, DispatcherTypeOK, Live
<1>4. CASE DoCancelled(x)
  BY <1>1, <1>4, Zenon DEF DoCancelled
<1>5. CASE AnswerAny(x)
  <2>1. PICK o \in Answers, long \in BOOLEAN : Answer(x, o, long)
    BY <1>5 DEF AnswerAny
  <2>2. CASE ShouldRetry(x, o)
    BY <2>1, <2>2 DEF Answer, TypeOK, DispatcherTypeOK, Live
  <2>3. CASE ~ ShouldRetry(x, o)
    BY <1>1, <2>1, <2>3 DEF Answer, TypeOK, DispatcherTypeOK
  <2> QED BY <2>2, <2>3
<1> QED BY <1>2, <1>3, <1>4, <1>5 DEF SendStep

\* A goroutine's step keeps what the invariant says of its own send.
LEMMA SendStepInv ==
  ASSUME TypeOK, NEW x \in Sends, SendInv(x), SendStep(x)
  PROVE  SendInv(x)'
<1>0. /\ at[x] \in Targets => at[x] # "idle"
      /\ tried[x] \in [Targets -> Nat] /\ attempt[x] \in Nat /\ inflight[x] \in BOOLEAN
      /\ cfg(x)' = cfg(x) /\ cfg(x).retries \in Nat
  BY CfgType DEF TypeOK, DispatcherTypeOK, cfg
<1>1. CASE CreateRequestFails(x)
  <2>1. Live(x) /\ Conclude(x, "refused", FALSE) /\ tried' = tried /\ ctxDone' = ctxDone
    BY <1>1, Zenon DEF CreateRequestFails
  <2>2. inflight'[x] = FALSE
    BY <1>0, <1>1, SMTT(30) DEF CreateRequestFails
  <2> QED BY <2>1, <2>2, ConcludeInv, Zenon
<1>2. CASE Do(x)
  <2>1. /\ at'[x] = at[x] /\ attempt'[x] = attempt[x] /\ answer'[x] = answer[x]
        /\ err'[x] = err[x] /\ ctxDone' = ctxDone /\ inflight'[x] = TRUE /\ ~ inflight[x]
        /\ at[x] \in Targets /\ ~ ctxDone[x[1]]
        /\ tried'[x] = [tried[x] EXCEPT ![at[x]] = @ + 1]
    BY <1>2 DEF Do, TypeOK, DispatcherTypeOK, Live
  <2>2. HandedOver(x)' <=> HandedOver(x)
    BY <2>1 DEF HandedOver, cfg
  <2>3. at[x] = "deadLetter" => ExhaustedOrRefused(x)'
    <3> SUFFICES ASSUME at[x] = "deadLetter" PROVE ExhaustedOrRefused(x)'
      OBVIOUS
    <3>1. ExhaustedOrRefused(x)
      BY <2>1 DEF SendInv
    <3>2. \A h \in {"destination", "reply"} : tried'[x][h] = tried[x][h]
      BY <1>0, <2>1
    <3> QED BY <1>0, <2>1, <3>1, <3>2 DEF ExhaustedOrRefused, FailedTargets
  <2>4. at[x] \in {"destination", "reply"} =>
          tried'[x][at[x]] = attempt'[x] + (IF inflight'[x] THEN 1 ELSE 0)
    BY <1>0, <2>1 DEF SendInv
  <2>5. at[x] # "deadLetter" => tried'[x]["deadLetter"] = tried[x]["deadLetter"]
    BY <1>0, <2>1
  <2>6. at[x] # "reply" => tried'[x]["reply"] = tried[x]["reply"]
    BY <1>0, <2>1
  <2> QED BY <1>0, <2>1, <2>2, <2>3, <2>4, <2>5, <2>6 DEF SendInv
<1>3. CASE DoCancelled(x)
  <2>1. /\ Live(x) /\ Conclude(x, "transient", FALSE) /\ tried' = tried
        /\ ctxDone' = ctxDone /\ ctxDone[x[1]]
    BY <1>3, Zenon DEF DoCancelled
  <2>2. inflight'[x] = FALSE
    BY <1>0, <1>3 DEF DoCancelled
  <2> QED BY <2>1, <2>2, ConcludeInv, Zenon
<1>4. CASE AnswerAny(x)
  <2>1. PICK o \in Answers, long \in BOOLEAN : Answer(x, o, long)
    BY <1>4, SMTT(30) DEF AnswerAny
  <2>2. CASE ShouldRetry(x, o)
    <3>1. /\ at'[x] = at[x] /\ attempt'[x] = attempt[x] + 1 /\ answer'[x] = answer[x]
          /\ err'[x] = err[x] /\ ctxDone' = ctxDone /\ inflight'[x] = FALSE /\ inflight[x]
          /\ tried'[x] = tried[x] /\ attempt[x] < cfg(x).retries /\ at[x] \in Targets
      BY <2>1, <2>2 DEF Answer, ShouldRetry, TypeOK, DispatcherTypeOK, Live
    <3>2. HandedOver(x)' <=> HandedOver(x)
      BY <3>1 DEF HandedOver, cfg
    <3>3. ExhaustedOrRefused(x)' <=> ExhaustedOrRefused(x)
      BY <3>1 DEF ExhaustedOrRefused, FailedTargets, cfg
    <3> QED BY <1>0, <3>1, <3>2, <3>3 DEF SendInv
  <2>3. CASE ~ ShouldRetry(x, o)
    <3>1. /\ Live(x) /\ inflight[x] /\ inflight'[x] = FALSE /\ tried' = tried
          /\ ctxDone' = ctxDone /\ Conclude(x, o, long)
      BY <2>1, <2>3 DEF Answer, TypeOK, DispatcherTypeOK
    <3>2. \/ o # "transient"
          \/ ctxDone[x[1]]
          \/ attempt[x] >= cfg(x).retries
      BY <1>0, <2>3 DEF ShouldRetry, SelectiveRetry
    <3> QED BY <3>1, <3>2, ConcludeInv, Zenon
  <2> QED BY <2>2, <2>3
<1> QED BY <1>1, <1>2, <1>3, <1>4 DEF SendStep

-----------------------------------------------------------------------------

\* A goroutine's step keeps the invariant.
LEMMA DeliverInv ==
  ASSUME IInv, NEW x \in Sends, Deliver(x)
  PROVE  IInv'
<1>1. TypeOK /\ TypeOK' /\ SendStep(x) /\ UNCHANGED <<fanoutVars, restarts>>
  BY TypeStep DEF IInv, Deliver, Next
<1>2. ASSUME NEW y \in Sends PROVE SendInv(y)'
  <2>1. CASE y = x
    BY <1>1, <2>1, SendStepInv DEF IInv
  <2>2. CASE y # x
    BY <1>1, <2>2, SendStepFrame, SendFrame, SMTT(30) DEF IInv
  <2> QED BY <2>1, <2>2
<1>3. ASSUME NEW e \in Events PROVE RequestInv(e)'
  <2>1. \A s \in Subs : /\ (at'[<<e, s>>] = "idle") <=> (at[<<e, s>>] = "idle")
                        /\ at[<<e, s>>] = "returned" =>
                             at'[<<e, s>>] = "returned" /\ err'[<<e, s>>] = err[<<e, s>>]
    BY <1>1, SendStepFrame, PairSend DEF Live
  <2> QED BY <1>1, <2>1 DEF IInv, RequestInv, fanoutVars, TypeOK
<1> QED BY <1>1, <1>2, <1>3 DEF IInv

\* A step that leaves every send alone, but for cancelled contexts.
LEMMA AllSendsFrame ==
  ASSUME IInv, UNCHANGED <<at, inflight, attempt, answer, tried, err>>,
         \A e \in Events : ctxDone[e] => ctxDone'[e]
  PROVE  \A x \in Sends : SendInv(x)'
BY SendFrame, SendPair DEF IInv

\* Taking an event in and starting its goroutines keeps the invariant.
LEMMA ReceiveInv ==
  ASSUME IInv, NEW e \in Events, Receive(e)
  PROVE  IInv'
<1>1. TypeOK /\ TypeOK'
  BY TypeStep DEF IInv, Next
<1>2. /\ stage[e] = "new" /\ snapshot[e] = {} /\ collected[e] = {} /\ response[e] = "none"
      /\ \A s \in Subs : at[<<e, s>>] = "idle"
  BY DEF IInv, RequestInv, Receive
<1>3. ASSUME NEW x \in Sends PROVE SendInv(x)'
  <2>1. /\ inflight' = inflight /\ attempt' = attempt /\ answer' = answer
        /\ tried' = tried /\ ctxDone' = ctxDone
    BY DEF Receive
  <2>2. CASE x \notin {e} \X subscriptions
    <3>1. at'[x] = at[x] /\ err'[x] = err[x]
      BY <2>2, SMTT(30) DEF Receive, SendMessage
    <3> QED BY <2>1, <3>1, SendFrame DEF IInv
  <2>3. CASE x \in {e} \X subscriptions
    <3>1. at[x] = "idle" /\ SendInv(x) /\ cfg(x)' = cfg(x) /\ cfg(x).retries \in Nat
      BY <1>2, <2>3, SendPair, CfgType DEF IInv, cfg
    <3>2. HandedOver(x)' <=> HandedOver(x)
      BY <2>1 DEF HandedOver, cfg
    <3>3. /\ at'[x] = IF cfg(x).url THEN "destination" ELSE "returned"
          /\ err'[x] <=> ~ cfg(x).url
      BY <2>3, Zenon DEF Receive, SendMessage
    <3>4. ~ HandedOver(x)
      BY <3>1 DEF SendInv
    <3> QED BY <2>1, <3>1, <3>2, <3>3, <3>4 DEF SendInv
  <2> QED BY <2>2, <2>3
<1>4. ASSUME NEW f \in Events PROVE RequestInv(f)'
  <2>1. CASE f = e
    <3>1. snapshot'[e] = subscriptions /\ collected'[e] = {} /\ subscriptions \subseteq Subs
      BY <1>1, <1>2 DEF Receive, TypeOK
    <3>2. \A s \in Subs : s \in subscriptions <=> at'[<<e, s>>] # "idle"
      BY <1>2, <3>1, PairSend DEF Receive, SendMessage
    <3>3. /\ stage'[e] = IF subscriptions = {} THEN "done" ELSE "dispatching"
          /\ response'[e] = IF subscriptions = {} \/ Async THEN "accepted" ELSE "none"
          /\ fanoutErr'[e] = fanoutErr[e]
      BY <1>1, <1>2 DEF Receive, TypeOK
    <3>4. ~ fanoutErr[e]
      BY <1>2 DEF IInv, RequestInv, Receive
    <3> QED BY <2>1, <3>1, <3>2, <3>3, <3>4, AsyncAssumption DEF RequestInv
  <2>2. CASE f # e
    <3>1. \A s \in Subs : /\ at'[<<f, s>>] = at[<<f, s>>]
                          /\ err'[<<f, s>>] = err[<<f, s>>]
      BY <2>2, PairSend DEF Receive, SendMessage
    <3>2. /\ snapshot'[f] = snapshot[f] /\ stage'[f] = stage[f] /\ response'[f] = response[f]
          /\ collected'[f] = collected[f] /\ fanoutErr'[f] = fanoutErr[f]
      BY <1>1, <2>2 DEF Receive, TypeOK
    <3> QED BY <1>1, <3>1, <3>2 DEF IInv, RequestInv, TypeOK
  <2> QED BY <2>1, <2>2
<1> QED BY <1>1, <1>3, <1>4 DEF IInv

\* Taking a result off the results channel keeps the invariant.
LEMMA CollectInv ==
  ASSUME IInv, NEW e \in Events, NEW s \in Subs, Collect(e, s)
  PROVE  IInv'
<1>1. TypeOK /\ TypeOK'
  BY TypeStep DEF IInv, Next
<1>2. \A x \in Sends : SendInv(x)'
  <2>1. \A f \in Events : ctxDone[f] => ctxDone'[f]
    BY <1>1 DEF Collect, Return, TypeOK, DispatcherTypeOK
  <2> QED BY <2>1, AllSendsFrame DEF Collect
<1>3. ASSUME NEW f \in Events PROVE RequestInv(f)'
  <2>0. at' = at /\ err' = err /\ snapshot' = snapshot
    BY DEF Collect
  <2>1. CASE f = e
    <3>1. /\ collected'[e] = collected[e] \union {s}
          /\ s \in snapshot[e] /\ at[<<e, s>>] = "returned" /\ stage[e] = "dispatching"
          /\ fanoutErr'[e] <=> (fanoutErr[e] \/ err[<<e, s>>])
      BY <1>1 DEF Collect, Return, TypeOK
    <3>2. /\ snapshot[e] # {} /\ (response[e] = "none" <=> ~ Async)
          /\ collected[e] \subseteq snapshot[e]
      BY <3>1 DEF IInv, RequestInv
    <3>3. CASE collected'[e] = snapshot[e]
      <4>1. /\ stage'[e] = "done"
            /\ response'[e] # "none"
            /\ ~ Async => response'[e] = IF fanoutErr'[e] THEN "serverError" ELSE "accepted"
        BY <1>1, <3>1, <3>2, <3>3 DEF Collect, Return, TypeOK
      <4> QED BY <2>0, <2>1, <3>1, <3>2, <3>3, <4>1 DEF IInv, RequestInv
    <3>4. CASE collected'[e] # snapshot[e]
      <4>1. stage'[e] = "dispatching" /\ response'[e] = response[e]
        BY <3>1, <3>4 DEF Collect
      <4> QED BY <2>0, <2>1, <3>1, <3>2, <3>4, <4>1, SMTT(30) DEF IInv, RequestInv
    <3> QED BY <3>3, <3>4
  <2>2. CASE f # e
    <3>1. /\ stage'[f] = stage[f] /\ response'[f] = response[f]
          /\ collected'[f] = collected[f] /\ fanoutErr'[f] = fanoutErr[f]
      BY <1>1, <2>2 DEF Collect, Return, TypeOK
    <3> QED BY <2>0, <3>1 DEF IInv, RequestInv
  <2> QED BY <2>1, <2>2
<1> QED BY <1>1, <1>2, <1>3 DEF IInv

\* Giving up on the missing results keeps the invariant.
LEMMA TimeoutInv ==
  ASSUME IInv, NEW e \in Events, Timeout(e)
  PROVE  IInv'
<1>1. TypeOK /\ TypeOK'
  BY TypeStep DEF IInv, Next
<1>2. \A x \in Sends : SendInv(x)'
  <2>1. \A f \in Events : ctxDone[f] => ctxDone'[f]
    BY <1>1 DEF Timeout, Return, TypeOK, DispatcherTypeOK
  <2> QED BY <2>1, AllSendsFrame DEF Timeout
<1>3. ASSUME NEW f \in Events PROVE RequestInv(f)'
  <2>0. at' = at /\ err' = err /\ snapshot' = snapshot /\ collected' = collected
    BY DEF Timeout
  <2>1. CASE f = e
    <3>1. /\ stage[e] = "dispatching" /\ stage'[e] = "done" /\ fanoutErr'[e] = TRUE
          /\ response'[e] = IF response[e] # "none" THEN response[e] ELSE "serverError"
      BY <1>1 DEF Timeout, Return, TypeOK
    <3> QED BY <2>0, <2>1, <3>1 DEF IInv, RequestInv
  <2>2. CASE f # e
    <3>1. /\ stage'[f] = stage[f] /\ response'[f] = response[f]
          /\ fanoutErr'[f] = fanoutErr[f]
      BY <1>1, <2>2 DEF Timeout, Return, TypeOK
    <3> QED BY <2>0, <3>1 DEF IInv, RequestInv
  <2> QED BY <2>1, <2>2
<1> QED BY <1>1, <1>2, <1>3 DEF IInv

\* A crash and a restart keep the invariant.
LEMMA RestartInv ==
  ASSUME IInv, Restart
  PROVE  IInv'
<1>1. TypeOK /\ TypeOK'
  BY TypeStep DEF IInv, Next
<1>2. ASSUME NEW x \in Sends PROVE SendInv(x)'
  <2>0. /\ attempt' = attempt /\ answer' = answer /\ tried' = tried /\ err' = err
        /\ ctxDone' = ctxDone /\ inflight'[x] = FALSE /\ SendInv(x)
    BY SMTT(30) DEF Restart, IInv
  <2>1. CASE Live(x) \/ at[x] = "panicked"
    <3>1. at'[x] = "dead"
      BY <2>1, SMTT(30) DEF Restart
    <3> QED BY <2>0, <2>1, <3>1, SendDies
  <2>2. CASE ~ (Live(x) \/ at[x] = "panicked")
    <3>1. at'[x] = at[x]
      BY <2>2 DEF Restart
    <3>2. HandedOver(x)' <=> HandedOver(x)
      BY <2>0 DEF HandedOver, cfg
    <3>3. ExhaustedOrRefused(x)' <=> ExhaustedOrRefused(x)
      BY <2>0 DEF ExhaustedOrRefused, FailedTargets, cfg
    <3> QED BY <2>0, <2>2, <3>1, <3>2, <3>3 DEF SendInv, Live
  <2> QED BY <2>1, <2>2, SMTT(30)
<1>3. ASSUME NEW f \in Events PROVE RequestInv(f)'
  <2>1. /\ snapshot' = snapshot /\ collected' = collected /\ fanoutErr' = fanoutErr
        /\ err' = err
        /\ stage'[f] = IF stage[f] = "dispatching" THEN "done" ELSE stage[f]
        /\ response'[f] = IF stage[f] = "dispatching" /\ response[f] = "none"
                          THEN "reset" ELSE response[f]
    BY DEF Restart
  <2>2. \A s \in Subs : /\ (at'[<<f, s>>] = "idle") <=> (at[<<f, s>>] = "idle")
                        /\ at[<<f, s>>] = "returned" => at'[<<f, s>>] = "returned"
    BY PairSend DEF Restart, Live
  <2> QED BY <1>1, <2>1, <2>2 DEF IInv, RequestInv, TypeOK, Stages
<1> QED BY <1>1, <1>2, <1>3 DEF IInv

\* Every step keeps the invariant.
LEMMA NextInv == IInv /\ [Next]_vars => IInv'
<1> SUFFICES ASSUME IInv, [Next]_vars PROVE IInv'
  OBVIOUS
<1>0. TypeOK /\ TypeOK'
  BY TypeStep, SMTT(30) DEF IInv
<1>1. ASSUME NEW S \in SUBSET Subs, SetSubscriptions(S) PROVE IInv'
  BY <1>0, <1>1, AllSendsFrame DEF SetSubscriptions, dispatcherVars, IInv, RequestInv
<1>2. ASSUME NEW e \in Events, Reject(e) PROVE IInv'
  <2>1. \A x \in Sends : SendInv(x)'
    BY <1>2, AllSendsFrame DEF Reject, dispatcherVars
  <2>2. ASSUME NEW f \in Events PROVE RequestInv(f)'
    BY <1>0, <1>2 DEF Reject, dispatcherVars, IInv, RequestInv, TypeOK
  <2> QED BY <1>0, <2>1, <2>2 DEF IInv
<1>3. ASSUME NEW e \in Events, Receive(e)
      PROVE  IInv'
  BY <1>3, ReceiveInv
<1>4. ASSUME NEW e \in Events, NEW s \in Subs, Collect(e, s) PROVE IInv'
  BY <1>4, CollectInv
<1>5. ASSUME NEW e \in Events, Timeout(e) PROVE IInv'
  BY <1>5, TimeoutInv, SMTT(30)
<1>6. ASSUME NEW e \in Events, Disconnect(e) PROVE IInv'
  <2>1. \A f \in Events : ctxDone[f] => ctxDone'[f]
    BY <1>0, <1>6 DEF Disconnect, TypeOK, DispatcherTypeOK
  <2>2. \A x \in Sends : SendInv(x)'
    BY <1>6, <2>1, AllSendsFrame DEF Disconnect
  <2> QED BY <1>0, <1>6, <2>2 DEF Disconnect, fanoutVars, IInv, RequestInv
<1>7. ASSUME NEW x \in Sends, Deliver(x) PROVE IInv'
  BY <1>7, DeliverInv
<1>8. CASE Restart
  BY <1>8, RestartInv
<1>9. CASE UNCHANGED vars
  <2>1. \A x \in Sends : SendInv(x)'
    BY <1>9, AllSendsFrame DEF vars, dispatcherVars
  <2> QED BY <1>0, <1>9, <2>1 DEF vars, dispatcherVars, fanoutVars, IInv, RequestInv
<1> QED
  BY <1>1, <1>2, <1>3, <1>4, <1>5, <1>6, <1>7, <1>8, <1>9 DEF Next

-----------------------------------------------------------------------------

\* Every reachable state of the handler satisfies the inductive invariant:
\* the bookkeeping of dispatch and of each goroutine's send agree.
THEOREM FanoutInvariant == Spec => []IInv
BY InitInv, NextInv, PTL DEF Spec

\* The state of the handler and of the dispatcher keeps its type.
THEOREM FanoutTypeCorrect == Spec => []TypeOK
<1>1. IInv => TypeOK
  BY DEF IInv
<1> QED BY <1>1, FanoutInvariant, PTL

\* A synchronous channel answers 202 only when the event has been handed over
\* for every subscription of the snapshot, whatever failed, timed out, was
\* cancelled or crashed on the way.
THEOREM AcceptedMeansHandedOver == Spec => []AcceptedIsHandedOver
<1>1. IInv => AcceptedIsHandedOver
  <2> SUFFICES ASSUME IInv, ~ Async, NEW e \in Events, response[e] = "accepted",
                      NEW s \in snapshot[e]
               PROVE  HandedOver(<<e, s>>)
    BY DEF AcceptedIsHandedOver
  <2>1. s \in Subs
    BY SMTT(30) DEF IInv, TypeOK
  <2>2. at[<<e, s>>] = "returned" /\ ~ err[<<e, s>>]
    BY DEF IInv, RequestInv
  <2> QED BY <2>1, <2>2, PairSend DEF IInv, SendInv
<1> QED BY <1>1, FanoutInvariant, PTL

\* The dead letter sink sees an event only after another target refused it or
\* failed as often as the retry configuration allows.
THEOREM DeadLetterLast == Spec => []DeadLetterIsLastResort
<1>1. IInv => DeadLetterIsLastResort
  BY DEF IInv, SendInv, DeadLetterIsLastResort
<1> QED BY <1>1, FanoutInvariant, PTL

-----------------------------------------------------------------------------
(***************************************************************************)
(* Fanout implements DeliveryContract.                                     *)
(***************************************************************************)

fateBar == [e \in Events |-> [s \in Subs |-> fateOf(e, s)]]

\* A delivery's fate depends on the snapshot and on its own send only.
LEMMA FateFrame ==
  ASSUME NEW e \in Events, NEW s \in Subs,
         snapshot'[e] = snapshot[e],
         at'[<<e, s>>] = at[<<e, s>>], answer'[<<e, s>>] = answer[<<e, s>>]
  PROVE  fateOf(e, s)' = fateOf(e, s)
BY DEF fateOf, HandedOver, Live, cfg

\* A step that changes neither sends nor snapshots changes no fate.
LEMMA FateUnchanged ==
  ASSUME UNCHANGED <<at, answer, snapshot>>
  PROVE  fateBar' = fateBar
<1>1. \A e \in Events, s \in Subs : fateOf(e, s)' = fateOf(e, s)
  BY FateFrame, SMTT(30)
<1> QED BY <1>1 DEF fateBar

\* Under the invariant a fate is determined by where the send is.
LEMMA FateCases ==
  ASSUME IInv, NEW e \in Events, NEW s \in Subs
  PROVE  LET x == <<e, s>>
         IN /\ (fateOf(e, s) = "none") <=> at[x] = "idle"
            /\ (fateOf(e, s) = "owed") <=> (Live(x) \/ at[x] = "panicked")
            /\ (fateOf(e, s) = "handedOver") <=> (at[x] = "returned" /\ ~ err[x])
            /\ (fateOf(e, s) = "failed") <=> ((at[x] = "returned" /\ err[x]) \/ at[x] = "dead")
            /\ fateOf(e, s) \in {"none", "owed", "handedOver", "failed"}
<1> DEFINE x == <<e, s>>
<1>1. x \in Sends
  BY PairSend, SMTT(30)
<1>2. /\ s \in snapshot[e] <=> at[x] # "idle"
      /\ at[x] # "returned" => ~ HandedOver(x)
      /\ at[x] = "returned" => (err[x] <=> ~ HandedOver(x))
      /\ at[x] \in Targets \union {"idle", "returned", "panicked", "dead"}
  BY <1>1 DEF IInv, RequestInv, SendInv, TypeOK, DispatcherTypeOK
<1> QED BY <1>2 DEF fateOf, Live

\* The initial state of Fanout is one of the contract.
LEMMA InitRefines == Init => Contract!Init
<1> SUFFICES ASSUME Init PROVE Contract!Init
  BY SMTT(30)
<1>1. \A e \in Events, s \in Subs : fateOf(e, s) = "none"
  BY SMTT(30) DEF Init, fateOf
<1> QED BY <1>1 DEF Init, Contract!Init

\* Taking an event in is the contract's TakeIn.
LEMMA ReceiveRefines ==
  ASSUME IInv, NEW e \in Events, Receive(e), IInv'
  PROVE  Contract!TakeIn(e, subscriptions, {s \in subscriptions : ~ cfg(<<e, s>>).url})
<1> DEFINE F == {s \in subscriptions : ~ cfg(<<e, s>>).url}
<1>1. subscriptions \subseteq Subs /\ response \in [Events -> Responses]
  BY SMTT(30) DEF IInv, TypeOK
<1>2. /\ response[e] = "none" /\ stage[e] = "new"
      /\ \A s \in Subs : at[<<e, s>>] = "idle"
  BY ZenonT(30) DEF IInv, RequestInv, Receive
<1>3. \A s \in Subs : fateOf(e, s) = "none"
  BY <1>2, FateCases, Zenon
<1>4. ASSUME NEW s \in Subs
      PROVE  fateOf(e, s)' = IF s \in F THEN "failed"
                             ELSE IF s \in subscriptions THEN "owed" ELSE "none"
  <2> DEFINE x == <<e, s>>
  <2>1. x \in Sends
    BY PairSend
  <2>2. /\ at'[x] = IF s \notin subscriptions THEN "idle"
                    ELSE IF s \in F THEN "returned" ELSE "destination"
        /\ s \in F => err'[x]
    BY <1>2, <2>1, ZenonT(30) DEF Receive, SendMessage
  <2>3. /\ (s \in snapshot[e])' <=> at'[x] # "idle"
        /\ at'[x] # "returned" => ~ HandedOver(x)'
        /\ at'[x] = "returned" => (err'[x] <=> ~ HandedOver(x)')
    BY <2>1, ZenonT(30) DEF IInv, RequestInv, SendInv
  <2> QED BY <2>2, <2>3 DEF fateOf, Live
<1>5. ASSUME NEW f \in Events, f # e, NEW s \in Subs
      PROVE  fateOf(f, s)' = fateOf(f, s)
  <2>1. <<f, s>> \in Sends /\ <<f, s>> \notin {e} \X subscriptions
    BY <1>5, PairSend, SMTT(30)
  <2>2. at'[<<f, s>>] = at[<<f, s>>] /\ answer' = answer
    BY <2>1, ZenonT(30) DEF Receive, SendMessage
  <2>3. snapshot'[f] = snapshot[f]
    BY <1>5 DEF Receive, IInv, TypeOK
  <2> QED BY <2>2, <2>3, FateFrame
<1>6. fateBar' = [fateBar EXCEPT ![e] = [s \in Subs |->
                    IF s \in F THEN "failed" ELSE IF s \in subscriptions THEN "owed" ELSE "none"]]
  BY <1>4, <1>5, Zenon DEF fateBar
<1>7. response' = IF Async \/ subscriptions = {}
                  THEN [response EXCEPT ![e] = "accepted"] ELSE response
  BY <1>1, <1>2, Zenon DEF Receive
<1> QED
  BY <1>2, <1>3, <1>6, <1>7 DEF Contract!TakeIn, Contract!Untouched, fateBar

\* Settling a request (the end of Collect, or Timeout) maps to Accept or
\* Refuse for a synchronous handler and to nothing for an asynchronous one.
LEMMA ReturnRefines ==
  ASSUME IInv, NEW e \in Events, stage[e] = "dispatching",
         NEW b \in BOOLEAN, Return(e, b), UNCHANGED <<at, answer, snapshot>>,
         ~ b => \A s \in snapshot[e] : at[<<e, s>>] = "returned" /\ ~ err[<<e, s>>]
  PROVE  [Contract!Next]_(Contract!contractVars)
<1>1. fateBar' = fateBar
  BY FateUnchanged
<1>2. CASE response[e] # "none"
  BY <1>1, <1>2, SMTT(30) DEF Return, Contract!contractVars, fateBar
<1>3. CASE response[e] = "none" /\ b
  <2>1. Contract!Refuse(e, "serverError")
    BY <1>1, <1>3 DEF Return, Contract!Refuse, fateBar
  <2> QED BY <2>1, SMTT(30) DEF Contract!Next, Contract!Refusals
<1>4. CASE response[e] = "none" /\ ~ b
  <2>1. ~ Async
    BY <1>4, SMTT(30) DEF IInv, RequestInv
  <2>2. ASSUME NEW s \in Subs PROVE fateOf(e, s) \in {"none", "handedOver"}
    <3>1. s \in snapshot[e] <=> at[<<e, s>>] # "idle"
      BY SMTT(30) DEF IInv, RequestInv
    <3> QED BY <1>4, <3>1, FateCases, SMTT(30)
  <2>3. Contract!Accept(e)
    BY <1>1, <1>4, <2>1, <2>2 DEF Return, Contract!Accept, fateBar
  <2> QED BY <2>3 DEF Contract!Next
<1> QED BY <1>2, <1>3, <1>4

\* A goroutine's step settles its own debt or leaves it as it is.
LEMMA DeliverRefines ==
  ASSUME IInv, IInv', NEW x \in Sends, Deliver(x)
  PROVE  [Contract!Next]_(Contract!contractVars)
<1> DEFINE e == x[1]
           s == x[2]
<1>1. e \in Events /\ s \in Subs /\ x = <<e, s>>
  BY SendPair
<1>2. Live(x) /\ snapshot' = snapshot /\ response' = response
  BY ZenonT(30) DEF Deliver, SendStep, CreateRequestFails, Do, DoCancelled, AnswerAny, Answer, fanoutVars
<1>3. \A y \in Sends : y # x => at'[y] = at[y] /\ answer'[y] = answer[y]
  BY SendStepFrame DEF Deliver, IInv
<1>4. fateOf(e, s) = "owed"
  BY <1>1, <1>2, FateCases
<1>5. \A f \in Events, r \in Subs : <<f, r>> # x => fateOf(f, r)' = fateOf(f, r)
  <2> SUFFICES ASSUME NEW f \in Events, NEW r \in Subs, <<f, r>> # x
               PROVE  fateOf(f, r)' = fateOf(f, r)
    OBVIOUS
  <2>1. <<f, r>> \in Sends
    BY PairSend
  <2> QED BY <1>2, <1>3, <2>1, FateFrame
<1>6. fateOf(e, s)' \in {"owed", "handedOver", "failed"}
  <2>1. s \in snapshot'[e]
    BY <1>1, <1>2 DEF IInv, RequestInv, Live
  <2> QED BY <2>1 DEF fateOf
<1>7. CASE fateOf(e, s)' = "owed"
  <2>1. \A f \in Events, r \in Subs : fateOf(f, r)' = fateOf(f, r)
    BY <1>1, <1>4, <1>5, <1>7
  <2>2. fateBar' = fateBar
    BY <2>1 DEF fateBar
  <2> QED BY <1>2, <2>2 DEF Contract!contractVars, fateBar
<1>8. CASE fateOf(e, s)' # "owed"
  <2> DEFINE g == fateOf(e, s)'
  <2>1. g \in {"handedOver", "failed"}
    BY <1>6, <1>8
  <2>2. \A f \in Events, r \in Subs :
          fateOf(f, r)' = IF f = e /\ r = s THEN g ELSE fateOf(f, r)
    BY <1>1, <1>5
  <2>3. fateBar' = [fateBar EXCEPT ![e][s] = g]
    <3> HIDE DEF g, e, s
    <3> QED BY <1>1, <2>2, Zenon DEF fateBar
  <2>4. Contract!Settle(e, s, g)
    <3> HIDE DEF g, e, s
    <3> QED BY <1>1, <1>2, <1>4, <2>3 DEF Contract!Settle, fateBar
  <2> QED
    <3> HIDE DEF g, e, s
    <3> QED BY <1>1, <2>1, <2>4 DEF Contract!Next, Contract!Settled
<1> QED BY <1>7, <1>8

\* A restart is the contract's Forget.
LEMMA RestartRefines ==
  ASSUME IInv, Restart
  PROVE  Contract!Forget
<1>1. ASSUME NEW e \in Events, NEW s \in Subs
      PROVE  fateOf(e, s)' = IF fateOf(e, s) = "owed" THEN "failed" ELSE fateOf(e, s)
  <2> DEFINE x == <<e, s>>
  <2>1. x \in Sends
    BY PairSend
  <2>2. /\ at'[x] = IF Live(x) \/ at[x] = "panicked" THEN "dead" ELSE at[x]
        /\ answer' = answer /\ snapshot' = snapshot
    BY <2>1 DEF Restart
  <2>3. HandedOver(x)' = HandedOver(x)
    BY <2>2, SMTT(30) DEF HandedOver, cfg
  <2>4. at[x] # "returned" => ~ HandedOver(x)
    BY <2>1, SMTT(30) DEF IInv, SendInv
  <2> QED BY <2>2, <2>3, <2>4 DEF fateOf, Live
<1>2. ASSUME NEW e \in Events
      PROVE  response'[e] = IF response[e] = "none" /\ ~ \A s \in Subs : fateOf(e, s) = "none"
                            THEN "reset" ELSE response[e]
  <2>1. response'[e] = IF stage[e] = "dispatching" /\ response[e] = "none"
                       THEN "reset" ELSE response[e]
    BY DEF Restart
  <2>2. /\ stage[e] \in {"new", "dispatching", "done"}
        /\ snapshot[e] \subseteq Subs
        /\ stage[e] = "new" => snapshot[e] = {}
        /\ stage[e] = "dispatching" => snapshot[e] # {}
        /\ stage[e] = "done" => response[e] # "none"
    BY DEF IInv, TypeOK, RequestInv, Stages
  <2>3. \A s \in Subs : fateOf(e, s) = "none" <=> s \notin snapshot[e]
    BY DEF fateOf
  <2> QED BY <2>1, <2>2, <2>3
<1>3. response' = [e \in Events |-> response'[e]]
  BY DEF Restart
<1>4. fateBar' = [e \in Events |-> [s \in Subs |->
                    IF fateBar[e][s] = "owed" THEN "failed" ELSE fateBar[e][s]]]
  BY <1>1 DEF fateBar
<1>5. \A e \in Events : Contract!Untouched(e) <=>
         response[e] = "none" /\ \A s \in Subs : fateOf(e, s) = "none"
  BY DEF Contract!Untouched
<1>6. response' = [e \in Events |->
                     IF response[e] = "none" /\ ~ Contract!Untouched(e)
                     THEN "reset" ELSE response[e]]
  BY <1>2, <1>3, <1>5
<1> QED BY <1>4, <1>6 DEF Contract!Forget, fateBar

\* Every step of Fanout is a step of the contract or leaves it unchanged.
LEMMA StepRefines ==
  IInv /\ IInv' /\ [Next]_vars => [Contract!Next]_(Contract!contractVars)
<1> SUFFICES ASSUME IInv, IInv', [Next]_vars
             PROVE  [Contract!Next]_(Contract!contractVars)
  OBVIOUS
<1>0. ASSUME UNCHANGED <<at, answer, snapshot, response>>
      PROVE  UNCHANGED Contract!contractVars
  <2>1. fateBar' = fateBar
    BY <1>0, FateUnchanged
  <2> QED BY <1>0, <2>1 DEF Contract!contractVars, fateBar
<1>1. ASSUME NEW S \in SUBSET Subs, SetSubscriptions(S)
      PROVE  UNCHANGED Contract!contractVars
  BY <1>0, <1>1 DEF SetSubscriptions, dispatcherVars
<1>2. ASSUME NEW e \in Events, Reject(e) PROVE Contract!Next
  <2>1. fateBar' = fateBar
    BY <1>2, FateUnchanged, SMTT(30) DEF Reject, dispatcherVars
  <2>2. Contract!Refuse(e, "rejected")
    BY <1>2, <2>1 DEF Reject, IInv, RequestInv, Contract!Refuse, fateBar
  <2> QED BY <2>2 DEF Contract!Next, Contract!Refusals
<1>3. ASSUME NEW e \in Events, Receive(e) PROVE Contract!Next
  <2>1. Contract!TakeIn(e, subscriptions, {s \in subscriptions : ~ cfg(<<e, s>>).url})
    BY <1>3, ReceiveRefines
  <2>2. subscriptions \in SUBSET Subs
    BY DEF IInv, TypeOK
  <2> QED BY <2>1, <2>2, Zenon DEF Contract!Next
<1>4. ASSUME NEW e \in Events, NEW s \in Subs, Collect(e, s)
      PROVE  [Contract!Next]_(Contract!contractVars)
  <2> DEFINE b == fanoutErr[e] \/ err[<<e, s>>]
  <2>1. CASE collected'[e] = snapshot[e]
    <3>1. Return(e, b) /\ stage[e] = "dispatching" /\ UNCHANGED <<at, answer, snapshot>>
      BY <1>4, <2>1 DEF Collect
    <3>2. ~ b => \A r \in snapshot[e] : at[<<e, r>>] = "returned" /\ ~ err[<<e, r>>]
      <4>1. \A r \in snapshot[e] : r = s \/ r \in collected[e]
        BY <1>4, <2>1, SMTT(30) DEF Collect, IInv, TypeOK
      <4>2. \A r \in collected[e] : at[<<e, r>>] = "returned" /\ (err[<<e, r>>] => fanoutErr[e])
        BY ZenonT(30) DEF IInv, RequestInv
      <4>3. at[<<e, s>>] = "returned"
        BY <1>4, Zenon DEF Collect
      <4> QED BY <4>1, <4>2, <4>3, SMTT(30)
    <3>3. b \in BOOLEAN
      BY SMTT(30)
    <3> HIDE DEF b
    <3> QED BY <3>1, <3>2, <3>3, ReturnRefines, SMTT(30)
  <2>2. CASE collected'[e] # snapshot[e]
    BY <1>0, <1>4, <2>2, Zenon DEF Collect
  <2> QED BY <2>1, <2>2
<1>5. ASSUME NEW e \in Events, Timeout(e)
      PROVE  [Contract!Next]_(Contract!contractVars)
  BY <1>5, ReturnRefines, Zenon DEF Timeout
<1>6. ASSUME NEW e \in Events, Disconnect(e)
      PROVE  UNCHANGED Contract!contractVars
  BY <1>0, <1>6 DEF Disconnect, fanoutVars
<1>7. ASSUME NEW x \in Sends, Deliver(x)
      PROVE  [Contract!Next]_(Contract!contractVars)
  BY <1>7, DeliverRefines
<1>8. ASSUME Restart PROVE Contract!Next
  BY <1>8, RestartRefines DEF Contract!Next
<1>9. ASSUME UNCHANGED vars PROVE UNCHANGED Contract!contractVars
  BY <1>0, <1>9 DEF vars, dispatcherVars, fanoutVars
<1> QED BY <1>1, <1>2, <1>3, <1>4, <1>5, <1>6, <1>7, <1>8, <1>9 DEF Next

\* The fanout handler with the dispatcher underneath implements the contract
\* of a channel: whatever happens to subscribers, producers and the process,
\* an event taken in is owed to exactly the subscriptions of that moment, each
\* debt is settled once, and a synchronous 202 means that every one was met.
THEOREM FanoutImplementsContract == Spec => ImplementsContract
<1>1. Init => Contract!Init
  BY InitRefines
<1>2. IInv /\ IInv' /\ [Next]_vars => [Contract!Next]_(Contract!contractVars)
  BY StepRefines
<1>3. Spec => []IInv
  BY FanoutInvariant
<1> QED BY <1>1, <1>2, <1>3, PTL DEF Spec, ImplementsContract, Contract!Spec

=============================================================================
