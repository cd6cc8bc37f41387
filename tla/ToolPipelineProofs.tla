-------------------------- MODULE ToolPipelineProofs --------------------------
(***************************************************************************)
(* Proofs about ToolPipeline: which answers there are and which            *)
(* controllers stay on file, for any calls, any settings of timeout, retry *)
(* and circuit, and any overlap of chains, timers and cancellations.       *)
(***************************************************************************)
EXTENDS ToolPipeline, TLAPS

Working == {"handler", "notFound", "backoff"}

\* The clock of a call runs exactly while its work goes on unanswered, and a call
\* that sleeps has an attempt left.
Clocks ==
  \A c \in Calls :
    /\ timer[c] # Off => pc[c] \in Working /\ answer[c] = "none"
    /\ Timeout > 0 /\ pc[c] \in Working /\ answer[c] = "none" => timer[c] # Off
    /\ pc[c] \in {"idle", "admitting", "admitted"} => attempt[c] = 0
    /\ pc[c] = "backoff" => attempt[c] < MaxAttempts

IInv == AnswersMatchChain /\ Clocks /\ ControllersLive

-----------------------------------------------------------------------------
(* What the steps of the service keep of a circuit, as in                 *)
(* CircuitBreakerProofs.                                                   *)

\* One field of a circuit may be set to any value of its type.
LEMMA FieldsTyped ==
  ASSUME NEW c \in CircuitState, NEW n \in Nat,
         NEW s \in CircuitBreakerState, NEW w \in 0..HalfOpenTimeout
  PROVE  /\ [c EXCEPT !.state = s] \in CircuitState
         /\ [c EXCEPT !.failures = n] \in CircuitState
         /\ [c EXCEPT !.total = n] \in CircuitState
         /\ [c EXCEPT !.retryIn = w] \in CircuitState
BY DEF CircuitState

\* The steps of the service keep the type of a circuit.
LEMMA CircuitStepsTyped ==
  ASSUME NEW c \in CircuitState
  PROVE  /\ NewCircuit \in CircuitState
         /\ Admit(c) \in CircuitState
         /\ OnSuccess(c) \in CircuitState
         /\ OnFailure(c) \in CircuitState
         /\ Elapse(c) \in CircuitState
<1>0. /\ c.failures + 1 \in Nat /\ c.total + 1 \in Nat
      /\ HalfOpenTimeout \in 0..HalfOpenTimeout
      /\ CountDown(c.retryIn) \in 0..HalfOpenTimeout
      /\ {"CLOSED", "OPEN", "HALF_OPEN"} = CircuitBreakerState
  BY CircuitAssumption DEF CircuitState, CircuitBreakerState, CountDown
<1>1. NewCircuit \in CircuitState
  BY CircuitAssumption DEF NewCircuit, CircuitState, CircuitBreakerState
<1>2. Admit(c) \in CircuitState
  BY <1>0, FieldsTyped DEF Admit
<1>3. OnSuccess(c) \in CircuitState
  <2> DEFINE closed == [c EXCEPT !.state = "CLOSED"]
             emptied == [closed EXCEPT !.failures = 0]
  <2>1. closed \in CircuitState
    BY <1>0, FieldsTyped
  <2>2. \A d \in CircuitState : [d EXCEPT !.failures = 0] \in CircuitState
    BY <1>0, FieldsTyped
  <2>3. \A d \in CircuitState : [d EXCEPT !.total = 0] \in CircuitState
    BY <1>0, FieldsTyped
  <2>5. [emptied EXCEPT !.total = 0] \in CircuitState
    <3> HIDE DEF closed
    <3> QED BY <2>1, <2>2, <2>3
  <2>4. [c EXCEPT !.total = @ + 1] \in CircuitState
    BY <1>0, FieldsTyped
  <2> QED BY <2>4, <2>5 DEF OnSuccess
<1>4. OnFailure(c) \in CircuitState
  <2> DEFINE failedOnce == [c EXCEPT !.failures = @ + 1]
             counted1 == [failedOnce EXCEPT !.total = @ + 1]
             opened == [counted1 EXCEPT !.state = "OPEN"]
  <2>1. failedOnce \in CircuitState /\ failedOnce.total = c.total
    BY <1>0, FieldsTyped DEF CircuitState
  <2>2. counted1 \in CircuitState
    BY <1>0, <2>1, FieldsTyped
  <2>3. opened \in CircuitState
    BY <1>0, <2>2, FieldsTyped
  <2>4. [opened EXCEPT !.retryIn = HalfOpenTimeout] \in CircuitState
    BY <1>0, <2>3, FieldsTyped
  <2> QED BY <2>2, <2>4 DEF OnFailure
<1>5. Elapse(c) \in CircuitState
  BY <1>0, FieldsTyped DEF Elapse
<1> QED BY <1>1, <1>2, <1>3, <1>4, <1>5

-----------------------------------------------------------------------------
(* Facts about the settings. *)

LEMMA TypesOfSettings ==
  /\ Timeout \in Nat /\ MaxAttempts \in Nat \ {0}
  /\ Nobody \notin Calls
  /\ \A c \in Calls : Id(c) \in Ids
BY PipelineAssumption, RetryAssumption DEF Id

\* The sleeps of the retry loop are numbers.
LEMMA DelaysTyped == \A n \in Nat : Delays(n) \subseteq Nat
<1> SUFFICES ASSUME NEW n \in Nat, NEW d \in Delays(n) PROVE d \in Nat
  OBVIOUS
<1> USE RetryAssumption
<1>1. CASE Backoff = "fixed"
  BY <1>1 DEF Delays, AtMost
<1>2. CASE Backoff = "linear"
  <2>1. InitialDelay * n \in Nat
    OBVIOUS
  <2> QED
    BY <1>2, <2>1 DEF Delays, AtMost
<1>3. CASE Backoff = "exponential"
  BY <1>3 DEF Delays
<1> QED
  BY <1>1, <1>2, <1>3

LEMMA PhasesAre ==
  Phases = {"idle", "admitting", "admitted", "handler", "notFound", "backoff",
            "refused", "ok", "failed"}
BY DEF Phases, Ended

-----------------------------------------------------------------------------
(* Types. *)

LEMMA InitTyped == Init => TypeOK
<1> SUFFICES ASSUME Init PROVE TypeOK
  OBVIOUS
<1>1. registered \in BOOLEAN
  BY Zenon DEF Init
<1>4. circuit \in CircuitState
  <2>1. NewCircuit \in CircuitState
    BY CircuitAssumption DEF NewCircuit, CircuitState, CircuitBreakerState
  <2> QED
    BY <2>1, Zenon DEF Init
<1>2. /\ pc \in [Calls -> Phases]
      /\ attempt \in [Calls -> 0..MaxAttempts]
      /\ wake \in [Calls -> Nat]
      /\ timer \in [Calls -> (0..Timeout) \union {Off}]
  BY TypesOfSettings, PhasesAre DEF Init
<1>3. /\ answer \in [Calls -> {"none", "chain", "timeout", "cancelled"}]
      /\ aborted \in [Calls -> BOOLEAN]
      /\ active \in [Ids -> Calls \union {Nobody}]
  BY DEF Init
<1> QED
  BY <1>1, <1>2, <1>3, <1>4, Zenon DEF TypeOK

\* Giving an answer keeps the types.
LEMMA AnswerTyped ==
  ASSUME TypeOK, NEW c \in Calls, NEW a \in {"none", "chain", "timeout", "cancelled"},
         Answer(c, a)
  PROVE  /\ answer' \in [Calls -> {"none", "chain", "timeout", "cancelled"}]
         /\ timer' \in [Calls -> (0..Timeout) \union {Off}]
         /\ active' \in [Ids -> Calls \union {Nobody}]
BY DEF TypeOK, Answer, Cleanup

LEMMA FinishTyped ==
  ASSUME TypeOK, NEW c \in Calls, NEW end \in Ended, Finish(c, end)
  PROVE  /\ pc' \in [Calls -> Phases]
         /\ attempt' \in [Calls -> 0..MaxAttempts]
         /\ answer' \in [Calls -> {"none", "chain", "timeout", "cancelled"}]
         /\ timer' \in [Calls -> (0..Timeout) \union {Off}]
         /\ active' \in [Ids -> Calls \union {Nobody}]
<1>1. pc' \in [Calls -> Phases] /\ attempt' \in [Calls -> 0..MaxAttempts]
  BY TypesOfSettings DEF Finish, TypeOK, Phases
<1>2. CASE answer[c] = "none"
  BY <1>1, <1>2, AnswerTyped DEF Finish
<1>3. CASE answer[c] # "none"
  BY <1>1, <1>3 DEF Finish, TypeOK
<1> QED
  BY <1>2, <1>3

LEMMA NextTyped == TypeOK /\ Clocks /\ [Next]_vars => TypeOK'
<1> SUFFICES ASSUME TypeOK, Clocks, [Next]_vars PROVE TypeOK'
  OBVIOUS
<1> USE TypesOfSettings, PhasesAre
<1>1. ASSUME NEW c \in Calls, Receive(c) PROVE TypeOK'
  <2>1. aborted' \in [Calls -> BOOLEAN]
    BY <1>1 DEF Receive, TypeOK
  <2>2. CASE registered
    BY <1>1, <2>1, <2>2 DEF Receive, TypeOK
  <2>3. CASE ~registered
    BY <1>1, <2>1, <2>3, FinishTyped DEF Receive, TypeOK, Ended
  <2> QED
    BY <2>2, <2>3
<1>2. ASSUME NEW c \in Calls, TurnAway(c) PROVE TypeOK'
  BY <1>2, FinishTyped DEF TurnAway, TypeOK, Ended
<1>3. ASSUME NEW c \in Calls, LetPass(c) PROVE TypeOK'
  BY <1>3 DEF LetPass, TypeOK
<1>4. ASSUME NEW c \in Calls, EnterCircuit(c) PROVE TypeOK'
  <2>1. CASE Rejects(circuit)
    <3>1. CASE Timeout > 0 /\ aborted[c]
      BY <1>4, <2>1, <3>1, AnswerTyped DEF EnterCircuit, TypeOK
    <3>2. CASE ~(Timeout > 0 /\ aborted[c])
      BY <1>4, <2>1, <3>2, FinishTyped DEF EnterCircuit, TypeOK, Ended
    <3> QED
      BY <3>1, <3>2
  <2>2. CASE ~Rejects(circuit)
    <3>1. circuit' \in CircuitState
      BY <1>4, <2>2, CircuitStepsTyped DEF EnterCircuit, TypeOK
    <3>2. pc' \in [Calls -> Phases] /\ attempt' \in [Calls -> 0..MaxAttempts]
      BY <1>4, <2>2 DEF EnterCircuit, BeginAttempt, TypeOK, Clocks
    <3>3. /\ answer' \in [Calls -> {"none", "chain", "timeout", "cancelled"}]
          /\ timer' \in [Calls -> (0..Timeout) \union {Off}]
          /\ active' \in [Ids -> Calls \union {Nobody}]
      BY <1>4, <2>2, AnswerTyped DEF EnterCircuit, StartClock, TypeOK
    <3> QED
      BY <1>4, <3>1, <3>2, <3>3 DEF EnterCircuit, TypeOK
  <2> QED
    BY <2>1, <2>2
<1>5. ASSUME NEW c \in Calls, AttemptSucceeds(c) PROVE TypeOK'
  BY <1>5, FinishTyped, CircuitStepsTyped DEF AttemptSucceeds, TypeOK, Ended
<1>6. ASSUME NEW c \in Calls, NEW failure \in Failures, AttemptFails(c, failure)
      PROVE  TypeOK'
  <2>1. CASE GoesOn(c)
    <3>1. wake' \in [Calls -> Nat]
      BY <2>1, DelaysTyped DEF GoesOn, TypeOK
    <3> QED
      BY <1>6, <2>1, <3>1 DEF AttemptFails, GoesOn, TypeOK
  <2>2. CASE GivesUp(c)
    BY <1>6, <2>2, FinishTyped, CircuitStepsTyped DEF AttemptFails, GivesUp, TypeOK, Ended
  <2> QED
    BY <1>6, <2>1, <2>2 DEF AttemptFails
<1>7. ASSUME NEW c \in Calls, Retry(c) PROVE TypeOK'
  BY <1>7 DEF Retry, BeginAttempt, TypeOK, Clocks
<1>8. ASSUME NEW c \in Calls, TimerFires(c) PROVE TypeOK'
  BY <1>8, AnswerTyped DEF TimerFires, TypeOK
<1>9. ASSUME NEW c \in Calls, Abort(c)
      PROVE  /\ aborted' \in [Calls -> BOOLEAN]
             /\ answer' \in [Calls -> {"none", "chain", "timeout", "cancelled"}]
             /\ timer' \in [Calls -> (0..Timeout) \union {Off}]
  BY <1>9 DEF Abort, TypeOK
<1>10. ASSUME NEW c \in Calls, Cancel(c) PROVE TypeOK'
  <2>1. active[Id(c)] \in Calls
    BY <1>10 DEF Cancel, TypeOK
  <2>2. active' \in [Ids -> Calls \union {Nobody}]
    BY <1>10 DEF Cancel, TypeOK
  <2> QED
    BY <1>10, <2>1, <2>2, <1>9 DEF Cancel, TypeOK
<1>11. ASSUME NEW c \in Calls, SdkAbort(c) PROVE TypeOK'
  BY <1>11, <1>9 DEF SdkAbort, Cleanup, TypeOK
<1>12. CASE Reregister
  BY <1>12 DEF Reregister, TypeOK
<1>13. CASE Tick
  BY <1>13, CircuitStepsTyped DEF Tick, CountDown, TypeOK, Off
<1>14. CASE UNCHANGED vars
  BY <1>14 DEF vars, TypeOK
<1> QED
  BY <1>1, <1>2, <1>3, <1>4, <1>5, <1>6, <1>7, <1>8, <1>10, <1>11, <1>12, <1>13, <1>14
  DEF Next, Step, Admission

-----------------------------------------------------------------------------
(* Answers. *)

\* AnswersMatchChain without the types.
Answers ==
  \A c \in Calls :
    /\ pc[c] \in Ended => answer[c] # "none"
    /\ answer[c] = "chain" => pc[c] \in Ended
    /\ answer[c] \in {"timeout", "cancelled"} =>
         pc[c] \in {"handler", "notFound", "backoff", "refused", "ok", "failed"}
    /\ Timeout > 0 /\ aborted[c] /\ pc[c] \in {"handler", "notFound", "backoff"} =>
         answer[c] # "none"

LEMMA MatchIsAnswers == AnswersMatchChain <=> TypeOK /\ Answers
BY DEF AnswersMatchChain, Answers

\* Answering a call whose work goes on, or which has ended, stops its clock.
LEMMA AnswerKeeps ==
  ASSUME TypeOK, Answers, Clocks, NEW c \in Calls, pc[c] \in Working,
         NEW a \in {"timeout", "cancelled"}, Answer(c, a),
         UNCHANGED <<pc, attempt, aborted>>
  PROVE  Answers' /\ Clocks'
BY TypesOfSettings
DEF TypeOK, Answers, Clocks, Working, Ended, Off, Answer

\* The end of a chain answers its call unless that was done before.
LEMMA FinishKeeps ==
  ASSUME TypeOK, Answers, Clocks, NEW c \in Calls, NEW end \in Ended, Finish(c, end),
         \A d \in Calls : d # c => aborted'[d] = aborted[d]
  PROVE  Answers' /\ Clocks'
<1>1. CASE answer[c] = "none"
  BY <1>1, TypesOfSettings
  DEF TypeOK, Answers, Clocks, Working, Ended, Off, Answer, Finish
<1>2. CASE answer[c] # "none"
  BY <1>2, TypesOfSettings
  DEF TypeOK, Answers, Clocks, Working, Ended, Off, Finish
<1> QED
  BY <1>1, <1>2

LEMMA AbortKeeps ==
  ASSUME TypeOK, Answers, Clocks, NEW c \in Calls, Abort(c), UNCHANGED <<pc, attempt>>
  PROVE  Answers' /\ Clocks'
BY TypesOfSettings
DEF TypeOK, Answers, Clocks, Working, Ended, Off, Abort

LEMMA NextAnswers == TypeOK /\ Answers /\ Clocks /\ [Next]_vars => Answers' /\ Clocks'
<1> SUFFICES ASSUME TypeOK, Answers, Clocks, [Next]_vars PROVE Answers' /\ Clocks'
  OBVIOUS
<1> USE TypesOfSettings
<1>1. ASSUME NEW c \in Calls, Receive(c) PROVE Answers' /\ Clocks'
  <2>1. \A d \in Calls : d # c => aborted'[d] = aborted[d]
    BY <1>1 DEF Receive, TypeOK
  <2>2. CASE registered
    BY <1>1, <2>1, <2>2
    DEF Receive, TypeOK, Answers, Clocks, Working, Ended, Off
  <2>3. CASE ~registered
    BY <1>1, <2>1, <2>3, FinishKeeps DEF Receive, Ended
  <2> QED
    BY <2>2, <2>3
<1>2. ASSUME NEW c \in Calls, TurnAway(c) PROVE Answers' /\ Clocks'
  BY <1>2, FinishKeeps DEF TurnAway, Ended
<1>3. ASSUME NEW c \in Calls, LetPass(c) PROVE Answers' /\ Clocks'
  BY <1>3 DEF LetPass, TypeOK, Answers, Clocks, Working, Ended, Off
<1>4. ASSUME NEW c \in Calls, EnterCircuit(c) PROVE Answers' /\ Clocks'
  <2>1. answer[c] = "none" /\ timer[c] = Off /\ attempt[c] = 0
    BY <1>4 DEF EnterCircuit, TypeOK, Answers, Clocks, Working, Ended
  <2>2. CASE Rejects(circuit) /\ Timeout > 0 /\ aborted[c]
    BY <1>4, <2>1, <2>2
    DEF EnterCircuit, TypeOK, Answers, Clocks, Working, Ended, Off, Answer
  <2>3. CASE Rejects(circuit) /\ ~(Timeout > 0 /\ aborted[c])
    BY <1>4, <2>3, FinishKeeps DEF EnterCircuit, Ended
  <2>4. CASE ~Rejects(circuit)
    <3>1. /\ \E to \in {"handler", "notFound"} : pc' = [pc EXCEPT ![c] = to]
          /\ attempt' = [attempt EXCEPT ![c] = @ + 1]
          /\ StartClock(c)
          /\ aborted' = aborted
      BY <1>4, <2>4 DEF EnterCircuit, BeginAttempt
    <3> QED
      BY <2>1, <3>1
      DEF StartClock, Answer, TypeOK, Answers, Clocks, Working, Ended, Off
  <2> QED
    BY <2>2, <2>3, <2>4
<1>5. ASSUME NEW c \in Calls, AttemptSucceeds(c) PROVE Answers' /\ Clocks'
  BY <1>5, FinishKeeps DEF AttemptSucceeds, Ended
<1>6. ASSUME NEW c \in Calls, NEW failure \in Failures, AttemptFails(c, failure)
      PROVE  Answers' /\ Clocks'
  <2>1. CASE GoesOn(c) /\ attempt[c] < MaxAttempts
    BY <1>6, <2>1
    DEF AttemptFails, GoesOn, TypeOK, Answers, Clocks, Working, Ended, Off
  <2>2. CASE GivesUp(c)
    BY <1>6, <2>2, FinishKeeps DEF AttemptFails, GivesUp, Ended
  <2> QED
    BY <1>6, <2>1, <2>2 DEF AttemptFails
<1>7. ASSUME NEW c \in Calls, Retry(c) PROVE Answers' /\ Clocks'
  BY <1>7 DEF Retry, BeginAttempt, TypeOK, Answers, Clocks, Working, Ended, Off
<1>8. ASSUME NEW c \in Calls, TimerFires(c) PROVE Answers' /\ Clocks'
  <2>1. pc[c] \in Working
    BY <1>8 DEF TimerFires, Clocks, Off
  <2> QED
    BY <1>8, <2>1, AnswerKeeps DEF TimerFires
<1>9. ASSUME NEW c \in Calls, Cancel(c) PROVE Answers' /\ Clocks'
  <2>1. active[Id(c)] \in Calls
    BY <1>9 DEF Cancel, TypeOK
  <2> QED
    BY <1>9, <2>1, AbortKeeps DEF Cancel
<1>10. ASSUME NEW c \in Calls, SdkAbort(c) PROVE Answers' /\ Clocks'
  BY <1>10, AbortKeeps DEF SdkAbort
<1>11. CASE Reregister
  BY <1>11 DEF Reregister, Answers, Clocks
<1>12. CASE Tick
  BY <1>12 DEF Tick, CountDown, TypeOK, Answers, Clocks, Off
<1>13. CASE UNCHANGED vars
  BY <1>13 DEF vars, Answers, Clocks
<1> QED
  BY <1>1, <1>2, <1>3, <1>4, <1>5, <1>6, <1>7, <1>8, <1>9, <1>10, <1>11, <1>12, <1>13
  DEF Next, Step, Admission

-----------------------------------------------------------------------------
(* Controllers. *)

\* Before it is received a call is unanswered and its clock off.
LEMMA IdleUnanswered ==
  ASSUME TypeOK, Answers, Clocks, NEW c \in Calls, pc[c] = "idle"
  PROVE  answer[c] = "none" /\ timer[c] = Off
BY DEF TypeOK, Answers, Clocks, Ended, Working

\* A call that has begun is answered and its entry dropped: calls under the same
\* id that lose theirs share it with a call that has begun.
LEMMA AnsweredDrops ==
  ASSUME TypeOK, TypeOK', ControllersLive, NEW c \in Calls,
         answer'[c] # "none", pc'[c] # "idle",
         active' = Cleanup(c),
         \A d \in Calls : d # c => answer'[d] = answer[d] /\ aborted'[d] = aborted[d],
         \A d \in Calls : d # c => pc'[d] = pc[d],
         \A d \in Calls : pc[d] # "idle" => pc'[d] # "idle"
  PROVE  ControllersLive'
<1> USE TypesOfSettings
<1>1. ASSUME NEW i \in Ids, active'[i] # Nobody
      PROVE  InFlight(active[i])' /\ Id(active'[i]) = i
  <2>1. i # Id(c) /\ active'[i] = active[i] /\ active[i] \in Calls
    BY <1>1 DEF Cleanup, TypeOK
  <2>2. InFlight(active[i]) /\ Id(active[i]) = i /\ active[i] # c
    BY <1>1, <2>1 DEF ControllersLive
  <2> QED
    BY <2>1, <2>2 DEF InFlight
<1>2. ASSUME NEW d \in Calls, InFlight(d)', ~IdShared(d)'
      PROVE  aborted'[d] \/ active'[Id(d)] = d
  <2>1. d # c /\ InFlight(d)
    BY <1>2 DEF InFlight
  <2>2. ~IdShared(d) /\ Id(d) # Id(c)
    BY <1>2, <2>1 DEF IdShared
  <2>3. active'[Id(d)] = active[Id(d)]
    BY <2>2 DEF Cleanup, TypeOK
  <2> QED
    BY <2>1, <2>2, <2>3 DEF ControllersLive
<1> QED
  BY <1>1, <1>2 DEF ControllersLive, InFlight

\* Nothing is lost by a step that answers and files nothing.
LEMMA QuietKeeps ==
  ASSUME TypeOK, ControllersLive, UNCHANGED <<answer, aborted, active>>,
         \A d \in Calls : pc'[d] = "idle" <=> pc[d] = "idle"
  PROVE  ControllersLive'
<1> USE TypesOfSettings
<1>1. ASSUME NEW i \in Ids, active'[i] # Nobody
      PROVE  InFlight(active[i])' /\ Id(active'[i]) = i
  BY <1>1 DEF ControllersLive, InFlight, TypeOK
<1>2. ASSUME NEW d \in Calls, InFlight(d)', ~IdShared(d)'
      PROVE  aborted'[d] \/ active'[Id(d)] = d
  BY <1>2 DEF ControllersLive, InFlight, IdShared
<1> QED
  BY <1>1, <1>2 DEF ControllersLive, InFlight

LEMMA FinishControllers ==
  ASSUME TypeOK, TypeOK', Answers, Clocks, ControllersLive, NEW c \in Calls,
         NEW end \in Ended, Finish(c, end),
         \/ aborted' = aborted
         \/ pc[c] = "idle" /\ \A d \in Calls : d # c => aborted'[d] = aborted[d]
  PROVE  ControllersLive'
<1>1. pc' = [pc EXCEPT ![c] = end] /\ end # "idle"
  BY DEF Finish, Ended
<1>2. CASE answer[c] = "none"
  <2>1. answer' = [answer EXCEPT ![c] = "chain"] /\ active' = Cleanup(c)
    BY <1>2 DEF Finish, Answer
  <2> QED
    BY <1>1, <2>1, AnsweredDrops DEF TypeOK
<1>3. CASE answer[c] # "none"
  <2>1. pc[c] # "idle"
    BY <1>3, IdleUnanswered
  <2> QED
    BY <1>1, <1>3, <2>1, QuietKeeps DEF Finish, TypeOK
<1> QED
  BY <1>2, <1>3

LEMMA NextControllers ==
  TypeOK /\ TypeOK' /\ Answers /\ Clocks /\ ControllersLive /\ [Next]_vars
    => ControllersLive'
<1> SUFFICES ASSUME TypeOK, TypeOK', Answers, Clocks, ControllersLive, [Next]_vars
             PROVE  ControllersLive'
  OBVIOUS
<1> USE TypesOfSettings
<1>1. ASSUME NEW c \in Calls, Receive(c) PROVE ControllersLive'
  <2>1. pc[c] = "idle" /\ \A d \in Calls : d # c => aborted'[d] = aborted[d]
    BY <1>1 DEF Receive, TypeOK
  <2>2. CASE registered
    <3>1. /\ pc' = [pc EXCEPT ![c] = "admitting"]
          /\ active' = [active EXCEPT ![Id(c)] = c]
          /\ answer' = answer
      BY <1>1, <2>2 DEF Receive
    <3>2. ASSUME NEW i \in Ids, active'[i] # Nobody
          PROVE  InFlight(active[i])' /\ Id(active'[i]) = i
      <4>1. CASE i = Id(c)
        BY <2>1, <3>1, <4>1, IdleUnanswered DEF InFlight, TypeOK
      <4>2. CASE i # Id(c)
        BY <2>1, <3>1, <3>2, <4>2 DEF ControllersLive, InFlight, TypeOK
      <4> QED
        BY <4>1, <4>2
    <3>3. ASSUME NEW d \in Calls, InFlight(d)', ~IdShared(d)'
          PROVE  aborted'[d] \/ active'[Id(d)] = d
      <4>1. CASE d = c
        BY <3>1, <4>1 DEF TypeOK
      <4>2. CASE d # c
        <5>1. Id(d) # Id(c)
          BY <3>1, <3>3, <4>2 DEF IdShared, TypeOK
        <5>2. InFlight(d) /\ ~IdShared(d)
          BY <2>1, <3>1, <3>3, <4>2 DEF InFlight, IdShared, TypeOK
        <5> QED
          BY <2>1, <3>1, <4>2, <5>1, <5>2 DEF ControllersLive, TypeOK
      <4> QED
        BY <4>1, <4>2
    <3> QED
      BY <3>2, <3>3 DEF ControllersLive, InFlight
  <2>3. CASE ~registered
    BY <1>1, <2>1, <2>3, FinishControllers DEF Receive, Ended
  <2> QED
    BY <2>2, <2>3
<1>2. ASSUME NEW c \in Calls, TurnAway(c) PROVE ControllersLive'
  BY <1>2, FinishControllers DEF TurnAway, Ended
<1>3. ASSUME NEW c \in Calls, LetPass(c) PROVE ControllersLive'
  BY <1>3, QuietKeeps DEF LetPass, TypeOK
<1>4. ASSUME NEW c \in Calls, EnterCircuit(c) PROVE ControllersLive'
  <2>1. pc[c] = "admitted" /\ aborted' = aborted
    BY <1>4 DEF EnterCircuit
  <2>2. CASE Rejects(circuit) /\ ~(Timeout > 0 /\ aborted[c])
    BY <1>4, <2>1, <2>2, FinishControllers DEF EnterCircuit, Ended
  <2>3. CASE ~(Rejects(circuit) /\ ~(Timeout > 0 /\ aborted[c]))
    <3>1. \E to \in {"refused", "handler", "notFound"} : pc' = [pc EXCEPT ![c] = to]
      BY <1>4, <2>3 DEF EnterCircuit, BeginAttempt
    <3>2. Answer(c, "cancelled") \/ UNCHANGED <<answer, active>>
      BY <1>4, <2>3 DEF EnterCircuit, StartClock
    <3>3. CASE Answer(c, "cancelled")
      BY <2>1, <3>1, <3>3, AnsweredDrops DEF Answer, TypeOK
    <3>4. CASE UNCHANGED <<answer, active>>
      BY <2>1, <3>1, <3>4, QuietKeeps DEF TypeOK
    <3> QED
      BY <3>2, <3>3, <3>4
  <2> QED
    BY <2>2, <2>3
<1>5. ASSUME NEW c \in Calls, AttemptSucceeds(c) PROVE ControllersLive'
  BY <1>5, FinishControllers DEF AttemptSucceeds, Ended
<1>6. ASSUME NEW c \in Calls, NEW failure \in Failures, AttemptFails(c, failure)
      PROVE  ControllersLive'
  <2>1. CASE GoesOn(c)
    BY <1>6, <2>1, QuietKeeps DEF AttemptFails, GoesOn, TypeOK
  <2>2. CASE GivesUp(c)
    BY <1>6, <2>2, FinishControllers DEF AttemptFails, GivesUp, Ended
  <2> QED
    BY <1>6, <2>1, <2>2 DEF AttemptFails
<1>7. ASSUME NEW c \in Calls, Retry(c) PROVE ControllersLive'
  BY <1>7, QuietKeeps DEF Retry, BeginAttempt, TypeOK
<1>8. ASSUME NEW c \in Calls, TimerFires(c) PROVE ControllersLive'
  <2>1. pc[c] # "idle"
    BY <1>8, IdleUnanswered DEF TimerFires, Off
  <2> QED
    BY <1>8, <2>1, AnsweredDrops DEF TimerFires, Answer, TypeOK
<1>9. ASSUME NEW c \in Calls, Cancel(c) PROVE ControllersLive'
  <2> DEFINE held == active[Id(c)]
  <2>1. /\ pc[c] # "idle" /\ pc' = pc
        /\ held \in Calls /\ Id(held) = Id(c)
        /\ active' = Cleanup(c)
    BY <1>9 DEF Cancel, Cleanup, ControllersLive, TypeOK
  <2>2. /\ \A d \in Calls : d # held => answer'[d] = answer[d] /\ aborted'[d] = aborted[d]
        /\ answer[held] # "none" => answer'[held] # "none"
        /\ aborted'[held]
    BY <1>9, <2>1 DEF Cancel, Abort, TypeOK
  <2>3. ASSUME NEW i \in Ids, active'[i] # Nobody
        PROVE  InFlight(active[i])' /\ Id(active'[i]) = i
    <3>1. i # Id(c) /\ active'[i] = active[i] /\ active[i] \in Calls
      BY <2>1, <2>3 DEF Cleanup, TypeOK
    <3> QED
      BY <2>1, <2>2, <3>1 DEF ControllersLive, InFlight
  <2>4. ASSUME NEW d \in Calls, InFlight(d)', ~IdShared(d)'
        PROVE  aborted'[d] \/ active'[Id(d)] = d
    <3>1. CASE d = held
      BY <2>2, <3>1
    <3>2. CASE d # held
      <4>1. InFlight(d) /\ ~IdShared(d)
        BY <2>1, <2>2, <2>4, <3>2 DEF InFlight, IdShared
      <4>2. Id(d) # Id(c) \/ aborted[d]
        BY <2>1, <3>2, <4>1 DEF ControllersLive
      <4> QED
        BY <2>1, <2>2, <3>2, <4>1, <4>2 DEF ControllersLive, Cleanup, TypeOK
    <3> QED
      BY <3>1, <3>2
  <2> QED
    BY <2>3, <2>4 DEF ControllersLive, InFlight
<1>10. ASSUME NEW c \in Calls, SdkAbort(c) PROVE ControllersLive'
  <2>1. pc[c] # "idle" /\ pc' = pc /\ answer[c] = "none" /\ Abort(c)
    BY <1>10 DEF SdkAbort, InFlight
  <2>2. /\ \A d \in Calls : d # c => answer'[d] = answer[d] /\ aborted'[d] = aborted[d]
        /\ aborted'[c]
    BY <2>1 DEF Abort, TypeOK
  <2>3. CASE answer' # answer
    <3>1. answer'[c] # "none" /\ active' = Cleanup(c)
      BY <1>10, <2>1, <2>3 DEF SdkAbort, Abort, TypeOK
    <3> QED
      BY <2>1, <2>2, <3>1, AnsweredDrops
  <2>4. CASE answer' = answer
    <3>1. active' = active
      BY <1>10, <2>4 DEF SdkAbort
    <3> QED
      BY <2>1, <2>2, <2>4, <3>1 DEF ControllersLive, InFlight, IdShared
  <2> QED
    BY <2>3, <2>4
<1>11. CASE Reregister \/ Tick \/ UNCHANGED vars
  BY <1>11, QuietKeeps DEF Reregister, Tick, vars
<1> QED
  BY <1>1, <1>2, <1>3, <1>4, <1>5, <1>6, <1>7, <1>8, <1>9, <1>10, <1>11
  DEF Next, Step, Admission

-----------------------------------------------------------------------------
(* The invariant. *)

LEMMA InitKeeps == Init => IInv
<1> SUFFICES ASSUME Init PROVE IInv
  OBVIOUS
<1>1. Answers /\ Clocks
  BY TypesOfSettings DEF Init, Answers, Clocks, Ended, Working
<1>2. ControllersLive
  BY TypesOfSettings DEF Init, ControllersLive, InFlight
<1> QED
  BY <1>1, <1>2, InitTyped, MatchIsAnswers DEF IInv

LEMMA NextKeeps == IInv /\ [Next]_vars => IInv'
<1> SUFFICES ASSUME IInv, [Next]_vars PROVE IInv'
  OBVIOUS
<1>1. TypeOK /\ Answers /\ Clocks /\ ControllersLive
  BY MatchIsAnswers DEF IInv
<1>2. TypeOK'
  BY <1>1, NextTyped
<1>3. Answers' /\ Clocks'
  BY <1>1, NextAnswers
<1>4. ControllersLive'
  BY <1>1, <1>2, NextControllers
<1>5. AnswersMatchChain'
  BY <1>2, <1>3 DEF AnswersMatchChain, Answers
<1> QED
  BY <1>3, <1>4, <1>5 DEF IInv

LEMMA Inductive == Spec => []IInv
BY InitKeeps, NextKeeps, PTL DEF Spec

\* A call is answered by the end of its chain at the latest, and before that only
\* by its timeout or its cancellation; an aborted call does not wait for its
\* handler when a timeout is configured (withTimeout, ExecutionPipelineService).
THEOREM AnswersMatch == Spec => []AnswersMatchChain
<1>1. IInv => AnswersMatchChain
  BY DEF IInv
<1> QED
  BY <1>1, Inductive, PTL

\* No controller outlives its request, and one whose id no other session has used
\* can be cancelled until it is answered (activeRequests in registerToolOnServer).
THEOREM ControllersStayLive == Spec => []ControllersLive
<1>1. IInv => ControllersLive
  BY DEF IInv
<1> QED
  BY <1>1, Inductive, PTL
===============================================================================
