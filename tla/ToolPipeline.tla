----------------------------- MODULE ToolPipeline -----------------------------
(***************************************************************************)
(* A tools/call request, from the SDK callback of registerToolOnServer to  *)
(* its answer: the abort controller filed under the request id,            *)
(* ExecutionPipelineService.callTool with its guards, middleware and       *)
(* resilience wrappers, and the executor's attempts at the handler.        *)
(*                                                                         *)
(* All calls are to one tool, so they share its circuit and its registry   *)
(* entry.  Each call has two halves that may part ways: the chain (pc),    *)
(* which runs to its own end, and the answer its caller gets, which a      *)
(* timer or a cancellation may give first.  The verdicts of the guards,    *)
(* the middleware and the rate limiter are left open.                      *)
(***************************************************************************)
EXTENDS Circuit, RetryPolicy, FiniteSets

CONSTANTS
  Sessions,   \* sessions served by this process
  Ids,        \* JSON-RPC request ids; every session numbers its own requests
  Calls,      \* the requests made: pairs <<session, id>>
  Timeout,    \* tool.timeout in ticks; 0 when the tool has none
  Nobody      \* no controller under an id

ASSUME PipelineAssumption ==
  /\ Calls \subseteq Sessions \X Ids
  /\ IsFiniteSet(Calls)
  /\ Timeout \in Nat
  /\ Nobody \notin Calls

VARIABLES
  registered,   \* the registry has the tool
  circuit,      \* the tool's circuit
  pc,           \* where the chain of each call stands
  attempt,      \* attempts the retry loop has begun
  wake,         \* ticks left of the retry loop's sleep
  timer,        \* ticks left of withTimeout's timer, or Off
  answer,       \* what the caller got
  aborted,      \* ctx.signal.aborted
  active        \* activeRequests: id -> the call whose controller it holds

vars == <<registered, circuit, pc, attempt, wake, timer, answer, aborted, active>>

Off == -1

Id(c) == c[2]

\* "refused" stands for every end short of the handler: no such tool, a guard
\* or a middleware that turns the call away, the rate limit, an open circuit.
Ended == {"refused", "ok", "failed"}

Phases == {"idle", "admitting", "admitted", "handler", "notFound", "backoff"}
            \union Ended

InFlight(c) == pc[c] # "idle" /\ answer[c] = "none"

Init ==
  /\ registered \in BOOLEAN
  /\ circuit = NewCircuit
  /\ pc = [c \in Calls |-> "idle"]
  /\ attempt = [c \in Calls |-> 0]
  /\ wake = [c \in Calls |-> 0]
  /\ timer = [c \in Calls |-> Off]
  /\ answer = [c \in Calls |-> "none"]
  /\ aborted = [c \in Calls |-> FALSE]
  /\ active = [i \in Ids |-> Nobody]

-----------------------------------------------------------------------------
(* How a call is answered. *)

\* Slip: cleanup leaves the controller of an answered request on file.
CleanupNothing(c) == active

\* cleanup(): whatever is on file under the id goes.
Cleanup(c) == [active EXCEPT ![Id(c)] = Nobody]

\* The caller is answered, the timer cleared and the controller dropped.
Answer(c, a) ==
  /\ answer' = [answer EXCEPT ![c] = a]
  /\ timer' = [timer EXCEPT ![c] = Off]
  /\ active' = Cleanup(c)

\* The chain ends; its result is the answer unless one was given before.
Finish(c, end) ==
  /\ pc' = [pc EXCEPT ![c] = end]
  /\ attempt' = [attempt EXCEPT ![c] = 0]
  /\ IF answer[c] = "none"
     THEN Answer(c, "chain")
     ELSE UNCHANGED <<answer, timer, active>>

\* Slip: withTimeout listens for the abort event but does not look at
\* signal.aborted first.
StartClockUnchecked(c) ==
  IF Timeout > 0
  THEN timer' = [timer EXCEPT ![c] = Timeout] /\ UNCHANGED <<answer, active>>
  ELSE UNCHANGED <<answer, timer, active>>

\* withTimeout, reached once executionFn() is already under way: a request
\* aborted by then is answered at once, otherwise the timer starts.
StartClock(c) ==
  IF Timeout > 0
  THEN IF aborted[c]
       THEN Answer(c, "cancelled")
       ELSE /\ timer' = [timer EXCEPT ![c] = Timeout]
            /\ UNCHANGED <<answer, active>>
  ELSE UNCHANGED <<answer, timer, active>>

-----------------------------------------------------------------------------
(* The chain. *)

\* The SDK dispatches the request.  Its own signal may already be aborted.
\* The registry is asked for the tool before the first await.
Receive(c) ==
  /\ pc[c] = "idle"
  /\ \E b \in BOOLEAN : aborted' = [aborted EXCEPT ![c] = b]
  /\ IF registered
     THEN /\ pc' = [pc EXCEPT ![c] = "admitting"]
          /\ active' = [active EXCEPT ![Id(c)] = c]
          /\ UNCHANGED <<attempt, answer, timer>>
     ELSE Finish(c, "refused")
  /\ UNCHANGED <<registered, circuit, wake>>

\* A guard, the authorization check, a middleware that does not call next(),
\* or checkLimit stops the call ...
TurnAway(c) ==
  /\ pc[c] = "admitting"
  /\ Finish(c, "refused")
  /\ UNCHANGED <<registered, circuit, wake, aborted>>

\* ... or all of them let it pass.
LetPass(c) ==
  /\ pc[c] = "admitting"
  /\ pc' = [pc EXCEPT ![c] = "admitted"]
  /\ UNCHANGED <<registered, circuit, attempt, wake, timer, answer, aborted, active>>

\* An attempt begins; the executor looks the tool up again.
BeginAttempt(c) ==
  /\ pc' = [pc EXCEPT ![c] = IF registered THEN "handler" ELSE "notFound"]
  /\ attempt' = [attempt EXCEPT ![c] = @ + 1]

\* executionFn() and withTimeout, in one go: the circuit is asked, and when
\* it lets the call through the first attempt begins.
EnterCircuit(c) ==
  /\ pc[c] = "admitted"
  /\ IF Rejects(circuit)
     THEN /\ IF Timeout > 0 /\ aborted[c]
             THEN /\ pc' = [pc EXCEPT ![c] = "refused"]
                  /\ Answer(c, "cancelled")
                  /\ UNCHANGED attempt
             ELSE Finish(c, "refused")
          /\ UNCHANGED circuit
     ELSE /\ circuit' = Admit(circuit)
          /\ BeginAttempt(c)
          /\ StartClock(c)
  /\ UNCHANGED <<registered, wake, aborted>>

AttemptSucceeds(c) ==
  /\ pc[c] = "handler"
  /\ circuit' = OnSuccess(circuit)
  /\ Finish(c, "ok")
  /\ UNCHANGED <<registered, wake, aborted>>

\* The retry loop goes to sleep before another attempt.
GoesOn(c) ==
  /\ \E d \in Delays(attempt[c]) : wake' = [wake EXCEPT ![c] = d]
  /\ pc' = [pc EXCEPT ![c] = "backoff"]
  /\ UNCHANGED <<circuit, attempt, answer, timer, active>>

\* The retry loop gives up: the circuit counts one failure for the call.
GivesUp(c) ==
  /\ circuit' = OnFailure(circuit)
  /\ Finish(c, "failed")
  /\ UNCHANGED wake

AttemptFails(c, failure) ==
  /\ pc[c] = IF failure = "notFound" THEN "notFound" ELSE "handler"
  /\ IF IsRetriable(failure) /\ attempt[c] < MaxAttempts
     THEN GoesOn(c)
     ELSE GivesUp(c)
  /\ UNCHANGED <<registered, aborted>>

\* The sleep ends; nobody asks whether the call was answered meanwhile.
Retry(c) ==
  /\ pc[c] = "backoff"
  /\ wake[c] = 0
  /\ BeginAttempt(c)
  /\ UNCHANGED <<registered, circuit, wake, timer, answer, aborted,
                 active>>

-----------------------------------------------------------------------------
(* Timers, signals and the rest of the process. *)

TimerFires(c) ==
  /\ timer[c] = 0
  /\ Answer(c, "timeout")
  /\ UNCHANGED <<registered, circuit, pc, attempt, wake, aborted>>

\* Slip: the abort listener clears the timer but does not reject.
AbortClearsOnly(c) ==
  /\ aborted' = [aborted EXCEPT ![c] = TRUE]
  /\ timer' = [timer EXCEPT ![c] = Off]
  /\ UNCHANGED answer

\* controller.abort() on the controller of call c; withTimeout, when it
\* listens, rejects.
Abort(c) ==
  /\ aborted' = [aborted EXCEPT ![c] = TRUE]
  /\ IF timer[c] # Off /\ ~aborted[c]
     THEN /\ answer' = [answer EXCEPT ![c] = "cancelled"]
          /\ timer' = [timer EXCEPT ![c] = Off]
     ELSE UNCHANGED <<answer, timer>>

\* notifications/cancelled from the session for its request, in time or too
\* late: the controller on file under the id is aborted and taken off.
Cancel(c) ==
  /\ pc[c] # "idle"
  /\ active[Id(c)] # Nobody
  /\ Abort(active[Id(c)])
  /\ active' = [active EXCEPT ![Id(c)] = Nobody]
  /\ UNCHANGED <<registered, circuit, pc, attempt, wake>>

\* The SDK aborts its own signal of the request, as it does when the
\* connection closes; the controller follows, and an answer drops the entry.
SdkAbort(c) ==
  /\ InFlight(c)
  /\ ~aborted[c]
  /\ Abort(c)
  /\ active' = IF answer' # answer THEN Cleanup(c) ELSE active
  /\ UNCHANGED <<registered, circuit, pc, attempt, wake>>

\* registerTool and unregisterTool at run time.
Reregister ==
  /\ registered' = ~registered
  /\ UNCHANGED <<circuit, pc, attempt, wake, timer, answer, aborted,
                 active>>

Tick ==
  /\ circuit' = Elapse(circuit)
  /\ wake' = [c \in Calls |-> CountDown(wake[c])]
  /\ timer' = [c \in Calls |-> CountDown(timer[c])]
  /\ UNCHANGED <<registered, pc, attempt, answer, aborted, active>>

-----------------------------------------------------------------------------
Admission(c) == TurnAway(c) \/ LetPass(c)

Step(c) ==
  \/ Receive(c)
  \/ Admission(c)
  \/ EnterCircuit(c)
  \/ AttemptSucceeds(c)
  \/ \E failure \in Failures : AttemptFails(c, failure)
  \/ Retry(c)
  \/ TimerFires(c)
  \/ Cancel(c)
  \/ SdkAbort(c)

Next == (\E c \in Calls : Step(c)) \/ Reregister \/ Tick

(***************************************************************************)
(* The clock runs, timers fire, guards and middleware return.  Nothing is  *)
(* asked of the handler: it may hang.                                      *)
(***************************************************************************)
Fairness ==
  /\ WF_vars(Tick)
  /\ \A c \in Calls : /\ WF_vars(Admission(c))
                      /\ WF_vars(EnterCircuit(c))
                      /\ WF_vars(TimerFires(c))

Spec == Init /\ [][Next]_vars /\ Fairness

-----------------------------------------------------------------------------
\* Types of the state.
TypeOK ==
  /\ registered \in BOOLEAN
  /\ circuit \in CircuitState
  /\ pc \in [Calls -> Phases]
  /\ attempt \in [Calls -> 0..MaxAttempts]
  /\ wake \in [Calls -> Nat]
  /\ timer \in [Calls -> (0..Timeout) \union {Off}]
  /\ answer \in [Calls -> {"none", "chain", "timeout", "cancelled"}]
  /\ aborted \in [Calls -> BOOLEAN]
  /\ active \in [Ids -> Calls \union {Nobody}]

\* No request is left without an answer when its chain has ended, and the
\* only answers given before that end are a timeout and a cancellation, of a
\* chain whose clock had started.  With a timeout configured an aborted request
\* is answered while its work is still going on, whether the abort came before
\* withTimeout looked at the signal, or after (callTool, withTimeout).
AnswersMatchChain ==
  /\ TypeOK
  /\ \A c \in Calls :
       /\ pc[c] \in Ended => answer[c] # "none"
       /\ answer[c] = "chain" => pc[c] \in Ended
       /\ answer[c] \in {"timeout", "cancelled"} =>
            pc[c] \in {"handler", "notFound", "backoff", "refused", "ok", "failed"}
       /\ Timeout > 0 /\ aborted[c] /\ pc[c] \in {"handler", "notFound", "backoff"} =>
            answer[c] # "none"

\* Another request has used the same id so far.
IdShared(c) == \E d \in Calls \ {c} : Id(d) = Id(c) /\ pc[d] # "idle"

\* A controller on file belongs to an unanswered request with that id: the
\* finally blocks of the SDK callbacks leak none, in whatever order requests
\* of several sessions with the same id end.  And a cancellation finds the
\* controller of the unanswered request it names, as long as no other session
\* has used that request id: only an earlier cancellation takes it off file.
ControllersLive ==
  /\ \A i \in Ids : active[i] # Nobody => InFlight(active[i]) /\ Id(active[i]) = i
  /\ \A c \in Calls :
       InFlight(c) /\ ~IdShared(c) => aborted[c] \/ active[Id(c)] = c

\* A call the pipeline has taken in is answered, though its handler hang.
EveryCallAnswered ==
  \A c \in Calls : pc[c] = "admitting" ~> answer[c] # "none"

=============================================================================
