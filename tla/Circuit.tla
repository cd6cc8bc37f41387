------------------------------- MODULE Circuit -------------------------------
(***************************************************************************)
(* The pure steps of CircuitBreakerService: what each of its private       *)
(* methods does to the CircuitState of one tool.                           *)
(*                                                                         *)
(* Clock readings are kept as countdowns: retryIn is nextRetryTime -       *)
(* Date.now(), cut at 0, so that Date.now() >= nextRetryTime is retryIn =  *)
(* 0.  lastFailureTime and successes are written by the code and never     *)
(* read, so they are left out.                                             *)
(***************************************************************************)
EXTENDS Integers

CONSTANTS
  MinRequests,      \* config.minRequests
  ThresholdNum,     \* config.errorThreshold is the ratio
  ThresholdDen,     \*   ThresholdNum / ThresholdDen
  HalfOpenTimeout   \* config.halfOpenTimeout, in ticks

ASSUME CircuitAssumption ==
  /\ MinRequests \in Nat
  /\ ThresholdNum \in Nat
  /\ ThresholdDen \in Nat \ {0}
  /\ HalfOpenTimeout \in Nat \ {0}

CircuitBreakerState == {"CLOSED", "OPEN", "HALF_OPEN"}

CircuitState == [state    : CircuitBreakerState,
                 failures : Nat,
                 total    : Nat,
                 retryIn  : 0..HalfOpenTimeout]

NewCircuit == [state |-> "CLOSED", failures |-> 0, total |-> 0, retryIn |-> 0]

\* Slip: an open circuit that never looks at the retry time again.
RejectsForGood(c) == c.state = "OPEN"

\* The breaker throws MCP_CIRCUIT_OPEN without calling fn.
Rejects(c) == c.state = "OPEN" /\ c.retryIn > 0

\* A call the breaker lets through; the first one after the wait moves the
\* circuit to HALF_OPEN.
Admit(c) == IF c.state = "OPEN" THEN [c EXCEPT !.state = "HALF_OPEN"] ELSE c

\* Slip: totalRequests is not reset when the circuit closes.
OnSuccessKeepsTotal(c) ==
  IF c.state = "HALF_OPEN"
  THEN [c EXCEPT !.state = "CLOSED", !.failures = 0]
  ELSE [c EXCEPT !.total = @ + 1]

\* Slip: a late success closes a circuit that is still open.
OnSuccessClosesOpen(c) ==
  IF c.state # "CLOSED"
  THEN [c EXCEPT !.state = "CLOSED", !.failures = 0, !.total = 0, !.retryIn = 0]
  ELSE [c EXCEPT !.total = @ + 1]

OnSuccess(c) ==
  IF c.state = "HALF_OPEN"
  THEN [c EXCEPT !.state = "CLOSED", !.failures = 0, !.total = 0]
  ELSE [c EXCEPT !.total = @ + 1]

\* Slip: the minimum volume is not asked for.
TripsAtOnce(failures, total) == failures * ThresholdDen >= ThresholdNum * total

\* failures / total >= errorThreshold, once minRequests outcomes are in.
Trips(failures, total) ==
  /\ total >= MinRequests
  /\ failures * ThresholdDen >= ThresholdNum * total

OnFailure(c) ==
  LET counted == [c EXCEPT !.failures = @ + 1, !.total = @ + 1]
  IN  IF c.state = "HALF_OPEN" \/ Trips(counted.failures, counted.total)
      THEN [counted EXCEPT !.state = "OPEN", !.retryIn = HalfOpenTimeout]
      ELSE counted

\* One tick of the clock.
CountDown(n) == IF n > 0 THEN n - 1 ELSE n

Elapse(c) == [c EXCEPT !.retryIn = CountDown(@)]
=============================================================================
