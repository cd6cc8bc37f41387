---------------------------- MODULE CircuitBreaker ----------------------------
(***************************************************************************)
(* CircuitBreakerService.execute for one tool, with any number of calls in *)
(* flight: the state check happens when a call comes in, its outcome is    *)
(* counted when fn settles, and between the two lies an await in which     *)
(* every other call, and the clock, may move.                              *)
(***************************************************************************)
EXTENDS Circuit, FiniteSets

CONSTANT
  Calls         \* the calls of execute(); each is made once

ASSUME CallsAssumption == IsFiniteSet(Calls)

VARIABLES
  circuit,      \* this.circuits.get(toolName)
  pc,           \* where each call stands
  \* History, which no guard reads:
  counted,      \* calls counted since the circuit last closed (or was made)
  failed        \* those of them that failed

vars == <<circuit, pc, counted, failed>>

Init ==
  /\ circuit = NewCircuit
  /\ pc = [c \in Calls |-> "idle"]
  /\ counted = {}
  /\ failed = {}

Reject(c) ==
  /\ pc[c] = "idle"
  /\ Rejects(circuit)
  /\ pc' = [pc EXCEPT ![c] = "rejected"]
  /\ UNCHANGED <<circuit, counted, failed>>

Enter(c) ==
  /\ pc[c] = "idle"
  /\ ~Rejects(circuit)
  /\ circuit' = Admit(circuit)
  /\ pc' = [pc EXCEPT ![c] = "running"]
  /\ UNCHANGED <<counted, failed>>

\* The circuit leaves HALF_OPEN for CLOSED: a new account is opened.
Closes == circuit.state # "CLOSED" /\ circuit'.state = "CLOSED"

Succeed(c) ==
  /\ pc[c] = "running"
  /\ circuit' = OnSuccess(circuit)
  /\ pc' = [pc EXCEPT ![c] = "ok"]
  /\ counted' = IF Closes THEN {} ELSE counted \union {c}
  /\ failed' = IF Closes THEN {} ELSE failed

Fail(c) ==
  /\ pc[c] = "running"
  /\ circuit' = OnFailure(circuit)
  /\ pc' = [pc EXCEPT ![c] = "failed"]
  /\ counted' = counted \union {c}
  /\ failed' = failed \union {c}

Tick ==
  /\ circuit' = Elapse(circuit)
  /\ UNCHANGED <<pc, counted, failed>>

Next ==
  \/ \E c \in Calls : Reject(c) \/ Enter(c) \/ Succeed(c) \/ Fail(c)
  \/ Tick

\* The clock runs; callers and their work owe the service nothing.
Spec == Init /\ [][Next]_vars /\ WF_vars(Tick)

-----------------------------------------------------------------------------
\* Types of the state.
TypeOK ==
  /\ circuit \in CircuitState
  /\ pc \in [Calls -> {"idle", "running", "rejected", "ok", "failed"}]
  /\ counted \in SUBSET Calls
  /\ failed \in SUBSET Calls

\* The circuit's two counters are the outcomes reported since it last closed,
\* each call counted once, whatever state the circuit was in when the call was
\* admitted and however late it settles (onSuccess, onFailure and the reset on
\* HALF_OPEN -> CLOSED).
CircuitAccounts ==
  /\ circuit.total = Cardinality(counted)
  /\ circuit.failures = Cardinality(failed)
  /\ failed \subseteq counted
  /\ \A c \in counted : pc[c] \in {"ok", "failed"}

\* Only an open circuit is waiting, and never longer than halfOpenTimeout.
WaitOnlyWhenOpen == circuit.state # "OPEN" => circuit.retryIn = 0

\* A closed circuit opens on the strength of its own period only: at least
\* minRequests calls were reported since it last closed and the failing ones
\* reach the threshold.
TripJustified ==
  [][ circuit.state = "CLOSED" /\ circuit'.state = "OPEN" =>
        /\ Cardinality(counted') >= MinRequests
        /\ Cardinality(failed') * ThresholdDen
             >= ThresholdNum * Cardinality(counted') ]_vars

\* The service keeps the contract its callers see (execute): what it does
\* follows from the outcomes of the period alone, whichever calls overlap. It
\* closes on a good outcome while half open and on nothing else, opens on bad
\* ones, and lets no call through an open circuit before a full wait.  While
\* half open it lets every call through, where the table of the resilience
\* documentation has a single test call.
Contract == INSTANCE CircuitContract
              WITH st <- circuit.state,
                   wait <- circuit.retryIn,
                   through <- {c \in Calls : pc[c] = "running"},
                   good <- counted \ failed,
                   bad <- failed
KeepsContract == Contract!Spec

\* An open circuit does not stay shut: late failures may push the retry time
\* back, but in the end a call would be let through.
OpenEnds == circuit.state = "OPEN" ~> ~Rejects(circuit)
=============================================================================
