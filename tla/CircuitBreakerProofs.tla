------------------------- MODULE CircuitBreakerProofs -------------------------
(***************************************************************************)
(* Theorems about CircuitBreaker, for any set of calls and any settings.   *)
(***************************************************************************)
EXTENDS CircuitBreaker, FiniteSetTheorems, TLAPS

-----------------------------------------------------------------------------
(* What the steps of the service keep of a circuit. *)

\* One field of a circuit may be set to any value of its type.
LEMMA FieldsTyped ==
  ASSUME NEW c \in CircuitState, NEW n \in Nat,
         NEW s \in CircuitBreakerState, NEW w \in 0..HalfOpenTimeout
  PROVE  /\ [c EXCEPT !.state = s] \in CircuitState
         /\ [c EXCEPT !.failures = n] \in CircuitState
         /\ [c EXCEPT !.total = n] \in CircuitState
         /\ [c EXCEPT !.retryIn = w] \in CircuitState
BY DEF CircuitState

\* The steps of the service keep the type of a circuit.
LEMMA CircuitStepsTyped ==
  ASSUME NEW c \in CircuitState
  PROVE  /\ NewCircuit \in CircuitState
         /\ Admit(c) \in CircuitState
         /\ OnSuccess(c) \in CircuitState
         /\ OnFailure(c) \in CircuitState
         /\ Elapse(c) \in CircuitState
<1>0. /\ c.failures + 1 \in Nat /\ c.total + 1 \in Nat
      /\ HalfOpenTimeout \in 0..HalfOpenTimeout
      /\ CountDown(c.retryIn) \in 0..HalfOpenTimeout
      /\ {"CLOSED", "OPEN", "HALF_OPEN"} = CircuitBreakerState
  BY CircuitAssumption DEF CircuitState, CircuitBreakerState, CountDown
<1>1. NewCircuit \in CircuitState
  BY CircuitAssumption DEF NewCircuit, CircuitState, CircuitBreakerState
<1>2. Admit(c) \in CircuitState
  BY <1>0, FieldsTyped DEF Admit
<1>3. OnSuccess(c) \in CircuitState
  <2> DEFINE closed == [c EXCEPT !.state = "CLOSED"]
             emptied == [closed EXCEPT !.failures = 0]
  <2>1. closed \in CircuitState
    BY <1>0, FieldsTyped
  <2>2. \A d \in CircuitState : [d EXCEPT !.failures = 0] \in CircuitState
    BY <1>0, FieldsTyped
  <2>3. \A d \in CircuitState : [d EXCEPT !.total = 0] \in CircuitState
    BY <1>0, FieldsTyped
  <2>5. [emptied EXCEPT !.total = 0] \in CircuitState
    <3> HIDE DEF closed
    <3> QED BY <2>1, <2>2, <2>3
  <2>4. [c EXCEPT !.total = @ + 1] \in CircuitState
    BY <1>0, FieldsTyped
  <2> QED BY <2>4, <2>5 DEF OnSuccess
<1>4. OnFailure(c) \in CircuitState
  <2> DEFINE failedOnce == [c EXCEPT !.failures = @ + 1]
             counted1 == [failedOnce EXCEPT !.total = @ + 1]
             opened == [counted1 EXCEPT !.state = "OPEN"]
  <2>1. failedOnce \in CircuitState /\ failedOnce.total = c.total
    BY <1>0, FieldsTyped DEF CircuitState
  <2>2. counted1 \in CircuitState
    BY <1>0, <2>1, FieldsTyped
  <2>3. opened \in CircuitState
    BY <1>0, <2>2, FieldsTyped
  <2>4. [opened EXCEPT !.retryIn = HalfOpenTimeout] \in CircuitState
    BY <1>0, <2>3, FieldsTyped
  <2> QED BY <2>2, <2>4 DEF OnFailure
<1>5. Elapse(c) \in CircuitState
  BY <1>0, FieldsTyped DEF Elapse
<1> QED BY <1>1, <1>2, <1>3, <1>4, <1>5

-----------------------------------------------------------------------------
\* Type correctness.
LEMMA InitTyped == Init => TypeOK
BY CircuitStepsTyped, CircuitAssumption
   DEF Init, TypeOK, CircuitBreakerState, CircuitState, NewCircuit

LEMMA NextTyped == TypeOK /\ [Next]_vars => TypeOK'
<1> SUFFICES ASSUME TypeOK, [Next]_vars PROVE TypeOK'
  OBVIOUS
<1> USE DEF TypeOK
<1>1. ASSUME NEW c \in Calls, Reject(c) PROVE TypeOK'
  BY <1>1 DEF Reject
<1>2. ASSUME NEW c \in Calls, Enter(c) PROVE TypeOK'
  BY <1>2, CircuitStepsTyped DEF Enter
<1>3. ASSUME NEW c \in Calls, Succeed(c) PROVE TypeOK'
  BY <1>3, CircuitStepsTyped DEF Succeed
<1>4. ASSUME NEW c \in Calls, Fail(c) PROVE TypeOK'
  BY <1>4, CircuitStepsTyped DEF Fail
<1>5. CASE Tick
  BY <1>5, CircuitStepsTyped DEF Tick
<1>6. CASE UNCHANGED vars
  BY <1>6 DEF vars
<1> QED BY <1>1, <1>2, <1>3, <1>4, <1>5, <1>6 DEF Next

\* The state keeps its types.
THEOREM TypeCorrect == Spec => []TypeOK
BY InitTyped, NextTyped, PTL DEF Spec

-----------------------------------------------------------------------------
(* The circuit's books, and the wait only an open circuit has. *)

LEMMA InitAccounts == Init => CircuitAccounts /\ WaitOnlyWhenOpen
BY FS_EmptySet
   DEF Init, CircuitAccounts, WaitOnlyWhenOpen, NewCircuit

\* Counting one more call raises the two cardinalities by what the circuit
\* adds to its counters.
LEMMA CountedOnce ==
  ASSUME TypeOK, CircuitAccounts, NEW c \in Calls, pc[c] = "running"
  PROVE  /\ Cardinality(counted \union {c}) = circuit.total + 1
         /\ Cardinality(failed \union {c}) = circuit.failures + 1
<1>1. IsFiniteSet(counted) /\ IsFiniteSet(failed)
  BY CallsAssumption, FS_Subset DEF TypeOK
<1>2. c \notin counted /\ c \notin failed
  BY DEF CircuitAccounts
<1>3. Cardinality(counted \union {c}) = Cardinality(counted) + 1
  BY <1>1, <1>2, FS_AddElement
<1>4. Cardinality(failed \union {c}) = Cardinality(failed) + 1
  BY <1>1, <1>2, FS_AddElement
<1> QED BY <1>3, <1>4 DEF CircuitAccounts

LEMMA NextAccounts ==
  TypeOK /\ CircuitAccounts /\ WaitOnlyWhenOpen /\ [Next]_vars
    => CircuitAccounts' /\ WaitOnlyWhenOpen'
<1> SUFFICES ASSUME TypeOK, CircuitAccounts, WaitOnlyWhenOpen, [Next]_vars
             PROVE  CircuitAccounts' /\ WaitOnlyWhenOpen'
  OBVIOUS
<1> USE CircuitAssumption
<1>0. circuit \in CircuitState /\ pc \in [Calls -> {"idle", "running", "rejected", "ok", "failed"}]
  BY DEF TypeOK
<1>1. ASSUME NEW c \in Calls, Reject(c)
      PROVE  CircuitAccounts' /\ WaitOnlyWhenOpen'
  BY <1>0, <1>1 DEF Reject, CircuitAccounts, WaitOnlyWhenOpen
<1>2. ASSUME NEW c \in Calls, Enter(c)
      PROVE  CircuitAccounts' /\ WaitOnlyWhenOpen'
  <2>1. circuit'.total = circuit.total /\ circuit'.failures = circuit.failures
    BY <1>0, <1>2 DEF Enter, Admit, CircuitState
  <2>2. CircuitAccounts'
    BY <1>0, <1>2, <2>1 DEF Enter, CircuitAccounts
  <2>3. WaitOnlyWhenOpen'
    BY <1>0, <1>2 DEF Enter, Admit, Rejects, WaitOnlyWhenOpen, CircuitState
  <2> QED BY <2>2, <2>3
<1>3. ASSUME NEW c \in Calls, Succeed(c)
      PROVE  CircuitAccounts' /\ WaitOnlyWhenOpen'
  <2>1. CASE circuit.state = "HALF_OPEN"
    <3>1. /\ circuit' = [circuit EXCEPT !.state = "CLOSED", !.failures = 0, !.total = 0]
          /\ counted' = {} /\ failed' = {}
      BY <1>0, <1>3, <2>1 DEF Succeed, OnSuccess, Closes, CircuitState
    <3> QED BY <1>0, <2>1, <3>1, FS_EmptySet
            DEF CircuitAccounts, WaitOnlyWhenOpen, CircuitState
  <2>2. CASE circuit.state # "HALF_OPEN"
    <3>1. /\ circuit' = [circuit EXCEPT !.total = @ + 1]
          /\ counted' = counted \union {c} /\ failed' = failed
          /\ pc' = [pc EXCEPT ![c] = "ok"]
      BY <1>0, <1>3, <2>2 DEF Succeed, OnSuccess, Closes, CircuitState
    <3>2. Cardinality(counted') = circuit.total + 1
      BY <1>3, <3>1, CountedOnce DEF Succeed
    <3> QED BY <1>0, <3>1, <3>2 DEF CircuitAccounts, WaitOnlyWhenOpen, CircuitState
  <2> QED BY <2>1, <2>2
<1>4. ASSUME NEW c \in Calls, Fail(c)
      PROVE  CircuitAccounts' /\ WaitOnlyWhenOpen'
  <2>1. /\ circuit'.total = circuit.total + 1
        /\ circuit'.failures = circuit.failures + 1
        /\ circuit'.state # "OPEN" => circuit'.retryIn = circuit.retryIn
        /\ circuit'.state # "OPEN" => circuit.state = circuit'.state
    BY <1>0, <1>4 DEF Fail, OnFailure, CircuitState
  <2>2. /\ Cardinality(counted') = circuit.total + 1
        /\ Cardinality(failed') = circuit.failures + 1
    BY <1>4, CountedOnce DEF Fail
  <2>3. CircuitAccounts'
    BY <1>0, <1>4, <2>1, <2>2 DEF Fail, CircuitAccounts
  <2>4. WaitOnlyWhenOpen'
    BY <2>1 DEF WaitOnlyWhenOpen
  <2> QED BY <2>3, <2>4
<1>5. CASE Tick
  BY <1>0, <1>5 DEF Tick, Elapse, CountDown, CircuitAccounts, WaitOnlyWhenOpen, CircuitState
<1>6. CASE UNCHANGED vars
  BY <1>6 DEF vars, CircuitAccounts, WaitOnlyWhenOpen
<1> QED BY <1>1, <1>2, <1>3, <1>4, <1>5, <1>6 DEF Next

IInv == TypeOK /\ CircuitAccounts /\ WaitOnlyWhenOpen

LEMMA Inductive == Spec => []IInv
<1>1. Init => IInv
  BY InitTyped, InitAccounts DEF IInv
<1>2. IInv /\ [Next]_vars => IInv'
  BY NextTyped, NextAccounts DEF IInv
<1> QED BY <1>1, <1>2, PTL DEF Spec

\* The counters of the circuit are the outcomes since it last closed.
THEOREM AccountsKept == Spec => []CircuitAccounts
<1>1. IInv => CircuitAccounts
  BY DEF IInv
<1> QED BY <1>1, Inductive, PTL

\* A circuit opens only on enough outcomes of its own period.
THEOREM TripsJustified == Spec => TripJustified
<1>1. IInv /\ [Next]_vars =>
        [ circuit.state = "CLOSED" /\ circuit'.state = "OPEN" =>
            /\ Cardinality(counted') >= MinRequests
            /\ Cardinality(failed') * ThresholdDen
                 >= ThresholdNum * Cardinality(counted') ]_vars
  <2> SUFFICES ASSUME IInv, Next,
                      circuit.state = "CLOSED", circuit'.state = "OPEN"
               PROVE  /\ Cardinality(counted') >= MinRequests
                      /\ Cardinality(failed') * ThresholdDen
                           >= ThresholdNum * Cardinality(counted')
    OBVIOUS
  <2>0. circuit \in CircuitState
    BY DEF IInv, TypeOK
  <2>1. PICK c \in Calls : Fail(c)
    BY <2>0 DEF Next, Reject, Enter, Succeed, Tick, Admit, OnSuccess, Elapse, CircuitState
  <2>2. Trips(circuit.failures + 1, circuit.total + 1)
    BY <2>0, <2>1 DEF Fail, OnFailure, CircuitState
  <2>3. /\ Cardinality(counted') = circuit.total + 1
        /\ Cardinality(failed') = circuit.failures + 1
    BY <2>1, CountedOnce DEF Fail, IInv
  <2> QED BY <2>2, <2>3 DEF Trips
<1> QED BY <1>1, Inductive, PTL DEF Spec, TripJustified

-----------------------------------------------------------------------------
\* The breaker implements the contract its callers see.
THEOREM ContractKept == Spec => KeepsContract
<1> DEFINE through == {c \in Calls : pc[c] = "running"}
           good == counted \ failed
<1>1. Init => Contract!Init
  BY DEF Init, NewCircuit, Contract!Init
<1>2. IInv /\ [Next]_vars => [Contract!Next]_(Contract!cvars)
  <2> SUFFICES ASSUME IInv, [Next]_vars PROVE [Contract!Next]_(Contract!cvars)
    OBVIOUS
  <2> USE CircuitAssumption
  <2>0. /\ circuit \in CircuitState /\ WaitOnlyWhenOpen
        /\ pc \in [Calls -> {"idle", "running", "rejected", "ok", "failed"}]
        /\ failed \subseteq counted
        /\ \A c \in counted : c \in Calls /\ pc[c] \in {"ok", "failed"}
    BY DEF IInv, TypeOK, CircuitAccounts
  <2>1. ASSUME NEW c \in Calls, Reject(c)
        PROVE  [Contract!Next]_(Contract!cvars)
    <3>1. through' = through
      BY <2>0, <2>1 DEF Reject
    <3> QED BY <2>1, <3>1 DEF Reject, Contract!cvars
  <2>2. ASSUME NEW c \in Calls, Enter(c)
        PROVE  [Contract!Next]_(Contract!cvars)
    <3>1. /\ through' = through \union {c}
          /\ c \notin through \union good \union failed
          /\ good' = good /\ failed' = failed
      BY <2>0, <2>2 DEF Enter
    <3>2. /\ circuit.state = "OPEN" => circuit.retryIn = 0
          /\ circuit'.state = IF circuit.state = "OPEN" THEN "HALF_OPEN" ELSE circuit.state
          /\ circuit'.retryIn = circuit.retryIn
      BY <2>0, <2>2 DEF Enter, Rejects, Admit, CircuitState
    <3>3. Contract!LetThrough(c)
      BY <3>1, <3>2 DEF Contract!LetThrough
    <3> QED BY <3>3 DEF Contract!Next
  <2>3. ASSUME NEW c \in Calls, Succeed(c)
        PROVE  [Contract!Next]_(Contract!cvars)
    <3>1. c \in through /\ through' = through \ {c} /\ c \notin counted
      BY <2>0, <2>3 DEF Succeed
    <3>2. CASE circuit.state = "HALF_OPEN"
      <4>1. /\ circuit'.state = "CLOSED" /\ circuit'.retryIn = circuit.retryIn
            /\ good' = {} /\ failed' = {}
        BY <2>0, <2>3, <3>2 DEF Succeed, OnSuccess, Closes, CircuitState
      <4> QED BY <3>1, <3>2, <4>1 DEF Contract!SettleGood, Contract!Next
    <3>3. CASE circuit.state # "HALF_OPEN"
      <4>1. /\ circuit'.state = circuit.state /\ circuit'.retryIn = circuit.retryIn
            /\ counted' = counted \union {c} /\ failed' = failed
        BY <2>0, <2>3, <3>3 DEF Succeed, OnSuccess, Closes, CircuitState
      <4>2. good' = good \union {c}
        BY <2>0, <3>1, <4>1
      <4> QED BY <3>1, <3>3, <4>1, <4>2 DEF Contract!SettleGood, Contract!Next
    <3> QED BY <3>2, <3>3
  <2>4. ASSUME NEW c \in Calls, Fail(c)
        PROVE  [Contract!Next]_(Contract!cvars)
    <3>1. c \in through /\ through' = through \ {c} /\ c \notin counted
      BY <2>0, <2>4 DEF Fail
    <3>2. /\ failed' = failed \union {c} /\ good' = good
          /\ good' \union failed' = counted'
      BY <2>0, <2>4, <3>1 DEF Fail
    <3>3. /\ Cardinality(counted') = circuit.total + 1
          /\ Cardinality(failed') = circuit.failures + 1
      BY <2>4, CountedOnce DEF Fail, IInv
    <3>4. Contract!TooManyBad <=> Trips(circuit.failures + 1, circuit.total + 1)
      BY <3>2, <3>3
         DEF Contract!TooManyBad, Trips, Contract!Cardinality, Cardinality
    <3>5. /\ circuit'.state = IF circuit.state = "HALF_OPEN"
                                 \/ Trips(circuit.failures + 1, circuit.total + 1)
                              THEN "OPEN" ELSE circuit.state
          /\ circuit'.retryIn = IF circuit.state = "HALF_OPEN"
                                   \/ Trips(circuit.failures + 1, circuit.total + 1)
                                THEN HalfOpenTimeout ELSE circuit.retryIn
      BY <2>0, <2>4 DEF Fail, OnFailure, CircuitState
    <3>6. Contract!SettleBad(c)
      BY <3>1, <3>2, <3>4, <3>5 DEF Contract!SettleBad
    <3> QED BY <3>6 DEF Contract!Next
  <2>5. CASE Tick
    <3>1. UNCHANGED <<through, good, failed>>
      BY <2>5 DEF Tick
    <3>2. /\ circuit'.state = circuit.state
          /\ circuit'.retryIn = IF circuit.retryIn > 0 THEN circuit.retryIn - 1
                                                       ELSE circuit.retryIn
      BY <2>0, <2>5 DEF Tick, Elapse, CountDown, CircuitState
    <3>3. circuit.retryIn \in 0..HalfOpenTimeout
      BY <2>0 DEF CircuitState
    <3>4. CASE circuit.retryIn > 0
      BY <3>1, <3>2, <3>4 DEF Contract!Elapse, Contract!Next
    <3>5. CASE ~(circuit.retryIn > 0)
      BY <3>1, <3>2, <3>5 DEF Contract!cvars
    <3> QED BY <3>4, <3>5
  <2>6. CASE UNCHANGED vars
    BY <2>6 DEF vars, Contract!cvars
  <2> QED BY <2>1, <2>2, <2>3, <2>4, <2>5, <2>6 DEF Next
<1> QED BY <1>1, <1>2, Inductive, PTL DEF Spec, KeepsContract, Contract!Spec
=============================================================================
