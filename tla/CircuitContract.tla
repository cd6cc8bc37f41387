--------------------------- MODULE CircuitContract ---------------------------
(***************************************************************************)
(* What a circuit promises its callers, told by the outcomes of their      *)
(* calls alone, without a counter: a closed circuit opens on enough bad    *)
(* outcomes of its own period; an open one stays shut for a full wait,     *)
(* counted from the last time it opened or was pushed back; while it is    *)
(* half open every call is let through, and the first outcome decides.     *)
(***************************************************************************)
EXTENDS Integers, FiniteSets

CONSTANTS Calls, MinRequests, ThresholdNum, ThresholdDen, HalfOpenTimeout

VARIABLES
  st,       \* the state callers see
  wait,     \* what is left of an open circuit's wait
  through,  \* calls let through that have no outcome yet
  good,     \* calls with a good outcome in the present period
  bad       \* and those with a bad one

cvars == <<st, wait, through, good, bad>>

Init == st = "CLOSED" /\ wait = 0 /\ through = {} /\ good = {} /\ bad = {}

\* A call goes through, but never an open circuit whose wait is not over: the
\* first one after it makes the circuit half open.
LetThrough(c) ==
  /\ c \notin through \union good \union bad
  /\ st = "OPEN" => wait = 0
  /\ st' = IF st = "OPEN" THEN "HALF_OPEN" ELSE st
  /\ through' = through \union {c}
  /\ UNCHANGED <<wait, good, bad>>

\* A good outcome closes a half-open circuit, and only such a one; with that
\* a new period begins.
SettleGood(c) ==
  /\ c \in through
  /\ through' = through \ {c}
  /\ IF st = "HALF_OPEN"
     THEN st' = "CLOSED" /\ good' = {} /\ bad' = {}
     ELSE good' = good \union {c} /\ UNCHANGED <<st, bad>>
  /\ UNCHANGED wait

TooManyBad ==
  LET outcomes == Cardinality(good' \union bad')
  IN  /\ outcomes >= MinRequests
      /\ Cardinality(bad') * ThresholdDen >= ThresholdNum * outcomes

\* A bad outcome opens a half-open circuit, and any other when the bad ones
\* of the period are too many; an open one is then pushed back.
SettleBad(c) ==
  /\ c \in through
  /\ through' = through \ {c}
  /\ bad' = bad \union {c}
  /\ IF st = "HALF_OPEN" \/ TooManyBad
     THEN st' = "OPEN" /\ wait' = HalfOpenTimeout
     ELSE UNCHANGED <<st, wait>>
  /\ UNCHANGED good

Elapse ==
  /\ wait > 0
  /\ wait' = wait - 1
  /\ UNCHANGED <<st, through, good, bad>>

Next ==
  \/ \E c \in Calls : LetThrough(c) \/ SettleGood(c) \/ SettleBad(c)
  \/ Elapse

Spec == Init /\ [][Next]_cvars
=============================================================================
