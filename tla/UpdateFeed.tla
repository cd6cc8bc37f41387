------------------------------ MODULE UpdateFeed ------------------------------
(***************************************************************************)
(* What resource subscriptions promise a client, without maps, labels or   *)
(* servers: an update of a uri reaches every open session that asked for   *)
(* it, no session that did not, and nobody once its stream is closed.      *)
(***************************************************************************)
EXTENDS Naturals

CONSTANTS Sessions, Uris

VARIABLES
  open,       \* sessions with an open stream
  wants,      \* the uris each open session is subscribed to
  received    \* the uris each session has been sent an update of

vars == <<open, wants, received>>

Init ==
  /\ open = {}
  /\ wants = [s \in Sessions |-> {}]
  /\ received = [s \in Sessions |-> {}]

Opens(s) ==
  /\ open' = open \union {s}
  /\ UNCHANGED <<wants, received>>

Closes(s) ==
  /\ open' = open \ {s}
  /\ wants' = [wants EXCEPT ![s] = {}]
  /\ UNCHANGED received

Asks(s, u) ==
  /\ s \in open
  /\ wants' = [wants EXCEPT ![s] = @ \union {u}]
  /\ UNCHANGED <<open, received>>

Withdraws(s, u) ==
  /\ s \in open
  /\ wants' = [wants EXCEPT ![s] = @ \ {u}]
  /\ UNCHANGED <<open, received>>

Updated(u) ==
  /\ received' = [s \in Sessions |->
                    IF u \in wants[s] THEN received[s] \union {u} ELSE received[s]]
  /\ UNCHANGED <<open, wants>>

Next ==
  \/ \E s \in Sessions : Opens(s) \/ Closes(s)
  \/ \E s \in Sessions, u \in Uris : Asks(s, u) \/ Withdraws(s, u)
  \/ \E u \in Uris : Updated(u)

Spec == Init /\ [][Next]_vars
=============================================================================
