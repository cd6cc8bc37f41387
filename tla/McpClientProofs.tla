---------------------------- MODULE McpClientProofs ----------------------------
(***************************************************************************)
(* Proofs about McpClient: types, one reconnection loop, and what the      *)
(* client may claim of its transports and handlers, for any overlap of any *)
(* number of calls, loops and transports.                                  *)
(***************************************************************************)
EXTENDS McpClient, TLAPS

\* Each part is inductive once the types and the single loop are known.
IInv == TypeOK /\ OneLoop /\ ConnectedIsOpen /\ HandlersApplied

-----------------------------------------------------------------------------
(* The pieces the actions share. *)

\* createClientTransport gives one of the fresh transports.
LEMMA NewIsFresh == Fresh # {} => NewTransport \in Fresh
BY DEF NewTransport

LEMMA FreshIsClosed == \A t \in Fresh : t \in Transports /\ link[t] = "closed"
BY DEF Fresh

\* Closing a transport keeps the types of what it changes.
LEMMA ClosesTyped ==
  ASSUME TypeOK, NEW t \in Transports, Closes(t)
  PROVE  /\ link' \in [Transports -> {"closed", "opening", "open"}]
         /\ attached' \in Transports \union {None}
BY DEF TypeOK, Closes

\* The way round the loop keeps its types and, of the one loop that runs or the
\* one that begins while none does, makes at most one.
LEMMA NextAttemptKeeps ==
  ASSUME TypeOK, OneLoop, NEW l \in Loops, NextAttempt(l),
         loop[l] # "idle" \/ ~reconnecting
  PROVE  /\ reconnecting' \in BOOLEAN
         /\ attempts' \in 0..MaxAttempts
         /\ loop' \in [Loops -> Transports \union {"idle", "sleeping"}]
         /\ OneLoop'
<1> USE DEF TypeOK
<1>others. \A k \in Loops : k # l => loop[k] = "idle"
  BY DEF OneLoop
<1>1. CASE MoreAttempts
  <2>1. /\ attempts' = attempts + 1
        /\ loop' = [loop EXCEPT ![l] = "sleeping"]
        /\ reconnecting' = TRUE
    BY <1>1 DEF NextAttempt
  <2>2. attempts' \in 0..MaxAttempts
    BY <1>1, <2>1, ClientAssumption DEF MoreAttempts
  <2>3. OneLoop'
    BY <1>others, <2>1 DEF OneLoop
  <2> QED
    BY <2>1, <2>2, <2>3
<1>2. CASE ~MoreAttempts
  <2>1. /\ loop' = [loop EXCEPT ![l] = "idle"]
        /\ reconnecting' = FALSE
        /\ UNCHANGED attempts
    BY <1>2 DEF NextAttempt
  <2>2. OneLoop'
    BY <1>others, <2>1 DEF OneLoop
  <2> QED
    BY <2>1, <2>2
<1> QED
  BY <1>1, <1>2

\* handleDisconnect, whichever transport closed.
LEMMA HandleKeeps ==
  ASSUME TypeOK, OneLoop, NEW t \in Transports, HandleDisconnect(t)
  PROVE  /\ ~connected'
         /\ reconnecting' \in BOOLEAN
         /\ attempts' \in 0..MaxAttempts
         /\ loop' \in [Loops -> Transports \union {"idle", "sleeping"}]
         /\ OneLoop'
<1>1. CASE connected /\ Reconnects /\ ~reconnecting
  <2>1. PICK l \in Loops : loop[l] = "idle" /\ NextAttempt(l)
    BY <1>1 DEF HandleDisconnect, Concerns, MayBegin
  <2> QED
    BY <1>1, <2>1, NextAttemptKeeps DEF HandleDisconnect, Concerns
<1>2. CASE connected /\ ~(Reconnects /\ ~reconnecting)
  BY <1>2 DEF HandleDisconnect, Concerns, MayBegin, TypeOK, OneLoop
<1>3. CASE ~connected
  BY <1>3 DEF HandleDisconnect, Concerns, flags, TypeOK, OneLoop
<1> QED
  BY <1>1, <1>2, <1>3

-----------------------------------------------------------------------------
(* The invariant. *)

LEMMA InitKeeps == Init => IInv
<1> SUFFICES ASSUME Init PROVE IInv
  OBVIOUS
<1>b. connected \in BOOLEAN /\ reconnecting \in BOOLEAN
  BY Zenon DEF Init
<1>n. attempts \in 0..MaxAttempts
  BY ClientAssumption DEF Init
<1>1. TypeOK
  BY <1>b, <1>n DEF Init, TypeOK
<1>2. OneLoop
  BY DEF Init, OneLoop
<1> QED
  BY <1>1, <1>2 DEF Init, IInv, ConnectedIsOpen, HandlersApplied

\* What handleDisconnect leaves is disconnected, so nothing is claimed of it.
LEMMA DisconnectedKeeps ==
  ASSUME IInv, NEW t \in Transports, Closes(t), HandleDisconnect(t),
         calls' \in [Connects -> Transports \union {"idle", "done"}],
         UNCHANGED <<transport, closing, handlers>>
  PROVE  IInv'
<1>1. TypeOK /\ OneLoop
  BY DEF IInv
<1>2. /\ link' \in [Transports -> {"closed", "opening", "open"}]
      /\ attached' \in Transports \union {None}
  BY <1>1, ClosesTyped
<1>3. /\ ~connected'
      /\ reconnecting' \in BOOLEAN
      /\ attempts' \in 0..MaxAttempts
      /\ loop' \in [Loops -> Transports \union {"idle", "sleeping"}]
      /\ OneLoop'
  BY <1>1, HandleKeeps
<1>4. connected' \in BOOLEAN
  BY DEF HandleDisconnect, flags, IInv, TypeOK
<1>5. TypeOK'
  BY <1>1, <1>2, <1>3, <1>4 DEF TypeOK, handlers
<1> QED
  BY <1>3, <1>5 DEF IInv, ConnectedIsOpen, HandlersApplied

LEMMA NextKeeps == IInv /\ [Next]_vars => IInv'
<1> SUFFICES ASSUME IInv, [Next]_vars PROVE IInv'
  OBVIOUS
<1> USE ClientAssumption
<1>0. TypeOK /\ OneLoop /\ HandlersApplied
  BY DEF IInv
<1>open. connected => \E t \in Transports : link[t] = "open"
  BY DEF IInv, ConnectedIsOpen
<1>1. ASSUME NEW t \in Transports, Lost(t) PROVE IInv'
  BY <1>0, <1>1, DisconnectedKeeps DEF Lost, TypeOK
<1>2. ASSUME NEW c \in Connects, Connect(c) PROVE IInv'
  <2>1. CASE connected
    BY <1>0, <1>open, <1>2, <2>1
    DEF Connect, IInv, TypeOK, OneLoop, ConnectedIsOpen, HandlersApplied, flags, handlers
  <2>2. CASE ~connected
    <3>1. NewTransport \in Transports
      BY <1>2, <2>2, NewIsFresh, FreshIsClosed DEF Connect
    <3> QED
      BY <1>0, <1>2, <2>2, <3>1
      DEF Connect, IInv, TypeOK, OneLoop, ConnectedIsOpen, HandlersApplied, flags, handlers
  <2> QED
    BY <2>1, <2>2
<1>3. ASSUME NEW c \in Connects, Connected(c) PROVE IInv'
  BY <1>0, <1>3
  DEF Connected, Established, Awaits, IInv, TypeOK, OneLoop, ConnectedIsOpen, HandlersApplied
<1>4. ASSUME NEW c \in Connects, ConnectFails(c) PROVE IInv'
  <2>1. calls[c] \in Transports /\ calls' \in [Connects -> Transports \union {"idle", "done"}]
    BY <1>0, <1>4 DEF ConnectFails, Awaits, TypeOK
  <2>2. CASE link[calls[c]] = "closed"
    <3>1. link' = link /\ attached' \in {attached, None}
      BY <1>0, <1>4, <2>1, <2>2 DEF ConnectFails, Closes, TypeOK
    <3> QED
      BY <1>0, <1>open, <1>4, <2>1, <2>2, <3>1
      DEF ConnectFails, IInv, TypeOK, OneLoop, ConnectedIsOpen, HandlersApplied, flags, handlers
  <2>3. CASE link[calls[c]] # "closed"
    BY <1>4, <2>1, <2>3, DisconnectedKeeps DEF ConnectFails
  <2> QED
    BY <2>2, <2>3
<1>5. ASSUME NEW d \in Disconnects, Disconnect(d) PROVE IInv'
  BY <1>0, <1>5
  DEF Disconnect, IInv, TypeOK, OneLoop, ConnectedIsOpen, HandlersApplied, handlers
<1>6. ASSUME NEW d \in Disconnects, CloseDone(d) PROVE IInv'
  BY <1>0, <1>6, DisconnectedKeeps DEF CloseDone, Awaits, TypeOK
<1>7. ASSUME NEW d \in Disconnects, Disconnected(d) PROVE IInv'
  BY <1>0, <1>open, <1>7
  DEF Disconnected, IInv, TypeOK, OneLoop, ConnectedIsOpen, HandlersApplied, flags, handlers
<1>8. ASSUME NEW l \in Loops, LoopWakes(l) PROVE IInv'
  <2>1. NewTransport \in Transports /\ link[NewTransport] = "closed"
    BY <1>8, NewIsFresh, FreshIsClosed DEF LoopWakes
  <2> QED
    BY <1>0, <1>open, <1>8, <2>1
    DEF LoopWakes, IInv, TypeOK, OneLoop, ConnectedIsOpen, HandlersApplied, flags
<1>9. ASSUME NEW l \in Loops, LoopConnected(l) PROVE IInv'
  <2>1. loop[l] \in Transports /\ loop[l] # "idle"
    BY <1>9 DEF LoopConnected, Awaits
  <2>2. \A k \in Loops : loop'[k] = "idle"
    BY <1>0, <1>9, <2>1 DEF LoopConnected, OneLoop, TypeOK
  <2>3. OneLoop'
    BY <1>9, <2>2 DEF LoopConnected, OneLoop
  <2>b. connected' \in BOOLEAN /\ reconnecting' \in BOOLEAN
    BY <1>9, Zenon DEF LoopConnected, Established
  <2>n. attempts' \in 0..MaxAttempts
    BY <1>9 DEF LoopConnected, Established
  <2>4. TypeOK'
    BY <1>0, <1>9, <2>b, <2>n DEF LoopConnected, Established, TypeOK
  <2>5. link'[loop[l]] = "open" /\ applied' = store'
    BY <1>0, <1>9, <2>1 DEF LoopConnected, Established, TypeOK
  <2> QED
    BY <2>1, <2>3, <2>4, <2>5 DEF IInv, ConnectedIsOpen, HandlersApplied
<1>10. ASSUME NEW l \in Loops, LoopFails(l) PROVE IInv'
  <2>1. loop[l] \in Transports /\ Closes(loop[l]) /\ loop[l] # "idle"
    BY <1>10 DEF LoopFails, Awaits
  <2>2. TypeOK' /\ OneLoop'
    BY <1>0, <1>10, <2>1, ClosesTyped, NextAttemptKeeps DEF LoopFails, TypeOK, handlers
  <2>3. ASSUME connected' PROVE connected /\ link[loop[l]] = "closed"
    BY <1>10, <2>3 DEF LoopFails
  <2>4. ASSUME connected' PROVE link' = link /\ attached' \in {attached, None}
    BY <1>0, <2>1, <2>3, <2>4 DEF Closes, TypeOK
  <2> QED
    BY <1>0, <1>open, <1>10, <2>2, <2>3, <2>4
    DEF LoopFails, IInv, ConnectedIsOpen, HandlersApplied, handlers
<1>11. ASSUME NEW m \in Methods, OnNotification(m) PROVE IInv'
  BY <1>0, <1>open, <1>11
  DEF OnNotification, IInv, TypeOK, OneLoop, ConnectedIsOpen, HandlersApplied, flags
<1>12. CASE UNCHANGED vars
  BY <1>0, <1>open, <1>12
  DEF vars, flags, handlers, IInv, TypeOK, OneLoop, ConnectedIsOpen, HandlersApplied
<1> QED
  BY <1>1, <1>2, <1>3, <1>4, <1>5, <1>6, <1>7, <1>8, <1>9, <1>10, <1>11, <1>12
  DEF Next, LoopStep

\* Whatever overlaps, one reconnection loop runs at a time, and reconnecting
\* says whether one does (attemptReconnect).
THEOREM LoopsAreOne == Spec => []OneLoop
<1>1. IInv => OneLoop
  BY DEF IInv
<1> QED
  BY InitKeeps, NextKeeps, <1>1, PTL DEF Spec

\* The client keeps its types and never calls itself connected while no
\* transport is open (connect, disconnect, handleDisconnect).
THEOREM ConnectedOverOpen == Spec => []ConnectedIsOpen
<1>1. IInv => ConnectedIsOpen
  BY DEF IInv
<1> QED
  BY InitKeeps, NextKeeps, <1>1, PTL DEF Spec

\* The notification handlers survive every reconnection: the SDK client that is
\* attached and open has all of them (_reapplyNotificationHandlers).
THEOREM HandlersSurvive == Spec => []HandlersApplied
<1>1. IInv => HandlersApplied
  BY DEF IInv
<1> QED
  BY InitKeeps, NextKeeps, <1>1, PTL DEF Spec
===============================================================================
