------------------------------ MODULE McpClient ------------------------------
(***************************************************************************)
(* One McpClient: connect() and disconnect() called by the application in  *)
(* any overlap, connections that are lost, and the reconnection loop that  *)
(* a loss starts.  All of them share this.client, this.transport and the   *)
(* flags, and none of them looks again after an await.                     *)
(*                                                                         *)
(* A transport is an object made by createClientTransport; one that nobody *)
(* refers to and that is closed may be drawn again, so that the pool stays *)
(* finite.                                                                 *)
(***************************************************************************)
EXTENDS Naturals

CONSTANTS
  Connects,      \* calls of connect()
  Disconnects,   \* calls of disconnect()
  Loops,         \* calls of attemptReconnect() that got past its guard
  Transports,    \* the pool of transports
  None,          \* no transport
  Methods,       \* notification methods with handlers
  MaxAttempts,   \* reconnect.maxAttempts
  Reconnects     \* reconnect is configured

ASSUME ClientAssumption ==
  /\ Transports \intersect {None, "idle", "sleeping", "done"} = {}
  /\ MaxAttempts \in Nat
  /\ Reconnects \in BOOLEAN

VARIABLES
  connected,     \* this.connected
  reconnecting,  \* this.reconnecting
  attempts,      \* this.reconnectAttempts
  transport,     \* this.transport
  attached,      \* the transport this.client is attached to
  link,          \* state of each transport
  calls,         \* each connect(): "idle", "done", or the transport it awaits
  closing,       \* each disconnect(): likewise, awaiting transport.close()
  loop,          \* each loop: "idle", "sleeping", or the transport it awaits
  store,         \* methods in this._notificationHandlerStore
  applied        \* those set on this.client

flags == <<connected, reconnecting, attempts>>
handlers == <<store, applied>>
vars == <<flags, transport, attached, link, calls, closing, loop, handlers>>

Init ==
  /\ connected = FALSE
  /\ reconnecting = FALSE
  /\ attempts = 0
  /\ transport = None
  /\ attached = None
  /\ link = [t \in Transports |-> "closed"]
  /\ calls = [c \in Connects |-> "idle"]
  /\ closing = [d \in Disconnects |-> "idle"]
  /\ loop = [l \in Loops |-> "idle"]
  /\ store = {}
  /\ applied = {}

\* Transports nobody refers to: createClientTransport returns one of them, no
\* matter which.
Fresh == {t \in Transports :
            /\ link[t] = "closed" /\ t # transport /\ t # attached
            /\ \A c \in Connects : calls[c] # t
            /\ \A d \in Disconnects : closing[d] # t
            /\ \A l \in Loops : loop[l] # t}

NewTransport == CHOOSE t \in Fresh : TRUE

Awaits(x) == x \in Transports

(***************************************************************************)
(* Losing a connection                                                     *)
(***************************************************************************)
MoreAttempts == attempts < MaxAttempts

\* Slip: the loop's counter is never advanced.
NextAttemptUncounted(l) ==
  /\ IF MoreAttempts
     THEN /\ loop' = [loop EXCEPT ![l] = "sleeping"]
          /\ reconnecting' = TRUE
     ELSE /\ loop' = [loop EXCEPT ![l] = "idle"]
          /\ reconnecting' = FALSE
  /\ UNCHANGED attempts

\* The while condition of attemptReconnect and, when it holds, the way to the
\* sleep; otherwise the loop gives up.
NextAttempt(l) ==
  IF MoreAttempts
  THEN /\ attempts' = attempts + 1
       /\ loop' = [loop EXCEPT ![l] = "sleeping"]
       /\ reconnecting' = TRUE
  ELSE /\ loop' = [loop EXCEPT ![l] = "idle"]
       /\ reconnecting' = FALSE
       /\ UNCHANGED attempts

\* Slip: a loop that runs already does not keep another from starting.
MayBeginAlways == TRUE

MayBegin == ~reconnecting

\* Slip: only the close of this.transport counts as a disconnection.
ConcernsCurrent(t) == connected /\ t = transport

\* The guard of handleDisconnect, which does not ask which transport closed.
Concerns(t) == connected

\* onclose of a transport.
HandleDisconnect(t) ==
  IF Concerns(t)
  THEN /\ connected' = FALSE
       /\ IF Reconnects /\ MayBegin
          THEN \E l \in Loops : loop[l] = "idle" /\ NextAttempt(l)
          ELSE UNCHANGED <<reconnecting, attempts, loop>>
  ELSE UNCHANGED <<flags, loop>>

\* A transport is closed; the SDK client attached to it lets go of it.
Closes(t) ==
  /\ link' = [link EXCEPT ![t] = "closed"]
  /\ attached' = IF attached = t THEN None ELSE attached

Lost(t) ==
  /\ link[t] = "open"
  /\ Closes(t)
  /\ HandleDisconnect(t)
  /\ UNCHANGED <<transport, calls, closing, handlers>>

(***************************************************************************)
(* connect() and disconnect()                                              *)
(***************************************************************************)
\* The SDK client refuses a second transport while it has one; this.transport
\* has been replaced by then.
Connect(c) ==
  /\ calls[c] = "idle"
  /\ IF connected
     THEN /\ calls' = [calls EXCEPT ![c] = "done"]
          /\ UNCHANGED <<transport, attached, link>>
     ELSE /\ Fresh # {}
          /\ transport' = NewTransport
          /\ IF attached = None
             THEN /\ attached' = NewTransport
                  /\ link' = [link EXCEPT ![NewTransport] = "opening"]
                  /\ calls' = [calls EXCEPT ![c] = NewTransport]
             ELSE /\ calls' = [calls EXCEPT ![c] = "done"]
                  /\ UNCHANGED <<attached, link>>
  /\ UNCHANGED <<flags, closing, loop, handlers>>

\* What follows a successful client.connect(transport), in both places.
Established(t) ==
  /\ link' = [link EXCEPT ![t] = "open"]
  /\ connected' = TRUE
  /\ attempts' = 0

Connected(c) ==
  /\ Awaits(calls[c])
  /\ link[calls[c]] = "opening"
  /\ Established(calls[c])
  /\ applied' = applied \union store
  /\ calls' = [calls EXCEPT ![c] = "done"]
  /\ UNCHANGED <<reconnecting, transport, attached, closing, loop, store>>

\* The SDK client closes a transport on which initialize failed, unless it is
\* the close that failed it.
ConnectFails(c) ==
  /\ Awaits(calls[c])
  /\ Closes(calls[c])
  /\ IF link[calls[c]] = "closed" THEN UNCHANGED <<flags, loop>> ELSE HandleDisconnect(calls[c])
  /\ calls' = [calls EXCEPT ![c] = "done"]
  /\ UNCHANGED <<transport, closing, handlers>>

Disconnect(d) ==
  /\ closing[d] = "idle"
  /\ connected' = FALSE
  /\ closing' = [closing EXCEPT ![d] = IF transport = None THEN "done" ELSE transport]
  /\ UNCHANGED <<reconnecting, attempts, transport, attached, link, calls, loop, handlers>>

\* transport.close() gets there, some time after it was called.
CloseDone(d) ==
  /\ Awaits(closing[d])
  /\ link[closing[d]] # "closed"
  /\ Closes(closing[d])
  /\ HandleDisconnect(closing[d])
  /\ UNCHANGED <<transport, calls, closing, handlers>>

Disconnected(d) ==
  /\ Awaits(closing[d])
  /\ link[closing[d]] = "closed"
  /\ transport' = None
  /\ closing' = [closing EXCEPT ![d] = "done"]
  /\ UNCHANGED <<flags, attached, link, calls, loop, handlers>>

(***************************************************************************)
(* attemptReconnect                                                        *)
(***************************************************************************)
\* The sleep is over: a new SDK client and a new transport replace the ones
\* there are, in use or not.
LoopWakes(l) ==
  /\ loop[l] = "sleeping"
  /\ Fresh # {}
  /\ loop' = [loop EXCEPT ![l] = NewTransport]
  /\ link' = [link EXCEPT ![NewTransport] = "opening"]
  /\ transport' = NewTransport
  /\ attached' = NewTransport
  /\ applied' = {}
  /\ UNCHANGED <<flags, calls, closing, store>>

\* Slip: the notification handlers are not put on the new client.
LoopConnectedBare(l) ==
  /\ Awaits(loop[l])
  /\ link[loop[l]] = "opening"
  /\ Established(loop[l])
  /\ reconnecting' = FALSE
  /\ loop' = [loop EXCEPT ![l] = "idle"]
  /\ UNCHANGED <<transport, attached, calls, closing, handlers>>

LoopConnected(l) ==
  /\ Awaits(loop[l])
  /\ link[loop[l]] = "opening"
  /\ Established(loop[l])
  /\ applied' = applied \union store
  /\ reconnecting' = FALSE
  /\ loop' = [loop EXCEPT ![l] = "idle"]
  /\ UNCHANGED <<transport, attached, calls, closing, store>>

\* The failed transport's onclose comes first: while reconnecting is set it can
\* only clear connected.
LoopFails(l) ==
  /\ Awaits(loop[l])
  /\ Closes(loop[l])
  /\ connected' = (connected /\ link[loop[l]] = "closed")
  /\ NextAttempt(l)
  /\ UNCHANGED <<transport, calls, closing, handlers>>

\* onNotification(), at any time.
OnNotification(m) ==
  /\ store' = store \union {m}
  /\ applied' = IF connected THEN applied \union {m} ELSE applied
  /\ UNCHANGED <<flags, transport, attached, link, calls, closing, loop>>

LoopStep(l) == LoopWakes(l) \/ LoopConnected(l) \/ LoopFails(l)

Next ==
  \/ \E t \in Transports : Lost(t)
  \/ \E c \in Connects : Connect(c) \/ Connected(c) \/ ConnectFails(c)
  \/ \E d \in Disconnects : Disconnect(d) \/ CloseDone(d) \/ Disconnected(d)
  \/ \E l \in Loops : LoopStep(l)
  \/ \E m \in Methods : OnNotification(m)

\* Sleeps end and an attempt to connect succeeds or fails.
Spec == Init /\ [][Next]_vars /\ \A l \in Loops : WF_vars(LoopStep(l))

(***************************************************************************)
(* Properties                                                              *)
(***************************************************************************)
\* Every variable keeps its shape; the loop never counts past maxAttempts.
TypeOK ==
  /\ connected \in BOOLEAN
  /\ reconnecting \in BOOLEAN
  /\ attempts \in 0..MaxAttempts
  /\ transport \in Transports \union {None}
  /\ attached \in Transports \union {None}
  /\ link \in [Transports -> {"closed", "opening", "open"}]
  /\ calls \in [Connects -> Transports \union {"idle", "done"}]
  /\ closing \in [Disconnects -> Transports \union {"idle", "done"}]
  /\ loop \in [Loops -> Transports \union {"idle", "sleeping"}]
  /\ store \subseteq Methods
  /\ applied \subseteq store

\* One reconnection loop runs at a time, and reconnecting says whether one does,
\* whatever connections are made and lost beside it (attemptReconnect).
OneLoop ==
  /\ \A k, l \in Loops : loop[k] # "idle" /\ loop[l] # "idle" => k = l
  /\ reconnecting <=> \E l \in Loops : loop[l] # "idle"

\* The client never calls itself connected over nothing: some transport is open,
\* if not the one this.transport names.
ConnectedIsOpen ==
  /\ TypeOK
  /\ connected => \E t \in Transports : link[t] = "open"

\* Handlers survive reconnections: once the current SDK client is connected,
\* every handler ever registered is on it, including those registered while no
\* connection, or another one, was up.
HandlersApplied ==
  attached # None /\ link[attached] = "open" /\ connected => applied = store

\* A reconnection loop comes to an end: connected again, or given up.
LoopSettles == reconnecting ~> ~reconnecting

=============================================================================
