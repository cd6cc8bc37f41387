------------------------------- MODULE ClientSet -------------------------------
(***************************************************************************)
(* The clients of McpClientModule: one array that the bootstrap, the       *)
(* shutdown and the health check walk while they await each client, and    *)
(* that addConnection and removeConnection change under them.              *)
(*                                                                         *)
(* A client is drawn as far as the array sees it: whether isConnected()    *)
(* says so, what a disconnect() is waiting for, and whether a reconnection *)
(* loop may bring it back.  Module McpClient has the inside.               *)
(***************************************************************************)
EXTENDS Naturals, FiniteSets, SequencesExt, Removal

CONSTANTS
  Configured,    \* options.connections: a sequence of names
  Names,         \* those and the names met at run time
  Reconnecting,  \* the names whose connection has reconnect
  Handled,       \* the names with @OnMcpNotification methods
  Adds,          \* callers of addConnection / getOrCreate
  Removals,      \* callers of removeConnection
  MaxMade,       \* bound: the clients ever made for each name
  NoClient

Client == UNION {{n} \X (1..MaxMade[n]) : n \in Names}
NameOf(c) == c[1]

ASSUME ClientSetAssumption ==
  /\ Configured \in Seq(Names) /\ IsInjective(Configured)
  /\ Reconnecting \subseteq Names /\ Handled \subseteq Names
  /\ MaxMade \in [Names -> Nat \ {0}]
  /\ NoClient \notin Client

Walks == {"bootstrap", "shutdown", "health"}

VARIABLES
  clients,   \* 'MCP_CLIENT_CONNECTIONS'
  conn,      \* [Client -> "idle", "connecting", "up", "lost", "closing" or "aborting"]
  made,      \* [Names -> clients made so far]
  pending,   \* [Names -> the client whose promise is in McpClientsService.pending]
  promise,   \* [Client -> what addConnection's promise for it is doing]
  dropped,   \* [Client -> the clients its promise waits to be rid of]
  adds,      \* [Adds -> the client whose promise it awaits, or NoClient]
  removals,  \* [Removals -> the clients it awaits]
  walk,      \* [Walks -> where each walk is]
  wired      \* clients with the notification handlers

services == <<made, pending, promise, dropped, adds>>
csVars == <<clients, conn, services, removals, walk, wired>>

AtRest == [at |-> 0, awaits |-> NoClient, seen |-> {}, shifted |-> FALSE, over |-> FALSE]

CSInit ==
  /\ clients = [i \in DOMAIN Configured |-> <<Configured[i], 1>>]
  /\ conn = [c \in Client |-> "idle"]
  /\ made = [n \in Names |-> IF n \in ToSet(Configured) THEN 1 ELSE 0]
  /\ pending = [n \in Names |-> NoClient]
  /\ promise = [c \in Client |-> "none"]
  /\ dropped = [c \in Client |-> {}]
  /\ adds = [a \in Adds |-> NoClient]
  /\ removals = [r \in Removals |-> {}]
  /\ walk = [w \in Walks |-> AtRest]
  /\ wired = {}

(***************************************************************************)
(* One client                                                              *)
(***************************************************************************)
IsConnected(c) == conn[c] = "up"

Comeback(c) == IF NameOf(c) \in Reconnecting THEN "lost" ELSE "idle"

Lost(c) ==
  /\ conn[c] = "up"
  /\ conn' = [conn EXCEPT ![c] = Comeback(c)]
  /\ UNCHANGED <<clients, services, removals, walk, wired>>

\* The reconnection loop succeeds or gives up, whoever has let go of the client.
Reconnected(c) ==
  /\ conn[c] = "lost"
  /\ \E to \in {"up", "idle"} : conn' = [conn EXCEPT ![c] = to]
  /\ UNCHANGED <<clients, services, removals, walk, wired>>

\* Slip: only clients that say they are connected are disconnected.
AfterDisconnectIfUp(state) == IF state = "up" THEN "closing" ELSE state

\* What disconnect() makes of a client; a loop that runs is not stopped by it.
AfterDisconnect(state) ==
  CASE state = "up" -> "closing"
    [] state = "connecting" -> "aborting"
    [] OTHER -> state

Disconnecting(cs) == [c \in Client |-> IF c \in cs THEN AfterDisconnect(conn[c]) ELSE conn[c]]

\* transport.close() has returned.
CloseOver(c) == conn[c] \notin {"closing", "aborting"}

\* A connect() that is aborted may have got through first; its transport's close
\* is then taken for a lost connection.
CloseEnds(c) ==
  /\ ~CloseOver(c)
  /\ \/ conn' = [conn EXCEPT ![c] = "idle"]
     \/ conn[c] = "aborting" /\ conn' = [conn EXCEPT ![c] = Comeback(c)]
  /\ UNCHANGED <<clients, services, removals, walk, wired>>

(***************************************************************************)
(* addConnection and removeConnection                                      *)
(***************************************************************************)
Named(n) == {c \in ToSet(clients) : NameOf(c) = n}
Others(n) == Without(clients, Named(n))

\* A walk that had passed a client taken out of the array misses the next one.
Shifted(n) ==
  [w \in Walks |->
     [walk[w] EXCEPT !.shifted =
        @ \/ (walk[w].awaits # NoClient
              /\ \E i \in DOMAIN clients : i <= walk[w].at /\ NameOf(clients[i]) = n)]]

\* The synchronous part of removeConnection.
Spliced(n) ==
  /\ clients' = Others(n)
  /\ conn' = Disconnecting(Named(n))
  /\ walk' = Shifted(n)

Fresh(n) == <<n, made[n] + 1>>

\* Slip: every call makes a connection of its own.
InFlightNever(n) == FALSE

InFlight(n) == pending[n] # NoClient

\* Served at once: there is a connected client.
AddServed(a, n) ==
  /\ adds[a] = NoClient
  /\ \E c \in Named(n) : IsConnected(c)
  /\ UNCHANGED csVars

AddShared(a, n) ==
  /\ adds[a] = NoClient
  /\ ~\E c \in Named(n) : IsConnected(c)
  /\ InFlight(n)
  /\ adds' = [adds EXCEPT ![a] = pending[n]]
  /\ UNCHANGED <<clients, conn, made, pending, promise, dropped, removals, walk, wired>>

\* The stale client goes first; the new one is made when its disconnect is over.
AddBegun(a, n) ==
  /\ adds[a] = NoClient
  /\ ~\E c \in Named(n) : IsConnected(c)
  /\ ~InFlight(n)
  /\ made[n] < MaxMade[n]
  /\ LET c == Fresh(n) IN
       /\ made' = [made EXCEPT ![n] = @ + 1]
       /\ pending' = [pending EXCEPT ![n] = c]
       /\ promise' = [promise EXCEPT ![c] = "replacing"]
       /\ dropped' = [dropped EXCEPT ![c] = Named(n)]
       /\ adds' = [adds EXCEPT ![a] = c]
  /\ Spliced(n)
  /\ UNCHANGED <<removals, wired>>

\* Slip: waits for the clients to be out of use, which a reconnection loop may
\* never let them be.
RidWhenIdle(cs) == \A c \in cs : conn[c] = "idle"

\* The Promise.all of removeConnection, over the disconnects it has begun.
Rid(cs) == \A c \in cs : CloseOver(c)

AddConnection(a, n) == AddServed(a, n) \/ AddShared(a, n) \/ AddBegun(a, n)

AddConnects(c) ==
  /\ promise[c] = "replacing"
  /\ Rid(dropped[c])
  /\ promise' = [promise EXCEPT ![c] = "connecting"]
  /\ conn' = [conn EXCEPT ![c] = "connecting"]
  /\ dropped' = [dropped EXCEPT ![c] = {}]
  /\ UNCHANGED <<clients, made, pending, adds, removals, walk, wired>>

\* The finally of addConnection's promise.
Forgotten(c, up) == [pending EXCEPT ![NameOf(c)] = NoClient]

AddEnds(c) ==
  /\ promise[c] = "connecting"
  /\ \E up \in BOOLEAN :
       /\ conn' = [conn EXCEPT ![c] = IF up THEN "up" ELSE "idle"]
       /\ clients' = IF up THEN Append(clients, c) ELSE clients
       /\ promise' = [promise EXCEPT ![c] = IF up THEN "fulfilled" ELSE "rejected"]
       /\ pending' = Forgotten(c, up)
  /\ UNCHANGED <<made, dropped, adds, removals, walk, wired>>

\* A caller that awaited the promise takes its outcome.
AddReturns(a) ==
  /\ adds[a] # NoClient
  /\ promise[adds[a]] \in {"fulfilled", "rejected"}
  /\ adds' = [adds EXCEPT ![a] = NoClient]
  /\ UNCHANGED <<clients, conn, made, pending, promise, dropped, removals, walk, wired>>

RemoveConnection(r, n) ==
  /\ removals[r] = {}
  /\ removals' = [removals EXCEPT ![r] = Named(n)]
  /\ Spliced(n)
  /\ UNCHANGED <<services, wired>>

Removed(r) ==
  /\ removals[r] # {}
  /\ Rid(removals[r])
  /\ removals' = [removals EXCEPT ![r] = {}]
  /\ UNCHANGED <<clients, conn, services, walk, wired>>

(***************************************************************************)
(* The walks over the live array                                           *)
(***************************************************************************)
Under(w) == walk[w].awaits # NoClient

\* The hooks run in this order; a health check is asked for at any time.
MayStart(w) == w = "shutdown" => walk["bootstrap"].over

\* Slip: goes no further than the array was long when it was configured.
MoreConfigured(at) == at <= Len(clients) /\ at <= Len(Configured)

\* for...of asks the array itself, every time.
More(at) == at <= Len(clients)

\* connect(), disconnect() or ping(): what a walk does to a client at once.
Visited(w, c, states) ==
  CASE w = "bootstrap" /\ states[c] = "idle" -> [states EXCEPT ![c] = "connecting"]
    [] w = "shutdown" -> [states EXCEPT ![c] = AfterDisconnect(@)]
    [] OTHER -> states

\* The health check passes over clients that are not connected without a ping.
Passed(w, from, states) ==
  {i \in from..Len(clients) :
     w = "health" /\ \A j \in from..i : states[clients[j]] # "up"}

\* wireNotificationHandlers, on the clients there are by the end of the bootstrap.
Wired == {c \in ToSet(clients) : NameOf(c) \in Handled}

\* A walk goes on to the next client there is, or ends.
Goes(w, from, states) ==
  LET passed == Passed(w, from, states)
      at == from + Cardinality(passed)
  IN IF More(at)
     THEN /\ conn' = Visited(w, clients[at], states)
          /\ walk' = [walk EXCEPT ![w].at = at, ![w].awaits = clients[at],
                                  ![w].seen = @ \union {clients[i] : i \in passed \union {at}}]
          /\ UNCHANGED wired
     ELSE /\ conn' = states
          /\ walk' = [walk EXCEPT ![w] = [AtRest EXCEPT !.over = TRUE]]
          /\ wired' = IF w = "bootstrap" THEN Wired ELSE wired

WalkStarts(w) ==
  /\ walk[w] = AtRest
  /\ MayStart(w)
  /\ Goes(w, 1, conn)
  /\ UNCHANGED <<clients, services, removals>>

\* The await is over; bootstrap and shutdown swallow what goes wrong.
VisitEnds(w) ==
  /\ Under(w)
  /\ LET c == walk[w].awaits IN
       /\ w # "health" => CloseOver(c)
       /\ \E to \in (IF w = "bootstrap" /\ conn[c] = "connecting" THEN {"up", "idle"} ELSE {conn[c]}) :
            Goes(w, walk[w].at + 1, [conn EXCEPT ![c] = to])
  /\ UNCHANGED <<clients, services, removals>>

CSNext ==
  \/ \E c \in Client : \/ Lost(c) \/ Reconnected(c) \/ CloseEnds(c)
                       \/ AddConnects(c) \/ AddEnds(c)
  \/ \E n \in Names : \/ \E a \in Adds : AddConnection(a, n)
                      \/ \E r \in Removals : RemoveConnection(r, n)
  \/ \E a \in Adds : AddReturns(a)
  \/ \E r \in Removals : Removed(r)
  \/ \E w \in Walks : WalkStarts(w) \/ VisitEnds(w)

\* Transports open, fail or close in the end, and continuations run.
CSSpec ==
  /\ CSInit /\ [][CSNext]_csVars
  /\ \A c \in Client : WF_csVars(CloseEnds(c)) /\ WF_csVars(AddConnects(c)) /\ WF_csVars(AddEnds(c))
  /\ \A a \in Adds : WF_csVars(AddReturns(a))

(***************************************************************************)
(* Properties                                                              *)
(***************************************************************************)
CSTypeOK ==
  /\ clients \in Seq(Client)
  /\ conn \in [Client -> {"idle", "connecting", "up", "lost", "closing", "aborting"}]
  /\ made \in [Names -> Nat] /\ \A n \in Names : made[n] <= MaxMade[n]
  /\ pending \in [Names -> Client \union {NoClient}]
  /\ promise \in [Client -> {"none", "replacing", "connecting", "fulfilled", "rejected"}]
  /\ dropped \in [Client -> SUBSET Client]
  /\ adds \in [Adds -> Client \union {NoClient}]
  /\ removals \in [Removals -> SUBSET Client]
  /\ wired \subseteq Client

InProgress(c) == promise[c] \in {"replacing", "connecting"}

\* However additions, removals and losses of connection overlap, a name has at
\* most one client in the array and at most one being connected by
\* addConnection, and the promise that callers share is that one, never one
\* that is settled already; a name's notification handlers are on one client.
OneClientPerName ==
  /\ CSTypeOK
  /\ \A i, j \in DOMAIN clients : NameOf(clients[i]) = NameOf(clients[j]) => i = j
  /\ \A n \in Names : {c \in Client : NameOf(c) = n /\ InProgress(c)} = {pending[n]} \ {NoClient}
  /\ \A c, d \in wired : NameOf(c) = NameOf(d) => c = d

\* A name that does not reconnect leaves no connection open behind a client nobody
\* can find, whatever is added, removed, lost and shut down at once.  One that does
\* is exempted, for disconnect() does not stop its loop.
StraysReconnect ==
  \A c \in Client : conn[c] = "up" /\ c \notin ToSet(clients) => NameOf(c) \in Reconnecting

\* Bootstrap, shutdown and health check walk the live array.  When one ends it
\* has dealt with every client there is (the health check: passed those
\* that are not connected), those added while it ran included, unless a client it had been
\* at was taken out meanwhile: then it has missed the one that moved up.
WalksReachAll ==
  [][\A w \in Walks : ~walk[w].over /\ walk'[w].over /\ ~walk[w].shifted
       => \A c \in ToSet(clients) : c \in walk[w].seen \/ (w = "health" /\ ~IsConnected(c))]_csVars

\* Whoever calls addConnection hears of it, also when the connection it waits
\* for replaces one that is closing or is removed before it is made.
AddsSettle == \A a \in Adds : adds[a] # NoClient ~> adds[a] = NoClient
===============================================================================
