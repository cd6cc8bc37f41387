------------------------------ MODULE SseSessions ------------------------------
(***************************************************************************)
(* SseService: the sessions of the SSE transport, with the registry events *)
(* that keep their McpServers up to date and the resource subscriptions    *)
(* made on them.  A session's maps are filled in one go and emptied step   *)
(* by step, around the awaits of cleanupSession; the response's 'close'    *)
(* event and onModuleDestroy may both be cleaning the same session.        *)
(***************************************************************************)
EXTENDS Subscriptions, FiniteSets, Sequences, SequencesExt

CONSTANTS
  Sessions,   \* ids the SDK transport draws; each is used once
  Uris,       \* resource uris
  Items       \* keys of tools, resources, prompts and templates

Causes == {"closeEvent", "destroy"}
Messages == [do : {"subscribe", "unsubscribe"}, uri : Uris]
NoMessage == [do |-> "nothing"]

VARIABLES
  registry,     \* the items McpRegistryService holds
  transports,   \* keys of this.transports
  servers,      \* keys of this.servers, in insertion order
  contexts,     \* keys of this.contexts and of this.sdkHandles
  handles,      \* items under this.sdkHandles.get(session)
  pings,        \* keys of this.pingIntervals
  offered,      \* items registered on the session's McpServer
  link,         \* the session's SDK transport: not yet made, open or closed
  reading,      \* the POST whose body handlePostMessage is reading
  cleaning,     \* how far each cleanupSession of a session has come
  destroying,   \* onModuleDestroy: not called, in its loop, done
  subs,         \* the ResourceSubscriptionManager's entries
  received,     \* updates written to the session's stream
  atConnect     \* history: the registry when the session connected

maps == <<transports, servers, contexts, pings>>
vars == <<registry, transports, servers, contexts, handles, pings, offered,
          link, reading, cleaning, destroying, subs, received, atConnect>>

Init ==
  /\ registry \in SUBSET Items
  /\ transports = {}
  /\ servers = <<>>
  /\ contexts = {}
  /\ handles = [s \in Sessions |-> {}]
  /\ pings = {}
  /\ offered = [s \in Sessions |-> {}]
  /\ link = [s \in Sessions |-> "none"]
  /\ reading = [s \in Sessions |-> NoMessage]
  /\ cleaning = [s \in Sessions |-> [c \in Causes |-> "idle"]]
  /\ destroying = "no"
  /\ subs = {}
  /\ received = [s \in Sessions |-> {}]
  /\ atConnect = [s \in Sessions |-> {}]

(***************************************************************************)
(* Connections and messages                                                *)
(***************************************************************************)
\* createConnection.  registerHandlers drops the handles it is given, so
\* sdkHandles starts empty.  The HTTP server still listens while modules are
\* being destroyed.
Connect(s) ==
  /\ link[s] = "none"
  /\ link' = [link EXCEPT ![s] = "open"]
  /\ transports' = transports \union {s}
  /\ servers' = Append(servers, s)
  /\ contexts' = contexts \union {s}
  /\ pings' = pings \union {s}
  /\ offered' = [offered EXCEPT ![s] = registry]
  /\ atConnect' = [atConnect EXCEPT ![s] = registry]
  /\ UNCHANGED <<registry, handles, reading, cleaning, destroying, subs, received>>

\* handleMessage finds the transport and lets it read the body.
Post(s, m) ==
  /\ s \in transports
  /\ link[s] = "open"
  /\ reading[s] = NoMessage
  /\ reading' = [reading EXCEPT ![s] = m]
  /\ UNCHANGED <<registry, maps, handles, offered, link, cleaning, destroying,
                 subs, received, atConnect>>

\* The body is in: the SDK runs the request handler, closed or not.
Handle(s) ==
  /\ reading[s] # NoMessage
  /\ subs' = IF reading[s].do = "subscribe"
             THEN Subscribe(subs, s, reading[s].uri, s)
             ELSE Unsubscribe(subs, s, reading[s].uri)
  /\ reading' = [reading EXCEPT ![s] = NoMessage]
  /\ UNCHANGED <<registry, maps, handles, offered, link, cleaning, destroying,
                 received, atConnect>>

\* sendResourceUpdated on a closed server is rejected and logged.
Reachable(s) == link[s] = "open"

\* notifyResourceUpdated
Notify(u) ==
  /\ received' = [s \in Sessions |->
                    IF s \in Subscribers(subs, u) /\ Reachable(s)
                    THEN received[s] \union {u} ELSE received[s]]
  /\ UNCHANGED <<registry, maps, handles, offered, link, reading, cleaning,
                 destroying, subs, atConnect>>

(***************************************************************************)
(* Registry events                                                         *)
(***************************************************************************)
Listening == destroying = "no"

\* McpServer.registerTool throws for an item it already has.  (It would also
\* throw on a server that connected with no item of the kind at all; Items are
\* items of kinds every server has one of.)
Conflicts(s, i) == s \in contexts /\ i \in offered[s]

\* The sessions the listener's loop gets to: a throw ends it.
Reached(i) ==
  {servers[k] : k \in {n \in DOMAIN servers :
                         /\ servers[n] \in contexts
                         /\ \A m \in 1..n : ~Conflicts(servers[m], i)}}

\* Slip: the handle is dropped.
KeepHandleNot(i, reached) == handles

KeepHandle(i, reached) ==
  [s \in Sessions |-> IF s \in reached THEN handles[s] \union {i} ELSE handles[s]]

\* registerTool, registerResource, registerPrompt, registerResourceTemplate
Register(i) ==
  /\ registry' = registry \union {i}
  /\ LET reached == IF Listening THEN Reached(i) ELSE {} IN
       /\ offered' = [s \in Sessions |->
                        IF s \in reached THEN offered[s] \union {i} ELSE offered[s]]
       /\ handles' = KeepHandle(i, reached)
  /\ UNCHANGED <<maps, link, reading, cleaning, destroying, subs, received, atConnect>>

\* unregisterTool and its three siblings
Unregister(i) ==
  /\ i \in registry
  /\ registry' = registry \ {i}
  /\ LET held == {s \in ToSet(servers) : Listening /\ i \in handles[s]} IN
       /\ offered' = [s \in Sessions |->
                        IF s \in held THEN offered[s] \ {i} ELSE offered[s]]
       /\ handles' = [s \in Sessions |->
                        IF s \in held THEN handles[s] \ {i} ELSE handles[s]]
  /\ UNCHANGED <<maps, link, reading, cleaning, destroying, subs, received, atConnect>>

(***************************************************************************)
(* cleanupSession                                                          *)
(***************************************************************************)
Forget(s) ==
  /\ contexts' = contexts \ {s}
  /\ handles' = [handles EXCEPT ![s] = {}]

\* Slip: the context outlives the session.
StopTrackingServerOnly(s) ==
  /\ servers' = RemoveFirst(servers, s)
  /\ UNCHANGED <<contexts, handles>>

\* The last lines, after server.close().
StopTracking(s) ==
  /\ servers' = RemoveFirst(servers, s)
  /\ Forget(s)

\* Up to the first await: transport and server are read here, and
\* transport.close() has ended the response when it returns its promise.
Begin(s, c) ==
  /\ cleaning[s][c] = "idle"
  /\ subs' = RemoveSession(subs, s)
  /\ pings' = pings \ {s}
  /\ link' = [link EXCEPT ![s] = "closed"]
  /\ \/ /\ s \in transports
        /\ cleaning' = [cleaning EXCEPT ![s][c] = "transport"]
        /\ UNCHANGED <<contexts, handles>>
     \/ /\ s \notin transports
        /\ s \in ToSet(servers)
        /\ cleaning' = [cleaning EXCEPT ![s][c] = "server"]
        /\ UNCHANGED <<contexts, handles>>
     \/ /\ s \notin transports
        /\ s \notin ToSet(servers)
        /\ cleaning' = [cleaning EXCEPT ![s][c] = "done"]
        /\ Forget(s)

\* The response's 'close' event: the client went away, or the server's own
\* transport.close() ended the response.
CloseEvent(s) ==
  /\ link[s] # "none"
  /\ Begin(s, "closeEvent")
  /\ UNCHANGED <<registry, transports, servers, offered, reading, destroying,
                 received, atConnect>>

\* Slip: the server is left alone.
TransportClosedOnly(s, c) ==
  /\ cleaning[s][c] = "transport"
  /\ transports' = transports \ {s}
  /\ cleaning' = [cleaning EXCEPT ![s][c] = "done"]
  /\ UNCHANGED <<registry, servers, contexts, handles, pings, offered, link, reading,
                 destroying, subs, received, atConnect>>

TransportClosed(s, c) ==
  /\ cleaning[s][c] = "transport"
  /\ transports' = transports \ {s}
  /\ cleaning' = [cleaning EXCEPT ![s][c] = "server"]
  /\ UNCHANGED <<registry, servers, contexts, handles, pings, offered, link, reading,
                 destroying, subs, received, atConnect>>

ServerClosed(s, c) ==
  /\ cleaning[s][c] = "server"
  /\ StopTracking(s)
  /\ cleaning' = [cleaning EXCEPT ![s][c] = "done"]
  /\ UNCHANGED <<registry, transports, pings, offered, link, reading, destroying,
                 subs, received, atConnect>>

\* onModuleDestroy takes the listeners off, then cleans up one session after
\* the other, iterating over the live map.
Destroy ==
  /\ destroying = "no"
  /\ destroying' = "looping"
  /\ UNCHANGED <<registry, maps, handles, offered, link, reading, cleaning, subs,
                 received, atConnect>>

BetweenSessions ==
  /\ destroying = "looping"
  /\ \A s \in Sessions : cleaning[s]["destroy"] \in {"idle", "done"}

DestroyNext(s) ==
  /\ BetweenSessions
  /\ s \in transports
  /\ Begin(s, "destroy")
  /\ UNCHANGED <<registry, transports, servers, offered, reading, destroying,
                 received, atConnect>>

Destroyed ==
  /\ BetweenSessions
  /\ transports = {}
  /\ destroying' = "done"
  /\ UNCHANGED <<registry, maps, handles, offered, link, reading, cleaning, subs,
                 received, atConnect>>

CleanupStep(s, c) == TransportClosed(s, c) \/ ServerClosed(s, c)

Next ==
  \/ \E s \in Sessions : Connect(s) \/ Handle(s) \/ CloseEvent(s) \/ DestroyNext(s)
  \/ \E s \in Sessions, m \in Messages : Post(s, m)
  \/ \E s \in Sessions, c \in Causes : CleanupStep(s, c)
  \/ \E u \in Uris : Notify(u)
  \/ \E i \in Items : Register(i) \/ Unregister(i)
  \/ Destroy
  \/ Destroyed

\* close() of the SDK's transport and server resolve, a response that was
\* ended emits 'close', and the destroy loop is a sequence of those awaits.
\* Nothing says a client ever posts, leaves or that a body comes in.
Fairness ==
  /\ \A s \in Sessions, c \in Causes : WF_vars(CleanupStep(s, c))
  /\ \A s \in Sessions : WF_vars(link[s] = "closed" /\ CloseEvent(s))
  /\ WF_vars(\E s \in Sessions : DestroyNext(s))

Spec == Init /\ [][Next]_vars /\ Fairness

(***************************************************************************)
(* Properties                                                              *)
(***************************************************************************)
\* Every variable keeps its shape; servers holds each session at most once.
TypeOK ==
  /\ registry \subseteq Items
  /\ transports \subseteq Sessions
  /\ servers \in Seq(Sessions) /\ IsInjective(servers)
  /\ contexts \subseteq Sessions
  /\ handles \in [Sessions -> SUBSET Items]
  /\ pings \subseteq Sessions
  /\ offered \in [Sessions -> SUBSET Items]
  /\ link \in [Sessions -> {"none", "open", "closed"}]
  /\ reading \in [Sessions -> Messages \union {NoMessage}]
  /\ cleaning \in [Sessions -> [Causes -> {"idle", "transport", "server", "done"}]]
  /\ destroying \in {"no", "looping", "done"}
  /\ subs \subseteq [label : Sessions, uri : Uris, server : Sessions]
  /\ received \in [Sessions -> SUBSET Uris]
  /\ atConnect \in [Sessions -> SUBSET Items]

\* The five maps tell one story however the cleanups of the close event and of
\* onModuleDestroy interleave: a session that can be posted to has a server, a
\* server has a context (or a registry event would pass it over), only a
\* session not being cleaned is pinged, and a finished cleanup left nothing.
MapsAgree ==
  /\ TypeOK
  /\ transports \subseteq ToSet(servers)
  /\ ToSet(servers) = contexts
  /\ \A s \in Sessions : s \notin contexts => handles[s] = {}
  /\ pings = {s \in Sessions : link[s] = "open"}
  /\ \A s \in Sessions, c \in Causes :
       cleaning[s][c] = "done" => s \notin transports \union contexts

\* What was registered while a session was connected is taken off it when it is
\* unregistered: as long as listeners are attached, a tracked server offers an
\* unregistered item only if it had it from the start (registerToolOnServer's
\* handles are kept per session for exactly this).  And no registration goes half
\* way unnoticed: a tracked server can lack a registered item only if the loop
\* over the servers was cut short by one that already offered the item.
OffersExplained ==
  Listening => \A n \in DOMAIN servers :
    /\ offered[servers[n]] \ registry \subseteq atConnect[servers[n]]
    /\ \A i \in registry \ offered[servers[n]] :
         \E s \in Sessions \ {servers[n]} : i \in atConnect[s]

\* SSE keeps the subscriptions' promise to the clients: an update reaches the
\* open sessions subscribed to it and no others.  A subscription handled after
\* its session's cleanup stays in the manager, yet nothing is sent for it.
Feed == INSTANCE UpdateFeed WITH
  open <- {s \in Sessions : link[s] = "open"},
  wants <- [s \in Sessions |->
              {u \in Uris : link[s] = "open" /\ s \in Subscribers(subs, u)}]
KeepsFeed == Feed!Spec

\* A closed session does not stay in the maps: whoever closed it, its transport,
\* its server and its context are gone in the end.
ClosedIsCleaned ==
  \A s \in Sessions :
    link[s] = "closed" ~> s \notin transports \union ToSet(servers) \union contexts

=============================================================================
