-------------------------- MODULE StreamableSessions --------------------------
(***************************************************************************)
(* StreamableHttpService in stateful mode, with oauth session binding on.  *)
(* A session's McpServer and context exist before its id does: the context *)
(* is made, and kept, under the label 'pending'; the session is registered *)
(* under its id only after the await of the initialize request.            *)
(***************************************************************************)
EXTENDS Subscriptions, FiniteSets, Sequences, SequencesExt

CONSTANTS
  Sessions,     \* ids sessionIdGenerator draws; each is used once
  Uris,         \* resource uris
  Items,        \* keys of tools, resources, prompts and templates
  Principals,   \* (sub, clientId) pairs of verified bearer tokens
  Nobody,       \* no principal
  Pending       \* the label 'pending'

ASSUME LabelsAssumption == Pending \notin Sessions /\ Nobody \notin Principals

Messages == [do : {"subscribe", "unsubscribe"}, uri : Uris]
NoMessage == [do |-> "nothing"]

VARIABLES
  registry,     \* the items McpRegistryService holds
  phase,        \* where the session stands, from first POST to the end of cleanup
  servers,      \* keys of this.servers (and this.transports), in insertion order
  contexts,     \* keys of this.contexts (and this.sdkHandles)
  handles,      \* items under this.sdkHandles.get(session)
  offered,      \* items registered on the session's McpServer
  sessionAuth,  \* this.sessionAuth
  reading,      \* the POST whose body the SDK transport is reading
  destroying,   \* onModuleDestroy: not called, in its loop, done
  awaited,      \* the session whose cleanup that loop awaits, if any
  subs,         \* the ResourceSubscriptionManager's entries
  \* History, which no guard reads:
  owner,        \* the principal of the session's first POST
  admitted,     \* principals whose later requests reached the session
  asked,        \* uris the client subscribed to and did not unsubscribe from
  closes        \* times transport.close() was called

maps == <<servers, contexts, handles, sessionAuth>>
history == <<owner, admitted, asked, closes>>
loop == <<destroying, awaited>>
vars == <<registry, phase, maps, offered, reading, loop, subs, history>>

Init ==
  /\ registry \in SUBSET Items
  /\ phase = [s \in Sessions |-> "none"]
  /\ servers = <<>>
  /\ contexts = {}
  /\ handles = [s \in Sessions |-> {}]
  /\ offered = [s \in Sessions |-> {}]
  /\ sessionAuth = [s \in Sessions |-> Nobody]
  /\ reading = [s \in Sessions |-> NoMessage]
  /\ destroying = "no"
  /\ awaited = {}
  /\ subs = {}
  /\ owner = [s \in Sessions |-> Nobody]
  /\ admitted = [s \in Sessions |-> {}]
  /\ asked = [s \in Sessions |-> {}]
  /\ closes = [s \in Sessions |-> 0]

\* this.transports.has(s)
Known(s) == s \in ToSet(servers)

(***************************************************************************)
(* Opening a session                                                       *)
(***************************************************************************)
\* A POST without a known session id, up to the await of handleRequest.
PostNew(s, p) ==
  /\ phase[s] = "none"
  /\ phase' = [phase EXCEPT ![s] = "initializing"]
  /\ contexts' = contexts \union {Pending}
  /\ offered' = [offered EXCEPT ![s] = registry]
  /\ owner' = [owner EXCEPT ![s] = p]
  /\ UNCHANGED <<registry, servers, handles, sessionAuth, reading, loop,
                 subs, admitted, asked, closes>>

\* The POST was an initialize request: the transport now has a session id.
Initialized(s) ==
  /\ phase[s] = "initializing"
  /\ phase' = [phase EXCEPT ![s] = "live"]
  /\ servers' = Append(servers, s)
  /\ sessionAuth' = [sessionAuth EXCEPT ![s] = owner[s]]
  /\ UNCHANGED <<registry, contexts, handles, offered, reading, loop,
                 subs, history>>

\* It was not (a request for a session that is gone, or not registered yet):
\* the SDK answers 400 and transport and server are dropped.
NotInitialized(s) ==
  /\ phase[s] = "initializing"
  /\ phase' = [phase EXCEPT ![s] = "stray"]
  /\ UNCHANGED <<registry, maps, offered, reading, loop, subs, history>>

(***************************************************************************)
(* Requests on a session                                                   *)
(***************************************************************************)
\* enforceSessionBinding: no binding on record admits everyone.
BindingAdmits(s, p) == sessionAuth[s] \in {Nobody, p}

Admits(s, p) == Known(s) /\ BindingAdmits(s, p)

Post(s, m, p) ==
  /\ Admits(s, p)
  /\ reading[s] = NoMessage
  /\ reading' = [reading EXCEPT ![s] = m]
  /\ admitted' = [admitted EXCEPT ![s] = @ \union {p}]
  /\ UNCHANGED <<registry, phase, maps, offered, loop, subs, owner,
                 asked, closes>>

\* A GET opens the session's stream of notifications, which no other step reads.
Get(s, p) ==
  /\ Admits(s, p)
  /\ admitted' = [admitted EXCEPT ![s] = @ \union {p}]
  /\ UNCHANGED <<registry, phase, maps, offered, reading, loop, subs, owner,
                 asked, closes>>

\* The body is in: the handler runs with the context of the session's server,
\* whose sessionId is the label it was made under.
Handle(s) ==
  /\ reading[s] # NoMessage
  /\ reading' = [reading EXCEPT ![s] = NoMessage]
  /\ LET u == reading[s].uri IN
       \/ /\ reading[s].do = "subscribe"
          /\ subs' = Subscribe(subs, Pending, u, s)
          /\ asked' = [asked EXCEPT ![s] = @ \union {u}]
       \/ /\ reading[s].do = "unsubscribe"
          /\ subs' = Unsubscribe(subs, Pending, u)
          /\ asked' = [asked EXCEPT ![s] = @ \ {u}]
  /\ UNCHANGED <<registry, phase, maps, offered, loop, owner, admitted,
                 closes>>

(***************************************************************************)
(* Registry events                                                         *)
(***************************************************************************)
Listening == destroying = "no"

\* The sessions whose server the listeners' loops get to change: those with a
\* context under their own id.  (registerTool throws on an item already there.)
Reached(i) ==
  {servers[k] : k \in {n \in DOMAIN servers :
                         /\ servers[n] \in contexts
                         /\ \A m \in 1..n : servers[m] \in contexts => i \notin offered[servers[m]]}}

Register(i) ==
  /\ registry' = registry \union {i}
  /\ LET reached == IF Listening THEN Reached(i) ELSE {} IN
       /\ offered' = [s \in Sessions |->
                        IF s \in reached THEN offered[s] \union {i} ELSE offered[s]]
       /\ handles' = [s \in Sessions |->
                        IF s \in reached THEN handles[s] \union {i} ELSE handles[s]]
  /\ UNCHANGED <<phase, servers, contexts, sessionAuth, reading, loop,
                 subs, history>>

Unregister(i) ==
  /\ i \in registry
  /\ registry' = registry \ {i}
  /\ LET held == {s \in ToSet(servers) : Listening /\ i \in handles[s]} IN
       /\ offered' = [s \in Sessions |->
                        IF s \in held THEN offered[s] \ {i} ELSE offered[s]]
       /\ handles' = [s \in Sessions |->
                        IF s \in held THEN handles[s] \ {i} ELSE handles[s]]
  /\ UNCHANGED <<phase, servers, contexts, sessionAuth, reading, loop,
                 subs, history>>

(***************************************************************************)
(* cleanupSession                                                          *)
(***************************************************************************)
\* Slip: the maps are emptied after the closes, as
\* SseService does, but for the binding.
ForgetBindingFirst(s) ==
  /\ sessionAuth' = [sessionAuth EXCEPT ![s] = Nobody]
  /\ UNCHANGED <<servers, contexts, handles>>

\* All maps first, so that a re-entrant call finds nothing.
Forget(s) ==
  /\ servers' = RemoveFirst(servers, s)
  /\ contexts' = contexts \ {s}
  /\ handles' = [handles EXCEPT ![s] = {}]
  /\ sessionAuth' = [sessionAuth EXCEPT ![s] = Nobody]

\* Up to the await of transport.close().
Cleanup(s) ==
  /\ Known(s)
  /\ subs' = RemoveSession(subs, s)
  /\ Forget(s)
  /\ phase' = [phase EXCEPT ![s] = "closingTransport"]
  /\ closes' = [closes EXCEPT ![s] = @ + 1]

\* transport.close() calls onclose, which calls cleanupSession again; when the
\* guard lets that through, the transport is closed once more.
TransportClosed(s) ==
  /\ phase[s] = "closingTransport"
  /\ phase' = [phase EXCEPT ![s] = "closingServer"]
  /\ closes' = IF Known(s) THEN [closes EXCEPT ![s] = @ + 1] ELSE closes
  /\ UNCHANGED <<registry, maps, offered, reading, loop, subs, owner,
                 admitted, asked>>

ServerClosed(s) ==
  /\ phase[s] = "closingServer"
  /\ phase' = [phase EXCEPT ![s] = "closed"]
  /\ UNCHANGED <<registry, maps, offered, reading, loop, subs, history>>

\* handleDeleteRequest
Delete(s, p) ==
  /\ Admits(s, p)
  /\ Cleanup(s)
  /\ admitted' = [admitted EXCEPT ![s] = @ \union {p}]
  /\ UNCHANGED <<registry, offered, reading, loop, owner, asked>>

Destroy ==
  /\ destroying = "no"
  /\ destroying' = "looping"
  /\ UNCHANGED <<registry, phase, maps, offered, reading, awaited, subs, history>>

\* The loop over this.transports.keys(), a live iterator: a session that is
\* registered while it awaits is still visited.
BetweenSessions == destroying = "looping" /\ awaited = {}

DestroyNext(s) ==
  /\ BetweenSessions
  /\ Cleanup(s)
  /\ awaited' = {s}
  /\ UNCHANGED <<registry, offered, reading, destroying, owner, admitted, asked>>

DestroyContinues(s) ==
  /\ s \in awaited
  /\ phase[s] = "closed"
  /\ awaited' = {}
  /\ UNCHANGED <<registry, phase, maps, offered, reading, destroying, subs, history>>

\* Slip: only the sessions the loop started with.
DestroyedEarly ==
  /\ BetweenSessions
  /\ destroying' = "done"
  /\ UNCHANGED <<registry, phase, maps, offered, reading, awaited, subs, history>>

Destroyed ==
  /\ BetweenSessions
  /\ servers = <<>>
  /\ destroying' = "done"
  /\ UNCHANGED <<registry, phase, maps, offered, reading, awaited, subs, history>>

CleanupStep(s) == TransportClosed(s) \/ ServerClosed(s)
DestroyStep == Destroyed \/ \E s \in Sessions : DestroyNext(s) \/ DestroyContinues(s)

Next ==
  \/ \E s \in Sessions, p \in Principals : PostNew(s, p) \/ Get(s, p) \/ Delete(s, p)
  \/ \E s \in Sessions, m \in Messages, p \in Principals : Post(s, m, p)
  \/ \E s \in Sessions : \/ Initialized(s) \/ NotInitialized(s) \/ Handle(s)
                         \/ CleanupStep(s)
  \/ \E i \in Items : Register(i) \/ Unregister(i)
  \/ Destroy
  \/ DestroyStep

\* close() of the SDK's transport and server resolve; the destroy loop is a
\* sequence of such awaits.  Clients and the registry owe nothing.
Fairness == WF_vars(DestroyStep) /\ \A s \in Sessions : WF_vars(CleanupStep(s))

Spec == Init /\ [][Next]_vars /\ Fairness

(***************************************************************************)
(* Properties                                                              *)
(***************************************************************************)
\* Every variable keeps its shape, and the ids in the maps are exactly those of
\* the initialized sessions whose cleanup has not begun.
TypeOK ==
  /\ registry \subseteq Items
  /\ phase \in [Sessions -> {"none", "initializing", "stray", "live",
                             "closingTransport", "closingServer", "closed"}]
  /\ servers \in Seq(Sessions) /\ IsInjective(servers)
  /\ ToSet(servers) = {s \in Sessions : phase[s] = "live"}
  /\ contexts \subseteq Sessions \union {Pending}
  /\ handles \in [Sessions -> SUBSET Items]
  /\ offered \in [Sessions -> SUBSET Items]
  /\ sessionAuth \in [Sessions -> Principals \union {Nobody}]
  /\ reading \in [Sessions -> Messages \union {NoMessage}]
  /\ destroying \in {"no", "looping", "done"}
  /\ awaited \subseteq Sessions
  /\ subs \subseteq [label : {Pending}, uri : Uris, server : Sessions]
  /\ owner \in [Sessions -> Principals \union {Nobody}]
  /\ admitted \in [Sessions -> SUBSET Principals]
  /\ asked \in [Sessions -> SUBSET Uris]
  /\ closes \in [Sessions -> Nat]

\* "Guard: remove from maps first to prevent re-entrant cleanup": DELETE,
\* onclose and onModuleDestroy between them close a session's transport at most
\* once, and exactly once if its cleanup began.
ClosedOnce ==
  \A s \in Sessions :
    closes[s] = IF phase[s] \in {"closingTransport", "closingServer", "closed"} THEN 1 ELSE 0

\* Session binding has no gap: from the moment a session can be found to the
\* end of its cleanup, only the principal that initialized it gets a request
\* through, though a missing record admits everyone.
BindingHolds ==
  /\ TypeOK
  /\ \A s \in Sessions : admitted[s] \subseteq {owner[s]}

\* Every session that is registered when onModuleDestroy runs, or becomes so
\* while it is waiting for another to close, is closed by it.
DestroyClosesAll ==
  \A s \in Sessions :
    destroying = "looping" /\ phase[s] = "live" ~> phase[s] = "closed"

(***************************************************************************)
(* Claims of the sources that the code does not keep                       *)
(***************************************************************************)
\* ResourceSubscriptionManager "tracks per-session resource subscriptions": a
\* live session is among the subscribers of each uri it is subscribed to.
SubscriptionsPerSession ==
  \A s \in Sessions : phase[s] = "live" =>
    \A u \in asked[s] : s \in Subscribers(subs, u)
=============================================================================
