---------------------------- MODULE Subscriptions ----------------------------
(***************************************************************************)
(* ResourceSubscriptionManager: the map uri -> (label -> McpServer) as the *)
(* set of its entries.  A label is whatever the transport put into the     *)
(* context as sessionId; a server is named by the session it serves.       *)
(***************************************************************************)
EXTENDS Naturals

Entry(label, uri, server) == [label |-> label, uri |-> uri, server |-> server]

\* The entry a label has for a uri, if any: Map keys are unique.
EntriesAt(subs, label, uri) == {e \in subs : e.label = label /\ e.uri = uri}

Subscribe(subs, label, uri, server) ==
  (subs \ EntriesAt(subs, label, uri)) \union {Entry(label, uri, server)}

Unsubscribe(subs, label, uri) == subs \ EntriesAt(subs, label, uri)

\* Slip: the uri loses all its subscribers.
RemoveSessionAndPeers(subs, label) ==
  {e \in subs : \A f \in subs : f.label = label => f.uri # e.uri}

RemoveSession(subs, label) == {e \in subs : e.label # label}

\* The servers notifyResourceUpdated sends to.
Subscribers(subs, uri) == {e.server : e \in {x \in subs : x.uri = uri}}
=============================================================================
