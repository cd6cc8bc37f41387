------------------------------- MODULE Gateway -------------------------------
(***************************************************************************)
(* The gateway: tool calls forwarded to upstreams, with the response cache *)
(* before and after them, the forwarder that sends an upstream's sampling  *)
(* requests to the client being served, connections that come and go, and  *)
(* health checks.                                                          *)
(*                                                                         *)
(* A key stands for a tool with its arguments; the upstream it is routed   *)
(* to is given by its prefix.  Elicitation has a forwarder map of its own, *)
(* handled step by step like the one for sampling.                         *)
(***************************************************************************)
EXTENDS Naturals, Sequences, SequencesExt, Removal

CONSTANTS
  Upstreams,
  Keys,        \* tool names with arguments
  Route,       \* the upstream of each key, or None
  Calls,       \* tools/call requests of downstream clients
  Sampling,    \* those whose client can sample
  MaxPings,    \* bound: health checks under way at a time, for an upstream
  MaxSize,     \* of the response cache
  None         \* no upstream, no call

ASSUME GatewayAssumption ==
  /\ None \notin Upstreams \union Calls
  /\ Route \in [Keys -> Upstreams \union {None}]
  /\ Sampling \subseteq Calls
  /\ MaxSize \in Nat \ {0} /\ MaxPings \in Nat \ {0}

VARIABLES
  status,     \* each upstream in the manager's map: its entry, if any
  healthy,    \* managed.healthy
  closing,    \* upstreams whose disconnect awaits client.close()
  answers,    \* upstreams that answer: a matter of the network
  pings,      \* health checks of each upstream that await its ping
  cache,      \* keys of ResponseCacheService.store, in insertion order
  stale,      \* those whose expiresAt has passed
  call,       \* where each call stands
  key,        \* what it asks for
  forwarder   \* samplingForwarders: the call each leads to

upstream == <<status, healthy, closing, answers>>
cached == <<cache, stale>>
vars == <<upstream, pings, cached, call, key, forwarder>>

Init ==
  /\ status = [u \in Upstreams |-> "absent"]
  /\ healthy = [u \in Upstreams |-> FALSE]
  /\ closing = {}
  /\ answers \in SUBSET Upstreams
  /\ pings = [u \in Upstreams |-> 0]
  /\ cache = <<>>
  /\ stale = {}
  /\ call = [c \in Calls |-> "idle"]
  /\ key = [c \in Calls |-> None]
  /\ forwarder = [u \in Upstreams |-> None]

(***************************************************************************)
(* Upstreams                                                               *)
(***************************************************************************)
Managed(u) == status[u] # "absent"

Connect(u) ==
  /\ ~Managed(u)
  /\ status' = [status EXCEPT ![u] = "connecting"]
  /\ UNCHANGED <<healthy, closing, answers, pings, cached, call, key, forwarder>>

\* client.connect succeeds or throws; the entry stays in either case.
ConnectEnds(u) ==
  /\ status[u] = "connecting"
  /\ \/ /\ u \in answers
        /\ status' = [status EXCEPT ![u] = "connected"]
        /\ healthy' = [healthy EXCEPT ![u] = TRUE]
     \/ /\ status' = [status EXCEPT ![u] = "failed"]
        /\ UNCHANGED healthy
  /\ UNCHANGED <<closing, answers, pings, cached, call, key, forwarder>>

Disconnect(u) ==
  /\ Managed(u) /\ u \notin closing
  /\ closing' = closing \union {u}
  /\ UNCHANGED <<status, healthy, answers, pings, cached, call, key, forwarder>>

Disconnected(u) ==
  /\ u \in closing
  /\ closing' = closing \ {u}
  /\ status' = [status EXCEPT ![u] = "absent"]
  /\ healthy' = [healthy EXCEPT ![u] = FALSE]
  /\ UNCHANGED <<answers, pings, cached, call, key, forwarder>>

Network(u) ==
  /\ answers' = IF u \in answers THEN answers \ {u} ELSE answers \union {u}
  /\ UNCHANGED <<status, healthy, closing, pings, cached, call, key, forwarder>>

\* Slip: an upstream once found unhealthy stays so.
SetHealthyOnce(u, value) == healthy' = [healthy EXCEPT ![u] = Managed(u) /\ value /\ @]

\* setHealthy, on whatever entry there is by now.
SetHealthy(u, value) == healthy' = [healthy EXCEPT ![u] = Managed(u) /\ value]

\* check() finds a client and pings it; without one it changes nothing.  The
\* interval does not wait for the check before.
Ping(u) ==
  /\ Managed(u) /\ pings[u] < MaxPings
  /\ pings' = [pings EXCEPT ![u] = @ + 1]
  /\ UNCHANGED <<upstream, cached, call, key, forwarder>>

\* How a ping may end.  While the client is being connected or closed, or has
\* just been, it may be answered or not.
PingEnds(u) ==
  IF u \notin answers \/ status[u] = "failed" THEN {FALSE}
  ELSE IF status[u] = "connected" /\ u \notin closing THEN {TRUE}
  ELSE BOOLEAN

\* The ping is answered, fails, or is aborted at timeoutMs.
Checked(u) ==
  /\ pings[u] > 0
  /\ \E value \in PingEnds(u) : SetHealthy(u, value)
  /\ pings' = [pings EXCEPT ![u] = @ - 1]
  /\ UNCHANGED <<status, closing, answers, cached, call, key, forwarder>>

(***************************************************************************)
(* The response cache                                                      *)
(***************************************************************************)
Uncache(k) ==
  /\ cache' = Without(cache, {k})
  /\ stale' = stale \ {k}

Full == Len(cache) >= MaxSize

\* set(): the oldest entry makes room even if k has an entry already; an entry
\* that is replaced keeps its place.
Store(k) ==
  LET kept == IF Full THEN Tail(cache) ELSE cache
  IN /\ cache' = IF k \in ToSet(kept) THEN kept ELSE Append(kept, k)
     /\ stale' = (stale \intersect ToSet(kept)) \ {k}

\* ttl passes; the interval's evictExpired; invalidate().
Age(k) ==
  /\ k \in ToSet(cache) \ stale
  /\ stale' = stale \union {k}
  /\ UNCHANGED <<upstream, pings, cache, call, key, forwarder>>

EvictExpired ==
  /\ stale # {}
  /\ cache' = Without(cache, stale)
  /\ stale' = {}
  /\ UNCHANGED <<upstream, pings, call, key, forwarder>>

Invalidate(k) ==
  /\ k \in ToSet(cache)
  /\ Uncache(k)
  /\ UNCHANGED <<upstream, pings, call, key, forwarder>>

(***************************************************************************)
(* callTool                                                                *)
(***************************************************************************)
Server(c) == Route[key[c]]

\* The policy may deny the call or ask for an approval nobody gives.
Deny(c, k) ==
  /\ call[c] = "idle"
  /\ call' = [call EXCEPT ![c] = "refused"]
  /\ key' = [key EXCEPT ![c] = k]
  /\ UNCHANGED <<upstream, pings, cached, forwarder>>

\* Route and cache; a cached answer is looked for before the upstream is.
CallTool(c, k) ==
  /\ call[c] = "idle"
  /\ key' = [key EXCEPT ![c] = k]
  /\ IF Route[k] = None
     THEN call' = [call EXCEPT ![c] = "refused"] /\ UNCHANGED cached
     ELSE IF k \in ToSet(cache) \ stale
     THEN call' = [call EXCEPT ![c] = "served"] /\ UNCHANGED cached
     ELSE call' = [call EXCEPT ![c] = "requesting"] /\ Uncache(k)
  /\ UNCHANGED <<upstream, pings, forwarder>>

\* A request transform throws, out of callTool.
TransformThrows(c) ==
  /\ call[c] = "requesting"
  /\ call' = [call EXCEPT ![c] = "thrown"]
  /\ UNCHANGED <<upstream, pings, cached, key, forwarder>>

\* The transforms are done; the upstream is looked at only now.
Forward(c) ==
  /\ call[c] = "requesting"
  /\ IF Managed(Server(c)) /\ healthy[Server(c)]
     THEN /\ call' = [call EXCEPT ![c] = "forwarded"]
          /\ forwarder' = IF c \in Sampling
                          THEN [forwarder EXCEPT ![Server(c)] = c]
                          ELSE forwarder
     ELSE /\ call' = [call EXCEPT ![c] = "refused"]
          /\ UNCHANGED forwarder
  /\ UNCHANGED <<upstream, pings, cached, key>>

\* finally: whichever forwarder is there goes.
Deactivate(c) ==
  IF c \in Sampling THEN [forwarder EXCEPT ![Server(c)] = None] ELSE forwarder

\* The upstream's answer is in, its timer cleared; response transforms follow.
Answered(c) ==
  /\ call[c] = "forwarded" /\ Server(c) \in answers
  /\ call' = [call EXCEPT ![c] = "responding"]
  /\ UNCHANGED <<upstream, pings, cached, key, forwarder>>

\* A result without isError is cached.
Succeeds(c) ==
  /\ call[c] = "responding"
  /\ Store(key[c])
  /\ call' = [call EXCEPT ![c] = "ok"]
  /\ forwarder' = Deactivate(c)
  /\ UNCHANGED <<upstream, pings, key>>

\* Slip: a call that fails leaves its forwarder.
FailsLeaving(c) ==
  /\ call' = [call EXCEPT ![c] = "error"]
  /\ UNCHANGED <<upstream, pings, cached, key, forwarder>>

\* Slip: what is told to the caller of a failed call is cached as well.
FailsCaching(c) ==
  /\ Store(key[c])
  /\ call' = [call EXCEPT ![c] = "error"]
  /\ forwarder' = Deactivate(c)
  /\ UNCHANGED <<upstream, pings, key>>

Fails(c) ==
  /\ call' = [call EXCEPT ![c] = "error"]
  /\ forwarder' = Deactivate(c)
  /\ UNCHANGED <<upstream, pings, cached, key>>

\* A result that is an error, or a response transform that throws.
RespondsInError(c) == call[c] = "responding" /\ Fails(c)

\* The upstream refuses, its connection is lost, or the client cancels.
Breaks(c) == call[c] = "forwarded" /\ Fails(c)

\* Slip: a call is given up only while its upstream is being disconnected.
TimesOutClosing(c) == call[c] = "forwarded" /\ Server(c) \in closing /\ Fails(c)

\* The upstream's timeout passes, or the SDK's own for a request.
TimesOut(c) == call[c] = "forwarded" /\ Fails(c)

Respond(c) == Succeeds(c) \/ RespondsInError(c)
Prepare(c) == TransformThrows(c) \/ Forward(c)

Next ==
  \/ \E u \in Upstreams : \/ Connect(u) \/ ConnectEnds(u) \/ Disconnect(u)
                          \/ Disconnected(u) \/ Network(u)
                          \/ Ping(u) \/ Checked(u)
  \/ \E k \in Keys : Age(k) \/ Invalidate(k)
  \/ EvictExpired
  \/ \E c \in Calls, k \in Keys : Deny(c, k) \/ CallTool(c, k)
  \/ \E c \in Calls : \/ Prepare(c) \/ Answered(c) \/ Respond(c)
                      \/ Breaks(c) \/ TimesOut(c)

\* Transforms return, timeouts and the checks' intervals and aborts come.
Spec ==
  /\ Init /\ [][Next]_vars
  /\ \A c \in Calls : WF_vars(Prepare(c)) /\ WF_vars(Respond(c)) /\ WF_vars(TimesOut(c))
  /\ \A u \in Upstreams : WF_vars(Ping(u)) /\ WF_vars(Checked(u))

(***************************************************************************)
(* Properties                                                              *)
(***************************************************************************)
\* Every variable keeps its shape; only entries that exist are healthy, and
\* only entries that exist are being closed.
TypeOK ==
  /\ status \in [Upstreams -> {"absent", "connecting", "connected", "failed"}]
  /\ healthy \in [Upstreams -> BOOLEAN]
  /\ closing \subseteq Upstreams
  /\ answers \subseteq Upstreams
  /\ \A u \in Upstreams : healthy[u] \/ u \in closing => Managed(u)
  /\ pings \in [Upstreams -> 0 .. MaxPings]
  /\ cache \in Seq(Keys)
  /\ stale \subseteq ToSet(cache)
  /\ call \in [Calls -> {"idle", "refused", "served", "requesting", "thrown",
                         "forwarded", "responding", "ok", "error"}]
  /\ key \in [Calls -> Keys \union {None}]
  /\ forwarder \in [Upstreams -> Calls \union {None}]

Running == {"forwarded", "responding"}

\* An upstream's requests never reach a client that it is not serving: its
\* forwarder, if any, is that of a call now running on it, however calls
\* overwrite and delete each other's ("forwarders are always cleaned up").
ForwarderServes ==
  \A u \in Upstreams :
    forwarder[u] # None => /\ call[forwarder[u]] \in Running
                           /\ Server(forwarder[u]) = u

\* The cache holds each key once, at most maxSize of them, and each because
\* some call for that key was answered without error.
CacheKept ==
  /\ TypeOK
  /\ Len(cache) <= MaxSize
  /\ IsInjective(cache)
  /\ \A k \in ToSet(cache) : \E c \in Calls : key[c] = k /\ call[c] = "ok"

Ended == {"refused", "served", "thrown", "ok", "error"}

\* Every call comes to an end, whatever becomes of its upstream meanwhile.
EveryCallEnds == \A c \in Calls : call[c] # "idle" ~> call[c] \in Ended

\* "An upstream automatically recovers when the next health check ping
\* succeeds": one that stays connected and answers is in the end taken for
\* healthy for good, one that stays silent for unhealthy.
HealthFollows ==
  \A u \in Upstreams :
    LET InUse == status[u] = "connected" /\ u \notin closing
    IN /\ <>[](InUse /\ u \in answers) => <>[]healthy[u]
       /\ <>[](InUse /\ u \notin answers) => <>[]~healthy[u]
=============================================================================
