---------------------------- MODULE GatewayCatalog ----------------------------
(***************************************************************************)
(* What the gateway offers and where it sends it: the upstreams are        *)
(* connected at start-up, their tools, resources, prompts and templates    *)
(* are fetched, renamed and registered, and requests for them are led back *)
(* by the name alone (tools, tasks) or by the list that was aggregated     *)
(* last (the others), while upstreams fail, recover, leave and come back.  *)
(*                                                                         *)
(* An upstream is called by its name, a sequence of tokens like every      *)
(* other name here.                                                        *)
(***************************************************************************)
EXTENDS UriTemplates, FiniteSets

CONSTANTS
  Words,       \* words, separators and parameters
  Setups,       \* options.upstreams to start with, and whether on the stdio transport
  Names,        \* the names in them
  Offers,       \* what each upstream lists, for each kind
  Uris,         \* URIs clients read through templates
  Tasks,        \* task ids of upstreams
  Again,        \* kinds listed once more while the gateway runs
  MaxFaults,    \* bound: failures, health changes and disconnections
  NoUpstream    \* what the router answers for an unknown name

Configs == {setup[1] : setup \in Setups}

Kinds == {"tool", "resource", "prompt", "template"}

\* A parameter of a template is no separator, and a scheme's is plain text; what a word
\* decodes to is encoded and decoded back; every upstream has a name, and a missing one
\* is none.
ASSUME GatewayCatalogAssumption ==
  /\ {"_", "://", "?", "::"} \union PathParams \union QueryParams \subseteq Words
  /\ {"_", "://", "?", "::"} \intersect (PathParams \union QueryParams) = {}
  /\ "://" \notin Patterns
  /\ \A word \in Words \ Malformed :
       LET encoded == EncodeURIComponent(DecodeURIComponent(word)) IN
         encoded \in Words /\ DecodeURIComponent(encoded) = DecodeURIComponent(word)
  /\ NoUpstream \notin Names /\ <<>> \notin Names
  /\ Names \subseteq Seq(Words) /\ Tasks \subseteq Seq(Words) /\ Uris \subseteq Seq(Words)
  /\ \A setup \in Setups : setup[2] \in BOOLEAN
  /\ Configs \subseteq Seq([name : Names, prefix : Seq(Words), enabled : BOOLEAN])
  /\ Offers \in [Names -> [Kinds -> Seq(Seq(Words))]]
  /\ Again \subseteq Kinds
  /\ MaxFaults \in Nat

VARIABLES
  upstreams,    \* the configuration
  stdio,        \* is the stdio transport connected, listening to the registry
  phase,        \* how far onApplicationBootstrap has come
  order,        \* keys of UpstreamManagerService.upstreams, as inserted
  status,       \* and where each stands
  lists,        \* aggregateAll calls under way
  cached,       \* what the aggregators keep
  registered,   \* items in the server's registry
  completions,  \* and its completion handlers
  request,      \* a request being forwarded
  fetched,      \* history: what was fetched of the kinds the start-up got through
  faults        \* faults so far

gcVars == <<upstreams, stdio, phase, order, status, lists, cached, registered, completions,
          request, fetched, faults>>

NoRequest == [state |-> "idle"]

GCInit ==
  /\ \E setup \in Setups : upstreams = setup[1] /\ stdio = setup[2]
  /\ phase = "new"
  /\ order = <<>>
  /\ status = [u \in Names |-> "absent"]
  /\ lists = {}
  /\ cached = [k \in Kinds |-> <<>>]
  /\ registered = {}
  /\ completions = {}
  /\ request = NoRequest
  /\ fetched = {}
  /\ faults = 0

(***************************************************************************)
(* Names                                                                   *)
(***************************************************************************)
Enabled == Without(upstreams, {c \in ToSet(upstreams) : ~c.enabled})

\* RouterService.configure: a prefix two upstreams share leads to the last.
PrefixToName(prefix) == SelectLastInSeq(Enabled, LAMBDA c : c.prefix = prefix)

PrefixOf(u) == Enabled[SelectLastInSeq(Enabled, LAMBDA c : c.name = u)].prefix

Nowhere == [upstream |-> NoUpstream, original |-> <<>>]

\* Slip: the name is split at its last separator.
ResolveAtLast(name) ==
  LET cut == SelectLastInSeq(name, LAMBDA t : t = "_")
      n == PrefixToName(SubSeq(name, 1, cut - 1))
  IN  IF cut = 0 \/ n = 0 THEN Nowhere
      ELSE [upstream |-> Enabled[n].name, original |-> SubSeq(name, cut + 1, Len(name))]

\* Tools are split at the first separator.
Resolve(name) ==
  LET n == PrefixToName(Before(name, "_"))
  IN  IF ~Contains(name, "_") \/ n = 0 THEN Nowhere
      ELSE [upstream |-> Enabled[n].name, original |-> After(name, "_")]

Separator(kind) == IF kind \in {"tool", "prompt"} THEN "_" ELSE "://"

\* buildPrefixedName for tools and prompts, a scheme for the rest; an empty prefix
\* leaves the name as it is.
Key(kind, u, original) ==
  IF PrefixOf(u) = <<>> THEN original ELSE (PrefixOf(u) \o <<Separator(kind)>>) \o original

BuildTaskId(u, id) == u \o <<"::">> \o id

ParseTaskId(id) ==
  IF Contains(id, "::") THEN [upstream |-> Before(id, "::"), original |-> After(id, "::")]
  ELSE Nowhere

(***************************************************************************)
(* Upstreams                                                               *)
(***************************************************************************)
Managed(u) == status[u] # "absent"
Healthy(u) == status[u] = "healthy"

\* The names in a list of configurations, each where it comes first.
NamesOf(configs) ==
  LET first == {n \in DOMAIN configs : \A m \in 1 .. n - 1 : configs[m].name # configs[n].name}
      names[n \in 0 .. Len(configs)] ==
        IF n = 0 THEN <<>>
        ELSE IF n \in first THEN Append(names[n - 1], configs[n].name) ELSE names[n - 1]
  IN  names[Len(configs)]

\* onApplicationBootstrap up to the await of connectAll: routes, then an entry
\* for each enabled upstream; one of a name that is there is skipped.
Bootstrap ==
  LET all == NamesOf(Enabled) IN
    /\ phase = "new"
    /\ phase' = "connecting"
    /\ order' = all
    /\ status' = [u \in Names |-> IF u \in ToSet(all) THEN "connecting" ELSE "absent"]
    /\ UNCHANGED <<upstreams, stdio, lists, cached, registered, completions, request, fetched, faults>>

\* The transport is created and connected; an error leaves the entry.
ConnectEnds(u) ==
  /\ status[u] = "connecting"
  /\ \/ status' = [status EXCEPT ![u] = "healthy"] /\ UNCHANGED faults
     \/ /\ faults < MaxFaults
        /\ status' = [status EXCEPT ![u] = "failed"]
        /\ faults' = faults + 1
  /\ UNCHANGED <<upstreams, stdio, phase, order, lists, cached, registered, completions, request,
                 fetched>>

Started == phase \notin {"new", "connecting"}

\* setHealthy after a health check; these start once connectAll is through.
\* The client of an upstream that could not be connected is never answered.
Health(u) ==
  /\ Started /\ faults < MaxFaults
  /\ status[u] \in {"healthy", "unhealthy"}
  /\ status' = [status EXCEPT ![u] = IF Healthy(u) THEN "unhealthy" ELSE "healthy"]
  /\ faults' = faults + 1
  /\ UNCHANGED <<upstreams, stdio, phase, order, lists, cached, registered, completions, request,
                 fetched>>

\* disconnect has closed the client.
Disconnect(u) ==
  /\ Started /\ faults < MaxFaults
  /\ Managed(u)
  /\ status' = [status EXCEPT ![u] = "absent"]
  /\ order' = Without(order, {u})
  /\ faults' = faults + 1
  /\ UNCHANGED <<upstreams, stdio, phase, lists, cached, registered, completions, request, fetched>>

\* connect, called again for an upstream that was disconnected.
Connect(u) ==
  /\ Started
  /\ ~Managed(u) /\ \E n \in DOMAIN Enabled : Enabled[n].name = u
  /\ status' = [status EXCEPT ![u] = "connecting"]
  /\ order' = Append(order, u)
  /\ UNCHANGED <<upstreams, stdio, phase, lists, cached, registered, completions, request, fetched,
                 faults>>

(***************************************************************************)
(* Aggregation                                                             *)
(***************************************************************************)
\* aggregateAll, up to its await: only healthy upstreams are asked.  by is the
\* start-up, or a caller of GatewayService.
Aggregation(by, kind) ==
  [by |-> by, kind |-> kind, names |-> order, pending |-> {u \in ToSet(order) : Healthy(u)},
   got |-> [u \in ToSet(order) |-> <<>>], done |-> FALSE]

Item(kind, u, original) ==
  [kind |-> kind, key |-> Key(kind, u, original), upstream |-> u, original |-> original]

AllItems(a) ==
  LET items[n \in 0 .. Len(a.names)] ==
        IF n = 0 THEN <<>> ELSE items[n - 1] \o a.got[a.names[n]]
  IN  items[Len(a.names)]

FetchOf(a, u) ==
  [n \in DOMAIN Offers[u][a.kind] |-> Item(a.kind, u, Offers[u][a.kind][n])]

Answered(a, u) == [a EXCEPT !.pending = @ \ {u}, !.got[u] = FetchOf(a, u)]

\* Slip: listing an upstream that fails rejects the whole list.
FetchedOrRejected(a, u) ==
  /\ a \in lists /\ u \in a.pending
  /\ \/ /\ Managed(u)
        /\ lists' = (lists \ {a}) \union {Answered(a, u)}
        /\ UNCHANGED faults
     \/ /\ faults < MaxFaults \/ ~Managed(u)
        /\ lists' = lists \ {a}
        /\ faults' = IF Managed(u) THEN faults + 1 ELSE faults
  /\ UNCHANGED <<upstreams, stdio, phase, order, status, cached, registered, completions, request,
                 fetched>>

\* All pages of one upstream are in, or asking for one of them failed.
Fetched(a, u) ==
  /\ a \in lists /\ u \in a.pending
  /\ \/ /\ Managed(u)
        /\ lists' = (lists \ {a}) \union {Answered(a, u)}
        /\ UNCHANGED faults
     \/ /\ faults < MaxFaults \/ ~Managed(u)
        /\ lists' = (lists \ {a}) \union {[a EXCEPT !.pending = @ \ {u}]}
        /\ faults' = IF Managed(u) THEN faults + 1 ELSE faults
  /\ UNCHANGED <<upstreams, stdio, phase, order, status, cached, registered, completions, request,
                 fetched>>

\* Everything is settled: the list is kept, whichever is done last.
Aggregated(a) ==
  /\ a \in lists /\ a.pending = {} /\ ~a.done
  /\ cached' = [cached EXCEPT ![a.kind] = AllItems(a)]
  /\ lists' = (lists \ {a}) \union (IF a.by = "boot" THEN {[a EXCEPT !.done = TRUE]} ELSE {})
  /\ UNCHANGED <<upstreams, stdio, phase, order, status, registered, completions, request, fetched,
                 faults>>

\* GatewayService.listTools and its siblings, called once more.
ListAgain(kind) ==
  /\ Started
  /\ \A a \in lists : a.by = "boot"
  /\ lists' = lists \union {Aggregation("again", kind)}
  /\ UNCHANGED <<upstreams, stdio, phase, order, status, cached, registered, completions, request,
                 fetched, faults>>

(***************************************************************************)
(* Start-up                                                                *)
(***************************************************************************)
\* connectAll is through, and health checks run: now the tools.
AllConnected ==
  /\ phase = "connecting"
  /\ \A u \in Names : status[u] # "connecting"
  /\ phase' = "tool"
  /\ lists' = lists \union {Aggregation("boot", "tool")}
  /\ UNCHANGED <<upstreams, stdio, order, status, cached, registered, completions, request, fetched,
                 faults>>

Following == [tool |-> "resource", resource |-> "prompt", prompt |-> "template",
              template |-> "up"]

SameEntry(i, j) == i.kind = j.kind /\ i.key = j.key

\* Map.set in the registry, an item at a time: of one name the last stays.
Registering(known, items) ==
  LET last == {n \in DOMAIN items : \A m \in n + 1 .. Len(items) : ~SameEntry(items[m], items[n])}
  IN  {i \in known : \A n \in DOMAIN items : ~SameEntry(items[n], i)} \union {items[n] : n \in last}

\* Slip: what the aggregator keeps is registered, whoever asked for it.
ToRegisterKept(a) == cached[a.kind]

ToRegister(a) == AllItems(a)

\* registerUpstreamTools and its siblings are past their await.
Registers(a) == a \in lists /\ a.by = "boot" /\ a.done /\ phase = a.kind

\* All is registered; at the end the completion handlers are, for what the aggregators
\* keep by now.
RegisterFetched(a) ==
  /\ Registers(a)
  /\ registered' = Registering(registered, ToRegister(a))
  /\ fetched' = fetched \union ToSet(AllItems(a))
  /\ phase' = Following[a.kind]
  /\ IF phase' = "up"
     THEN /\ lists' = lists \ {a}
          /\ completions' =
               UNION {{<<k, i.key>> : i \in ToSet(cached[k])} : k \in {"prompt", "template"}}
     ELSE /\ lists' = (lists \ {a}) \union {Aggregation("boot", phase')}
          /\ UNCHANGED completions
  /\ UNCHANGED <<upstreams, stdio, order, status, cached, request, faults>>

\* Registering emits an event, and StdioService's listener throws where its McpServer
\* refuses the item: the rest is not registered, and onApplicationBootstrap rejects.
RegistrationThrows(a) ==
  /\ Registers(a) /\ stdio
  /\ \E n \in DOMAIN ToRegister(a) :
       registered' = Registering(registered, SubSeq(ToRegister(a), 1, n))
  /\ phase' = "failed"
  /\ lists' = lists \ {a}
  /\ UNCHANGED <<upstreams, stdio, order, status, cached, completions, request, fetched, faults>>

(***************************************************************************)
(* Requests                                                                *)
(***************************************************************************)
\* cached.find by name or URI.
Find(kind, key) ==
  LET n == SelectInSeq(cached[kind], LAMBDA i : i.key = key)
  IN  IF n = 0 THEN Nowhere
      ELSE [upstream |-> cached[kind][n].upstream, original |-> cached[kind][n].original]

\* readResourceTemplate walks the templates up to the first that matches, or throws.
Walked(uri) ==
  SelectInSeq(cached["template"],
              LAMBDA i : MatchUriTemplate(i.key, uri) \/ Throws(i.key, uri))

\* The one that matches is expanded again as its upstream wrote it.
FindTemplate(uri) ==
  LET n == Walked(uri)
      item == cached["template"][n]
  IN  IF n = 0 THEN Nowhere
      ELSE [upstream |-> item.upstream,
            original |-> ExpandUriTemplate(item.original, Params(item.key, uri))]

Destination(kind, key) ==
  CASE kind = "tool" -> Resolve(key)
    [] kind = "template" -> FindTemplate(key)
    [] kind = "task" -> ParseTaskId(key)
    [] OTHER -> Find(kind, key)

\* A request that leads to no upstream the manager knows is answered so; others
\* are refused when the upstream is gone or not healthy, though completions do
\* not ask for its health.
Forwarded(kind, key, to, item) ==
  /\ request = NoRequest
  /\ LET asked == [state |-> "sent", kind |-> kind, key |-> key, to |-> to, item |-> item] IN
       \/ /\ to.upstream \notin Names
          /\ request' = [asked EXCEPT !.state = "unknown"]
       \/ /\ to.upstream \in Names
          /\ IF kind = "completion" THEN Managed(to.upstream) ELSE Healthy(to.upstream)
          /\ request' = asked
  /\ UNCHANGED <<upstreams, stdio, phase, order, status, lists, cached, registered, completions,
                 fetched, faults>>

\* callTool, readResource, getPrompt for a registered item.
Request(item) ==
  /\ item.kind # "template"
  /\ Forwarded(item.kind, item.key, Destination(item.kind, item.key), item)

\* A URI the server finds a registered template for.
Serves(item, uri) ==
  item.kind = "template" /\ MatchUriTemplate(item.key, uri) /\ ~Throws(item.key, uri)

WalkThrows(uri) == LET n == Walked(uri) IN n # 0 /\ Throws(cached["template"][n].key, uri)

Read(item, uri) ==
  /\ request = NoRequest /\ Serves(item, uri) /\ ~WalkThrows(uri)
  /\ Forwarded("template", uri, Destination("template", uri), item)

\* The match is outside of readResourceTemplate's try.
ReadRejected(item, uri) ==
  /\ request = NoRequest /\ Serves(item, uri) /\ WalkThrows(uri)
  /\ request' = [state |-> "rejected", kind |-> "template", key |-> uri, to |-> Nowhere,
                 item |-> item]
  /\ UNCHANGED <<upstreams, stdio, phase, order, status, lists, cached, registered, completions,
                 fetched, faults>>

CompleteRegistered(kind, key) ==
  /\ <<kind, key>> \in completions
  /\ Forwarded("completion", key, Find(kind, key), [kind |-> kind, key |-> key])

\* tasks/get, tasks/cancel and tasks/result for an id that tasks/list or a
\* status notification gave the client.
Task(u, id) ==
  /\ Started
  /\ Forwarded("task", BuildTaskId(u, id), Destination("task", BuildTaskId(u, id)),
               [kind |-> "task", upstream |-> u, original |-> id])

\* Answered, in error or timed out.
RequestEnds ==
  /\ request # NoRequest
  /\ request' = NoRequest
  /\ UNCHANGED <<upstreams, stdio, phase, order, status, lists, cached, registered, completions,
                 fetched, faults>>

GCNext ==
  \/ Bootstrap \/ AllConnected \/ RequestEnds
  \/ \E u \in Names : ConnectEnds(u) \/ Health(u) \/ Disconnect(u) \/ Connect(u)
  \/ \E a \in lists : \/ Aggregated(a) \/ RegisterFetched(a) \/ RegistrationThrows(a)
                    \/ \E u \in a.pending : Fetched(a, u)
  \/ \E kind \in Again : ListAgain(kind)
  \/ \E item \in registered :
       Request(item) \/ \E uri \in Uris : Read(item, uri) \/ ReadRejected(item, uri)
  \/ \E c \in completions : CompleteRegistered(c[1], c[2])
  \/ \E u \in Names, id \in Tasks : Task(u, id)

\* A connection attempt and a request to an upstream end, by the SDK's timeout
\* at the latest.
Boots ==
  \/ Bootstrap \/ AllConnected
  \/ \E a \in lists :
       a.by = "boot" /\ (Aggregated(a) \/ RegisterFetched(a) \/ RegistrationThrows(a))

GCSpec ==
  /\ GCInit /\ [][GCNext]_gcVars
  /\ WF_gcVars(Boots)
  /\ \A u \in Names : WF_gcVars(ConnectEnds(u))
  /\ \A u \in Names : WF_gcVars(\E a \in lists : a.by = "boot" /\ Fetched(a, u))

(***************************************************************************)
(* Properties                                                              *)
(***************************************************************************)
GCTypeOK ==
  /\ phase \in {"new", "connecting", "up", "failed"} \union Kinds
  /\ IsInjective(order) /\ ToSet(order) = {u \in Names : Managed(u)}
  /\ status \in [Names -> {"absent", "connecting", "healthy", "unhealthy", "failed"}]
  /\ Cardinality({<<i.kind, i.key>> : i \in registered}) = Cardinality(registered)
  /\ faults \in 0..MaxFaults

Prefixed == \A n \in DOMAIN Enabled : Enabled[n].prefix # <<>>

\* Its prefix holds no separator and no parameter, and no other does that starts with
\* the same words; none is empty.
Distinct(u) ==
  /\ Prefixed
  /\ ToSet(PrefixOf(u)) \intersect ({"_", "://"} \union PathParams \union QueryParams) = {}
  /\ \A n \in DOMAIN Enabled :
       \/ Enabled[n].name = u
       \/ /\ ToSet(Enabled[n].prefix) \intersect (PathParams \union QueryParams) = {}
          /\ \A separator \in {"_", "://"} :
               Before(Enabled[n].prefix, separator) # PrefixOf(u)

\* No prefix is read as a pattern when it is part of a template.
PlainPrefixes == \A n \in DOMAIN Enabled : ToSet(Enabled[n].prefix) \intersect Patterns = {}

\* Each of its templates is plain text but for parameters, and names each once.
Plain(u) ==
  \A t \in ToSet(Offers[u]["template"]) :
    /\ ToSet(t) \intersect Patterns = {}
    /\ \A m, n \in DOMAIN PathOf(t) :
         PathOf(t)[m] = PathOf(t)[n] /\ PathOf(t)[n] \in PathParams => m = n

\* Some upstream lists a template that makes no expression.
SomeBroken ==
  \E n \in DOMAIN Enabled : \E t \in ToSet(Offers[Enabled[n].name]["template"]) :
    ToSet(t) \intersect Broken # {}

\* What is read through a template of u: the upstream's own URI for the one given, up to
\* how its segments are encoded.  Only a part that cannot be decoded or a template that
\* makes no expression is rejected, the latter whichever upstream lists it.
ReadHome(u) ==
  IF request.state = "rejected" THEN ToSet(request.key) \intersect Malformed # {} \/ SomeBroken
  ELSE /\ request.to.upstream = u
       /\ Plain(u) =>
            Decoded(Key("template", u, request.to.original)) = Decoded(Before(request.key, "?"))

\* A request goes home (router.service.ts, gateway.service.ts,
\* task-aggregator.service.ts): whatever the lists have become since, what is
\* sent goes to the upstream the item was registered for, under the name it
\* has there, a task to the upstream that runs it, and nothing is unknown but
\* an item of a kind that was listed again.  For prefixes that cannot be taken
\* for one another, and names without "::"; for what is read through templates
\* also not as regular expressions.
RoutesHome ==
  request # NoRequest =>
    LET item == request.item
        home == [upstream |-> item.upstream, original |-> item.original]
    IN
    /\ request.kind = "task" => Contains(item.upstream, "::") \/ request.to = home
    /\ request.kind \in Kinds /\ Distinct(item.upstream) =>
         IF request.state = "unknown" THEN item.kind \in Again
         ELSE IF request.kind = "template" THEN PlainPrefixes => ReadHome(item.upstream)
         ELSE request.to = home

\* Start-up loses nothing it was given (mcp-gateway.module.ts): every item an
\* upstream answered with is registered, unless an item of another upstream
\* has the same name; this although other callers list at the same time and
\* overwrite what the aggregators keep.  Only where the stdio transport's
\* listener throws is the rest of a kind left out, and the start-up fails.
BootRegistersAll ==
  /\ GCTypeOK
  /\ phase = "failed" => stdio
  /\ \A i \in fetched : \E r \in registered :
       r = i \/ (SameEntry(r, i) /\ ~Distinct(i.upstream))

\* The gateway comes up whichever upstreams fail (upstream-manager.service.ts,
\* the aggregators): no connection or listing that fails stops the start-up,
\* which only the listener of the stdio transport can.
ComesUp == <>(phase = "up" \/ (stdio /\ phase = "failed"))
===============================================================================
