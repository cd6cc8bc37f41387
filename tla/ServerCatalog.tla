---------------------------- MODULE ServerCatalog ----------------------------
(***************************************************************************)
(* The catalog of a server on the stdio transport, from module wiring to   *)
(* shutdown: the providers that are scanned, the meta-tools added for lazy *)
(* exposure, the McpServer that is built from the registry and then kept   *)
(* up to date by its events, and a client that pages through a listing     *)
(* while items come and go.  Listings are read from the registry, calls    *)
(* arrive through the items of the McpServer: the two have to agree.       *)
(***************************************************************************)
EXTENDS Exposure

CONSTANTS
  Decorated,     \* decorated methods in the order they are found: the item each
                 \* gives, and the servers its feature module is for, if it names any
  Dynamic,       \* items the builders may register
  Options,       \* module options to start with
  ServerName,    \* options.name
  Index, Schema, \* names of the meta-tools
  Callers,       \* clients: scopes held, search beta declared
  PageSize, MaxPages, MaxBatchSize,
  MaxChanges     \* bound: registrations and removals

ItemKinds == {"tool", "resource", "template", "prompt"}

Items ==
  [kind : ItemKinds, key : STRING, name : STRING, tags : SUBSET STRING,
   exposure : {"eager", "deferred", "auto"}, scopes : SUBSET STRING]

\* The registry keeps tools by name, and the meta-tools are objects that only
\* ExposureService makes.  By its type, a resolver that declares kinds gives no
\* other; what is not a resolver is one strategy for all clients.
ASSUME CatalogAssumption ==
  /\ PageSize \in Nat \ {0} /\ MaxPages \in Nat \ {0} /\ MaxChanges \in Nat
  /\ MaxBatchSize \in Nat \ {0}
  /\ Index \in STRING /\ Schema \in STRING
  /\ Dynamic \subseteq Items \ {MetaTool(Index), MetaTool(Schema)}
  /\ Decorated \in Seq([servers : SUBSET STRING, item : Items])
  /\ \A i \in Dynamic \union {d.item : d \in ToSet(Decorated)} : i.kind = "tool" => i.key = i.name
  /\ \A c \in Callers : c.beta \in BOOLEAN
  /\ \A o \in Options, beta \in BOOLEAN :
       /\ o.exposure.declares => o.exposure.of[beta].kind \in o.exposure.kinds
       /\ ~o.exposure.resolver => o.exposure.of[beta] = o.exposure.of[FALSE]

VARIABLES
  options,    \* what the module was configured with
  phase,      \* how far start-up has come
  registry,   \* McpRegistryService: one insertion-ordered Map per kind
  metaTools,  \* ExposureService.metaToolNames
  server,     \* the McpServer: capabilities, handlers, items it can run
  handles,    \* StdioService.sdkHandles
  changes,    \* registrations and removals so far
  drain       \* the client's listing

scVars == <<options, phase, registry, metaTools, server, handles, changes, drain>>

\* first: the items it was given when it was built
NoServer == [caps |-> {}, handlers |-> {}, ready |-> {}, items |-> {}, first |-> {}]
NoDrain == [state |-> "idle"]
Empty == [k \in ItemKinds |-> <<>>]

SCInit ==
  /\ options \in Options
  /\ phase = "new"
  /\ registry = Empty
  /\ metaTools = {}
  /\ server = NoServer
  /\ handles = {}
  /\ changes = 0
  /\ drain = NoDrain

(***************************************************************************)
(* The registry                                                            *)
(***************************************************************************)
Held(reg, kind) == {reg[kind][n] : n \in DOMAIN reg[kind]}
KeysOf(reg, kind) == {i.key : i \in Held(reg, kind)}

\* Slip: an item registered again moves to the end.
MapSetAtEnd(map, item) == Append(Keeping(map, {i \in ToSet(map) : i.key # item.key}), item)

\* Map.set: a key that is there keeps its place.
MapSet(map, item) ==
  IF \E n \in DOMAIN map : map[n].key = item.key
  THEN [n \in DOMAIN map |-> IF map[n].key = item.key THEN item ELSE map[n]]
  ELSE Append(map, item)

Put(reg, item) == [reg EXCEPT ![item.kind] = MapSet(@, item)]

\* What forFeature gave to other servers is not this one's.
Mine(d) == d.servers = {} \/ ServerName \in d.servers

Scanned ==
  LET filed[n \in 0 .. Len(Decorated)] ==
        IF n = 0 THEN Empty
        ELSE IF Mine(Decorated[n]) THEN Put(filed[n - 1], Decorated[n].item)
        ELSE filed[n - 1]
  IN  filed[Len(Decorated)]

(***************************************************************************)
(* What the client is listed                                               *)
(***************************************************************************)
\* The list of a kind, or the index the first meta-tool gives.
Sources == ItemKinds \union {"index"}

ListedTools(reg, meta, caller) ==
  Filtered(ApplyStrategy(ResolveForClient(options.exposure, caller), reg["tool"], meta),
           options.filter, caller.scopes)

ListedOthers(reg, kind, caller) == Filtered(reg[kind], options.filter, caller.scopes)

Listed(reg, meta, source, caller) ==
  CASE source = "index" -> IndexOf(reg["tool"], meta, {})
    [] source = "tool" -> ListedTools(reg, meta, caller)
    [] OTHER -> ListedOthers(reg, source, caller)

ListedKeys(items) == {items[n].key : n \in DOMAIN items}

\* History of a drain: what was listed all along, how often something
\* vanished from the list or came into it.
Watched(reg, meta) ==
  IF drain.state # "open" THEN drain
  ELSE LET before == ListedKeys(Listed(registry, metaTools, drain.source, drain.caller))
           after == ListedKeys(Listed(reg, meta, drain.source, drain.caller))
       IN  [drain EXCEPT !.always = @ \intersect after,
                         !.removed = @ + Cardinality(before \ after),
                         !.added = @ + Cardinality(after \ before)]

(***************************************************************************)
(* Start-up                                                                *)
(***************************************************************************)
\* createOauthGateCheckProvider: the guards were attached by the static
\* options, so the resolved ones must not differ.
GatesAgree == options.gates = options.staticGates

Instantiate ==
  /\ phase = "new"
  /\ IF GatesAgree
     THEN phase' = "scanned" /\ registry' = Scanned
     ELSE phase' = "failed" /\ UNCHANGED registry
  /\ UNCHANGED <<options, metaTools, server, handles, changes, drain>>

\* ExposureService.onApplicationBootstrap
Expose ==
  LET lazy == CanResolveTo(options.exposure, "lazy")
      collides == {Index, Schema} \intersect KeysOf(registry, "tool") # {}
      own == registry["tool"]
      tools == IF lazy THEN MapSet(MapSet(own, MetaTool(Index)), MetaTool(Schema)) ELSE own
  IN
    /\ phase = "scanned"
    /\ IF lazy /\ collides
       THEN phase' = "failed" /\ UNCHANGED <<registry, metaTools>>
       ELSE /\ registry' = [registry EXCEPT !["tool"] = tools]
            /\ metaTools' = IF lazy THEN {Index, Schema} ELSE {}
            /\ phase' = IF NothingEager(options.exposure, tools, metaTools')
                        THEN "failed" ELSE "exposed"
    /\ UNCHANGED <<options, server, handles, changes, drain>>

\* Resources and templates share capability and handlers.
Group(kind) == IF kind = "template" THEN "resource" ELSE kind

Present == {Group(k) : k \in {q \in ItemKinds : registry[q] # <<>>}}

\* buildServerCapabilities
Capabilities ==
  Present \union options.caps
    \union (IF registry["prompt"] # <<>> \/ registry["template"] # <<>>
                \/ options.caps \intersect {"prompt", "resource"} # {}
            THEN {"completion"} ELSE {})

\* registerListHandlers and registerCompletionHandler: tools/list whatever the
\* server declares.
Handlers == {"tool"} \union Capabilities

\* The key the McpServer keeps an item under, and refuses a second time.
SdkKey(item) == <<item.kind, IF item.kind = "template" THEN item.name ELSE item.key>>

\* StdioService.start, up to its await: all items of the registry are
\* registered, without keeping their handles.  The SDK throws for a handler
\* of a capability the server has not declared, and for a second template of
\* one name.
Start ==
  LET templates == registry["template"]
      items == UNION {{SdkKey(i) : i \in Held(registry, k)} : k \in ItemKinds}
      throws == \/ ~(Handlers \subseteq Capabilities)
                \/ Cardinality({SdkKey(i) : i \in Held(registry, "template")}) < Len(templates)
  IN
    /\ phase = "exposed"
    /\ IF throws
       THEN phase' = "failed" /\ UNCHANGED server
       ELSE /\ phase' = "starting"
            /\ server' = [caps |-> Capabilities, handlers |-> Handlers,
                          ready |-> Present, items |-> items, first |-> items]
    /\ UNCHANGED <<options, registry, metaTools, handles, changes, drain>>

\* server.connect is through.
Connected ==
  /\ phase = "starting"
  /\ phase' = "up"
  /\ UNCHANGED <<options, registry, metaTools, server, handles, changes, drain>>

\* onModuleDestroy: the listeners go, the server is closed.
Destroy ==
  /\ phase = "up"
  /\ phase' = "closed"
  /\ UNCHANGED <<options, registry, metaTools, server, handles, changes, drain>>

(***************************************************************************)
(* Items that come and go                                                  *)
(***************************************************************************)
HasServer == phase \in {"starting", "up"}

\* McpServer refuses a key it has, and items of a kind whose request handlers
\* were not set up while the first items were registered.
SdkAccepts(item) == SdkKey(item) \notin server.items /\ Group(item.kind) \in server.ready

\* Slip: handles of all kinds share the key.
HandleOfAnyKind(kind, key) == <<"item", key>>

HandleOf(kind, key) == <<kind, key>>

\* A builder's register: the registry has the item even when the McpServer,
\* told by the event, throws.
Register(item) ==
  /\ phase \in {"scanned", "exposed", "starting", "up"}
  /\ changes < MaxChanges
  /\ LET reg == Put(registry, item) IN
       /\ registry' = reg
       /\ drain' = Watched(reg, metaTools)
  /\ IF HasServer /\ SdkAccepts(item)
     THEN /\ server' = [server EXCEPT !.items = @ \union {SdkKey(item)}]
          /\ LET id == HandleOf(item.kind, item.key) IN
               handles' = {h \in handles : h.id # id} \union {[id |-> id, item |-> SdkKey(item)]}
     ELSE UNCHANGED <<server, handles>>
  /\ changes' = changes + 1
  /\ UNCHANGED <<options, phase, metaTools>>

\* A builder's unregister, of a meta-tool as of any other item, and the listener
\* that removes what it has a handle for.
Unregister(kind, key) ==
  /\ phase \in {"scanned", "exposed", "starting", "up"}
  /\ changes < MaxChanges
  /\ key \in KeysOf(registry, kind)
  /\ LET reg == [registry EXCEPT ![kind] = Without(@, {i \in ToSet(@) : i.key = key})] IN
       /\ registry' = reg
       /\ drain' = Watched(reg, metaTools)
  /\ LET mine == {h \in handles : HasServer /\ h.id = HandleOf(kind, key)} IN
       /\ server' = [server EXCEPT !.items = @ \ {h.item : h \in mine}]
       /\ handles' = handles \ mine
  /\ changes' = changes + 1
  /\ UNCHANGED <<options, phase, metaTools>>

(***************************************************************************)
(* The client                                                              *)
(***************************************************************************)
\* listAllTools and its siblings start; the index takes a call of its own, which
\* the executor looks up in the registry.
Open(source, caller) ==
  /\ phase = "up"
  /\ drain.state = "idle"
  /\ IF source = "index" THEN MetaTool(Index) \in Held(registry, "tool")
     ELSE Group(source) \in server.handlers
  /\ drain' = [state |-> "open", source |-> source, caller |-> caller, cursor |-> NoCursor,
               pages |-> 0, got |-> <<>>, removed |-> 0, added |-> 0,
               always |-> ListedKeys(Listed(registry, metaTools, source, caller))]
  /\ UNCHANGED <<options, phase, registry, metaTools, server, handles, changes>>

\* One round of drainAllPages, which gives up silently after MaxPages.
NextPage ==
  /\ phase = "up"
  /\ drain.state = "open"
  /\ LET page == Paginate(Listed(registry, metaTools, drain.source, drain.caller),
                          drain.cursor, PageSize)
         pages == drain.pages + 1
     IN  drain' = [drain EXCEPT
           !.got = @ \o [n \in DOMAIN page.items |-> page.items[n].key],
           !.cursor = page.next,
           !.pages = pages,
           !.state = IF page.next = NoCursor THEN "done"
                     ELSE IF pages = MaxPages THEN "cut" ELSE "open"]
  /\ UNCHANGED <<options, phase, registry, metaTools, server, handles, changes>>

SCNext ==
  \/ Instantiate \/ Expose \/ Start \/ Connected \/ Destroy
  \/ \E item \in Dynamic : Register(item)
  \/ \E kind \in ItemKinds : \E key \in KeysOf(registry, kind) : Unregister(kind, key)
  \/ \E source \in Sources, caller \in Callers : Open(source, caller)
  \/ NextPage

SCSpec == SCInit /\ [][SCNext]_scVars

(***************************************************************************)
(* Properties                                                              *)
(***************************************************************************)
SCTypeOK ==
  /\ phase \in {"new", "scanned", "exposed", "starting", "up", "closed", "failed"}
  /\ changes \in 0..MaxChanges
  /\ metaTools \subseteq {Index, Schema}
  /\ \A k \in ItemKinds : Cardinality(KeysOf(registry, k)) = Len(registry[k])
  /\ drain.state \in {"idle", "open", "done", "cut"}

\* Two templates the McpServer cannot tell apart.
Ambiguous(item) ==
  \E other \in Dynamic : SdkKey(other) = SdkKey(item) /\ other.key # item.key

\* A template may have been registered again under another name.
Renamed(x) ==
  \E i, j \in Dynamic :
    SdkKey(i) = x /\ j.kind = i.kind /\ j.key = i.key /\ SdkKey(j) # x

\* The listing and the server agree (stdio.service.ts, the event listeners): an
\* item that can be listed can also be run, unless the server had no item of
\* its kind when it started or another template has its name; and of the items
\* it was not built with, the server runs none that has left the registry, but a
\* template registered again under another name, whose handle was overwritten.
SdkFollowsRegistry ==
  /\ SCTypeOK
  /\ HasServer =>
    /\ \A k \in ItemKinds : \A i \in Held(registry, k) :
         \/ SdkKey(i) \in server.items
         \/ Group(k) \notin server.ready
         \/ Ambiguous(i)
    /\ \A x \in server.items \ server.first :
         Renamed(x) \/ \E k \in ItemKinds : \E i \in Held(registry, k) : x = SdkKey(i)

\* The meta-tools are in the registry.  A builder may have put a tool of its own
\* in their place, or have removed them by name: neither is refused.
MetaToolsInPlace == \A name \in metaTools : MetaTool(name) \in Held(registry, "tool")

\* No tool is out of reach (exposure.service.ts): whatever strategy a client is
\* resolved to, a tool it has the scopes for is listed, or the meta-tools are
\* listed, run, and lead to it; all this until a builder replaces or removes a
\* meta-tool, which leaves a lazy client without a way to its deferred tools.
ToolsInReach ==
  phase = "up" /\ MetaToolsInPlace =>
    \A caller \in Callers : \A t \in Held(registry, "tool") :
      LET listed == ListedKeys(Listed(registry, metaTools, "tool", caller)) IN
        \/ ~HasRequiredScopes(t, caller.scopes)
        \/ t.key \in {Index, Schema}
        \/ t.key \in listed
        \/ /\ {Index, Schema} \subseteq listed
           /\ {<<"tool", Index>>, <<"tool", Schema>>} \subseteq server.items
           /\ t.key \in ListedKeys(IndexOf(registry["tool"], metaTools, {}))
           /\ GetToolSchema(registry["tool"], metaTools, <<t.key>>, MaxBatchSize).schemas # {}

\* Paging survives changes (paginator.ts, drain-pages.ts, Map order): a listing
\* drained to the end misses at most one item for each that vanished meanwhile,
\* and repeats at most one for each that came in.
DrainLosesLittle ==
  drain.state = "done" =>
    LET got == ToSet(drain.got) IN
      /\ Cardinality(drain.always \ got) <= drain.removed
      /\ Len(drain.got) <= Cardinality(got) + drain.added
===============================================================================
