# nest-mcp in TLA+

Specifications of nest-mcp (`src/packages/*`): the resilience wrappers around a
tool call, the request pipeline from the HTTP edge to the handler, the sessions
of the two HTTP transports with their subscriptions, the catalog of a stdio
server with its exposure strategies, URL elicitations, the client with its
reconnection loop, the set of clients, and the gateway with its calls and its
catalog. TLC checks the modules on small instances; TLAPS proves every
invariant they check for every value of their constants. Paths below are
relative to `src/packages/` unless they start with `docs/`.

## 1. The system

nest-mcp is four packages. `server` turns the decorated methods of a NestJS
application into MCP tools, resources and prompts and serves them over SSE,
streamable HTTP or stdio. `client` connects an application to MCP servers.
`gateway` puts one server in front of several upstreams. `common` holds types
and small pure helpers. Node runs one thread: two pieces of code interleave
only at an `await`, a timer or an event, and this is the grain of the actions
of every module.

| Component | State | Operations | Talks to | What is hard | What makes it correct |
|---|---|---|---|---|---|
| Circuit breaker (`resilience/circuit-breaker.service.ts`) | per tool: state, failures, total, nextRetryTime | `execute`, `onSuccess`, `onFailure` | called by the pipeline | calls admitted in one state settle in another | counters are the outcomes of the period; trips only on them; an open circuit ends |
| Retry (`retry.service.ts`) | the loop's attempt | `execute`, `calculateDelay` | inside the circuit, around the executor | what is retriable | failures of the handler are retried; delays are capped |
| Rate limiter (`rate-limiter.service.ts`) | per key: count, resetAt | `checkLimit`, `cleanup` | pipeline | window edges, buckets swept early | at most twice max in any stretch of a window |
| Pipeline and executor (`execution/`) | per call: chain, timer, answer | `callTool`, `withTimeout`, the siblings for resources, prompts, completions | registry, resilience, register-handlers | timeout, abort and result race | one answer for each call, always |
| Request registration (`transport/register-handlers.ts`) | `activeRequests` | tool callback, cancellation, subscribe, unsubscribe, lists | SDK server, pipeline, subscriptions | sessions share one map and reuse ids | a cancellation reaches its request |
| Registry (`discovery/registry.service.ts`) | maps of items | register, unregister, events | transports, pipeline | listeners that throw | every session sees the same items |
| SSE transport (`transport/sse/`) | five maps by session | connect, POST, events, cleanup, destroy | SDK, registry, subscriptions | two cleanups at once, messages in flight | maps agree; closed means forgotten |
| Streamable HTTP transport | the same, plus principal | POST, GET, DELETE, cleanup, destroy | as above | id known only after an await; re-entrant cleanup | one cleanup; binding without a gap |
| stdio transport (`transport/stdio/`) | one server, its handles | start, events, destroy | SDK, registry, exposure | the SDK refuses what the registry took; items without handles | lists and server agree |
| Subscriptions (`subscription/`) | uri, session label, server | subscribe, unsubscribe, removeSession, notify | transports | labels that are not ids | updates reach the sessions that asked |
| Session manager, task manager | sessions by last use; tasks by session | create, cleanup, removeSession | nothing creates sessions or tracks tasks through them | limits; loops with awaits | limit kept; tasks of a closed session cancelled |
| Elicitation (`elicitation/`) | records, results, index, notifiers | create, complete, wait, expire | store, HTTP controller | result before waiter; two submissions; expiry | a submitted form resumes its waiter |
| Authorization (`auth/`) | introspection cache, loaded key library | options, bearer guard, verify, tool guard | HTTP issuer, pipeline | two verifications overlap; failures that are not the token's | a dead token is not accepted for long; 401 only for cause |
| Exposure (`exposure/`) | names of the meta-tools | bootstrap, strategy per client, index, schemas | registry, pipeline | decided partly at bootstrap, partly per request | no tool out of reach |
| MCP client (`client/src/mcp-client.service.ts`) | client, transport, flags, counter, handlers | connect, disconnect, reconnect, onNotification | SDK | all three overlap and share every field | one loop, which ends; handlers survive it |
| Client module (`mcp-clients.service.ts`, `mcp-client.module.ts`, `health/`) | live array of clients, pending promises | addConnection, removeConnection, bootstrap, shutdown, health | MCP client | walks over an array that changes at each await | one client per name; walks reach all |
| Gateway (`gateway/src`) | upstreams, health, cache, forwarders, task ids | callTool and siblings, connect, check | upstream clients | one forwarder per upstream, late health answers | a request goes back to the client it is for |
| Gateway start-up and routing (`mcp-gateway.module.ts`, `routing/`, `task/`) | prefixes, aggregated lists, registered items | bootstrap, list, read, get, complete, tasks | upstreams, registry | names joined and split; lists overwritten by any caller; upstreams that fail at start | a request goes home; start-up loses nothing it was given |
| Utilities (`common/src/utils`) | none | paging, draining, uri templates, durations | everyone | lists that change between pages | a drain loses no more than was removed |
| Module wiring (`mcp.module.ts`, `discovery/scanner.service.ts`), decorators, metrics, HTTP adapters | options, metadata, counters | start-up | everyone | static and resolved options that differ | the right providers are found |

## 2. Modules

```
Circuit ---------> CircuitBreaker       implements CircuitContract (runs)
   |                  +---------------> CircuitBreakerProofs       (theorems)
   +--+
RetryPolicy ------> ToolPipeline -----> MCToolPipeline             (runs)
                      +---------------> ToolPipelineProofs         (theorems)
Subscriptions ----> SseSessions         implements UpdateFeed      (runs)
   |                  +---------------> SseSessionsProofs          (theorems)
   +--------------> StreamableSessions                             (runs)
                      +---------------> StreamableSessionsProofs   (theorems)
McpClient                                                          (runs)
   +----------------------------------> McpClientProofs            (theorems)
Removal ----------> ClientSet --------> MCClientSet                (runs)
   |                  +--+
   +--------------> Gateway ----------> MCGateway                  (runs)
   |                  +--+
   +--> Exposure -> ServerCatalog ----> MCServerCatalog            (runs)
                      +--+------------> GatewayClientsCatalogProofs (theorems)
Elicitation                                                        (runs)
   +----------------------------------> ElicitationProofs          (theorems)
UriTemplates -----> Access -----------> MCAccess                   (runs)
   |                  +--+
   +--------------> GatewayCatalog ---> MCGatewayCatalog           (runs)
                      +--+------------> AccessCatalogProofs        (theorems)
```

* **Circuit** holds the circuit record and what each outcome does to it, as
  operators: `Rejects` and `Admit` are the head of `execute`, `OnSuccess` and
  `OnFailure` the two handlers, `Elapse` one tick of the clock. `nextRetryTime`
  is kept as the time left, the ratio as a comparison of products.
* **CircuitBreaker** runs any set of overlapping calls through one circuit.
  A call is admitted (`Enter`) before its `await` and settles after it
  (`Succeed`, `Fail`). `counted` and `failed` are history.
* **CircuitContract** is what a caller sees of the service, told by outcomes
  and without a counter: the calls let through, the good and the bad outcomes of
  the present period, and which of them opens or closes the circuit.
  `CircuitBreaker!KeepsContract` is the refinement, which maps the calls under
  way and the history of outcomes. It has the code's row for HALF_OPEN, where
  every call is let through, and not the one of the table in
  `docs/server/resilience.md:69`, "One test call allowed" (section 5).
* **RetryPolicy** has the test for a retriable error, the kinds of failure an
  attempt can end in as the executor reports them, and the delay formulas.
* **ToolPipeline** follows `tools/call` requests from the SDK callback of
  `registerToolOnServer` to their answer. Each has two halves: the chain (`pc`:
  guards, circuit, attempts) and the `answer`, which a timer or a cancellation
  may give first. `active` is `activeRequests`, keyed by the request id alone
  as in the code. Guards, middleware and the rate limiter are one admission
  that may go either way.
* **Subscriptions** is the subscription manager as operators on a set of
  entries `[label, uri, server]`; the label is what the handler passed as the
  session id, the server is where the notification goes.
* **UpdateFeed** is what subscriptions promise, without maps or labels.
* **SseSessions** is the SSE service. A connection fills all its maps in one
  step, `cleanupSession` empties them in three, split at its awaits, once for
  the `close` event and once for `onModuleDestroy`, which may overlap. A POST
  is read (`Post`) and handled later (`Handle`), when its session may be gone.
* **StreamableSessions** is the stateful mode of the streamable service with
  session binding on. A session is created before its id is known (`PostNew`),
  registered after the initialize request (`Initialized`), and cleaned up by a
  DELETE, by its transport's `onclose` or by the destroy loop.
* **McpClient** is one client with calls of `connect()` and `disconnect()` and
  the reconnection loop. A call in progress is represented by the transport it
  awaits; transports are objects drawn from a pool and may be drawn again when
  closed and no longer referred to.
* **Elicitation** is the service, its controller and the memory store. A
  submission is split at its awaits: the controller's look-up (`Submit`), the
  one of `completeElicitation` (`Check`), `StoreResult`, the call of the
  notifier (`Notify`), its reading of the result (`Deliver`) and the final
  deletion (`Finish`). A wait is one call of `waitForCompletion`; several may
  be for one elicitation and share its entry of the registry. Each store method
  takes effect at once or rejects, and anything may happen around it, as with a
  remote store. A rejection before the result is stored is the controller's
  (`SubmissionFails`); one of `getResult` is taken by the catch of
  `completeElicitation` after the notifier has cleared the timer
  (`DeliveryFails`), and the wait is `stranded`. `late` records waits that were
  called after a submission had looked for a notifier. All elicitations share one
  user and type, hence one index entry.
* **Gateway** is `callTool` of the gateway from the policy to the `finally`
  block, split at its awaits (transforms, the upstream's answer, response
  transforms), with the response cache, the upstreams' connections and the
  health checks, which overlap. A key stands for a tool with its arguments.
  `answers` is the network's choice of the upstreams that reply.

* **Exposure** holds the rules of a listing as operators: selectors, the
  strategies and the resolvers that choose one for a client (`ResolveForClient`),
  what start-up can know of them (`CanResolveTo`, `NothingEager`), the
  meta-tools, the scope filter and the pages. A resolver is the function it
  computes, from whether the client declared the search beta.
* **ServerCatalog** is a server on stdio from module wiring to shutdown. The
  registry is one sequence per kind, for the insertion order of a JavaScript
  `Map`; `server.items` is what the McpServer can run and `handles` what
  `StdioService` may remove. `Instantiate`, `Expose`, `Start` and `Connected`
  are the start-up in its order, each of which may fail it; `Register` and
  `Unregister` are the builders with the registry's event and the listener in
  one step, as they run in the code. `Open` and `NextPage` are a client that
  drains a list, or the index that the first meta-tool gives, page by page.
* **Removal** takes elements out of a sequence and keeps the order of the rest, as
  `Array.filter`, `splice` and `Map.delete` do: the gateway's cache, the array of
  clients and the registry shrink by it, and a listing is what it leaves of them. It
  is written as a recursive function because the provers can unfold one, with a lemma,
  and not `SelectSeq`.
* **UriTemplates** puts names together from tokens and takes them apart. A
  token is a word, a separator or a parameter; the first separator is where
  `indexOf` finds it. It takes query expansions out of a template with Removal's
  `Without`. `Reads` are the words a regular expression does not take as plain
  text, with what each matches, `Broken` those that make none; `Decode`, `Encode`
  and `Malformed` say what `decodeURIComponent` and `encodeURIComponent` make of
  words. A segment a parameter can stand for is one word, so a pattern that spans
  several segments or tokens, and one that adds groups of its own, are left out;
  URIs are taken as they are after `new URL(...).href`.
* **GatewayCatalog** is the gateway's `onApplicationBootstrap` with the four
  aggregators, and the requests led back by name or list. An `aggregateAll` under way
  is a record in `lists`: who asked, what has come in, who is still to answer; that of
  the start-up and those of other callers overwrite one cache. `Destination` is where
  the code sends a request, the property compares it with where the item came from. A
  request through a template is one for a URI that the server found a registered
  template for (`Serves`; of several the model takes any); the walk of
  `readResourceTemplate` is its own, stops at the first template that matches, and may
  throw (`ReadRejected`). Registering emits to the listeners: on stdio any item may be
  refused (`RegistrationThrows`; *when* it is, is ServerCatalog's subject), which
  rejects `onApplicationBootstrap`. `GCInit`, `GCNext` and `GCSpec` carry a prefix
  because the module that proves its theorems extends Access as well.
* **Access** is a request from its bearer token to its answer. `Arrive` is the
  guard up to its first await, `Introspected`, `Settle`, `Loaded` and `Verified`
  what the verifiers wait for, `Enter` the pipeline's look-up before the guards,
  `Guarded` its checks after them, `CheckLimit` the limiter, and `ReadResource`,
  `GetPrompt` and `Complete` the executor's second look-up. A resource's URL is its
  origin and then the tokens of its path and query. `Verified` has the three ends
  of a verification with keys: a verdict, a failure that is the server's own (500),
  and a keys' endpoint that answered without the key, which the verifier takes for a
  bad token (401; `noKeys` is history). Tool calls past the limiter are ToolPipeline's.
* **ClientSet** is the array behind `MCP_CLIENT_CONNECTIONS`. A walk has a
  position, as a `for...of` over a live array does; `Spliced` moves what lies
  behind a removed client. `promise` is the asynchronous function that
  `addConnection` starts, split at its awaits. Of each client it keeps what the
  array can see: `AfterDisconnect` says what `disconnect()` makes of it, in
  accordance with McpClient, where a loop that runs is not stopped. `CSInit`,
  `CSNext` and `CSSpec` carry a prefix because the module that proves its theorems
  extends Gateway as well.

Operators whose comment starts with "Slip" are variants of the definition that
follows them with one mistake in it. They are used by nothing; exchanging one
for its original makes a property fail, which shows that the property says
something about that definition.

### Assumptions about code outside the repository

The MCP SDK (1.26) is modelled from its use: a server refuses a second item of
one name by throwing, `registerTool` and its siblings are accepted after the
connection when the server had an item of that kind, a request's callback runs
some time after the request was read, an SDK client refuses a second transport
while it has one, a closed transport calls `onclose` once, and a failed
handshake closes its transport. `setRequestHandler` throws for a method whose
capability the server has not declared, and an McpServer keeps templates by
name, other resources by URI. The authorization server knows each token as
active, revoked or expired and may fail to say so; a signature stays valid when
its token is revoked. Timers are a tick that counts down.

## 3. Runs

| Run | Configuration | Shows |
|---|---|---|
| `circuit_breaker` | 6 calls, 2 needed to trip, threshold 1/2, wait of 2 ticks | `CircuitAccounts`, `TripJustified`, `CircuitContract`, `OpenEnds` |
| `tool_pipeline` | 3 requests of 2 sessions, two of them with id 1; timeout 1, 2 attempts, circuit that trips at 1 | an answer is the chain's own, the timeout's or the abort's; controllers never leak; every request is answered though the handler hangs |
| `sse_sessions` | 2 sessions, 1 uri, 1 item | the maps agree under two cleanups, what a session offers is explained by the events, `UpdateFeed` is implemented, closed sessions go |
| `streamable_sessions` | 2 sessions, 2 principals, 1 uri, 1 item | one close per session, binding without a gap, the destroy loop misses none on file |
| `mcp_client` | 2 connects, 2 disconnects, 2 loop slots, 6 transports, 2 attempts | one loop, which ends; never connected over nothing; handlers survive |
| `elicitation` | 2 elicitations, 2 submissions, 2 waits, one with a timeout | no notifier outlives its wait or is passed by, a wait is answered only by its own form, the store's maps agree, timed waits end unless the store rejects the last reading |
| `gateway` | 1 upstream, 3 keys of which one leads nowhere, 2 calls, 2 overlapping checks, cache of 1 | no forwarder outlives its call, only successes are cached, every call ends, health follows the upstream |
| `server_catalog` | 6 sets of options, 3 providers (one for another server), 8 dynamic items, 3 changes, pages of 1, drains of at most 4 pages | `SdkFollowsRegistry`, `ToolsInReach`, `DrainLosesLittle` |
| `gateway_catalog` | 2 upstreams under 5 setups (own prefixes, one with a separator, a shared one, `a.b` beside `axb`, and on stdio an empty one beside a disabled upstream), encoded, malformed and broken words, prompts listed again, 1 fault | `RoutesHome`, `BootRegistersAll`, `ComesUp` |
| `access` | 5 valid sets of options and 2 that are refused, 2 tokens of which one is for another server, 2 requests at a time, cache of 1 entry for 2 ticks, 1 call in 2 ticks | `RefusedForCause`, `ServedAsChecked`, `WindowsBound`, `VerdictsFollow` |
| `client_set` | 1 configured client, 1 name met at run time with reconnect and 2 clients made for it, 2 callers that add, 1 that removes | `OneClientPerName`, `StraysReconnect`, `WalksReachAll`, `AddsSettle` |
| `subscriptions_per_session` | as `streamable_sessions` | *violated*: all sessions share the label `pending` |

The violated run checks what the manager's header says; `PROJECT.json` quotes
it. Its counterexample has two sessions subscribe to one uri. The type invariant
of each module is a conjunct of one of the invariants listed, so that every run
checks it.

**What the new properties say and where they stop.** Several hold only up to a
limit that the code has, and the property says where it is.
`SdkFollowsRegistry` excepts kinds of which the server had no item when it
started (the SDK then takes no further one), templates that share a name, items the
server was built with, for which no handle is kept, and the old name of a template
that was registered again under another (section 5).
`DrainLosesLittle` bounds what paging by index may miss by what vanished
meanwhile; the code does not promise more, and a cut drain (`drainAllPages`
after its last page) is outside it. `RoutesHome` is for prefixes that cannot be
taken for one another (`Distinct`), and for names without `::`. What is read
through a template goes to the right upstream if no prefix is read as a pattern
(`PlainPrefixes`). It goes as the upstream's own URI only up to how its segments are
encoded, and only for templates that are plain text and have no parameter twice, since
of two values the code keeps the last (`Plain`). A match that throws ends the request
with an error, and the property says what must be the cause: a part that cannot be
decoded, or a template of some upstream that is no expression. The run has other
prefixes, a task id with `::`, a segment `x@y` and a template `c++` too, so that the
exceptions are known to be needed. `BootRegistersAll` and `ComesUp` except the stdio
transport, whose listener may stop the start-up; no other transport can.
`ToolsInReach` holds while the meta-tools are in the registry (`MetaToolsInPlace`).
`TimedWaitsSettle` names the one end that is none, `stranded`. `ServedAsChecked` compares
the item looked up before the guards with the one that runs and speaks only of
calls where they are the same; when an item was replaced in between, the new one
runs on the check of the old one, and a template reached after a resource was
removed has not been checked at all (section 5). `RefusedForCause` promises that
the metadata a challenge names is served when its path decodes to itself; for
`https://h/a%20b`, which one of the sets of options has, it is not; and it excepts
by name, with `noKeys`, the refusals for want of a key (section 5).
`StraysReconnect` constrains the names that do not reconnect, which never have
an open connection outside the array; those that do are exempted, because their
loops do leave some. `WalksReachAll` excepts a walk over an array from which a
client at or before its position was removed: that clients added meanwhile are
reached is what it shows. `KeepsContract` allows several calls while the circuit is
half open, as the code does. `AnswersMatchChain` does not tell apart a tool from
another that replaced it between two attempts.

**Bounds.** Six calls let two be late after a trip and two probes succeed or fail,
which needs a minimum of two outcomes to matter. Three requests are the fewest with
two sharing an id and two sharing a session. Two sessions are enough for one to be
passed over, or cleaned, on account of another; one uri and one item suffice because
subscriptions and registrations of different ones never meet. In the client two
connects allow one to fail or be lost while the other is under way beside the loop,
`OneLoop` would show the second loop slot in use, and six transports are never all in
use. Two submissions and two waits are the fewest that can meet on one elicitation,
and a second elicitation shows that they leave another's alone and the index on the
newest. In the gateway two calls overwrite each other's forwarder, two keys compete
for the one place in the cache, and `MaxPings` lets two health checks of an upstream
overlap; upstreams do not influence each other there, so one is enough. In the catalog
of a server `MaxChanges` of three allow an item to go, come back and be joined by one
of its name in another kind while a list of up to four pages is drained; the dynamic
items hold one of each way to collide. In the gateway's catalog two upstreams are the
fewest whose names can be confused, and `MaxFaults` of one lets either fail at any
moment; a list that another caller wants runs beside the start-up's, and one upstream
has a template with a word of each kind that decoding, encoding and matching treat in
a way of their own. In Access two requests with one token overlap in the verifier, one
place in the cache makes room for the other token, and a window of two ticks has an
edge to fall on; each set of options takes one subject (cache, signatures, replaced
items, limiter), since they share nothing but the gate. In ClientSet `MaxMade` allows
one client of a name to be replaced by a second while the first still closes. Calls
and sessions are not made again once they ended, except in Access, where requests are
served for ever; nothing else caps a counter, except that clocks stop at zero, ages at
`Ttl`, a refused caller's count one past the limit, and the client's `attempts` are
bounded by the code itself.

**Deadlock** is not checked where the system may come to rest: when all
sessions are closed and the module is destroyed, when all calls of the client
have been made, when every form is submitted and every wait has ended, or when
a server has failed to start or has been closed. In the circuit, the pipeline
and Access the clock always runs, in the gateway the network and its requests
always change, and clients can always be added.

**Fairness.** `CircuitBreaker` assumes that the clock runs; that is all `OpenEnds`
needs. `ToolPipeline` adds that timers fire and that guards and middleware return, and
asks nothing of the handler. The session modules assume that the SDK's `close()`
promises resolve, hence that `cleanupSession` and the destroy loop go on; clients,
messages and the registry owe nothing. `McpClient` assumes that a sleep ends and that
a handshake succeeds or fails (the SDK times requests out). `Elicitation` assumes that
store methods settle, one way or the other, and that timeouts fire; users and aborts
owe nothing. `Gateway` assumes that transforms return, that a call's timeout fires
(the upstream's, or else the SDK's own minute for a request) and that the interval of
the health checks and the abort of a ping come; the upstream need not answer anything.
`GatewayCatalog` assumes that connecting to an upstream and listing it end, one way or
the other, for the start-up's own requests; `Access` that time passes and that
fetches, guards and handlers end; `ClientSet` that transports open, fail or close and
that continuations run. Nothing is assumed of an authorization server but an answer or
a failure. `ServerCatalog` has no liveness and no fairness: it claims nothing of a
start-up that the container could hold up.

## 4. Proofs

`CircuitBreakerProofs` proves, from `CircuitAssumption` (the settings are
natural numbers, the denominator and the wait not zero) and `CallsAssumption`
(the set of calls is finite):

* `TypeCorrect`: `Spec => []TypeOK`.
* `AccountsKept`: `Spec => []CircuitAccounts`. It is not inductive alone; the
  invariant is `IInv`, which adds `TypeOK`, for the fields to be numbers and the
  sets finite. A call joins `counted` only when it leaves `running`, and
  `CircuitAccounts` says that everything in `counted` has left it, so the call is
  new and the cardinality grows by one as the counter does (lemma
  `CountedOnce`).
* `TripsJustified`: `Spec => TripJustified`. Only `Fail` opens a closed circuit,
  and it tests the counters, which the accounts tie to the sets.
* `ContractKept`: `Spec => KeepsContract`. Each action maps to a step of the
  contract or to a stutter. The contract has sets of outcomes where the code
  counts with two numbers, so the accounts in `IInv` are what makes a trip of the
  one a trip of the other (`CountedOnce`). Like the contract, the theorem says
  nothing of how many calls a half-open circuit lets through.

They hold for any number of calls and any settings, where the run has six
calls and one setting. `OpenEnds` is liveness and stays with TLC.

`ElicitationProofs` proves, from `ElicitationAssumption` (`None` is neither a
wait nor a number, so no elicitation):

* `TypeCorrect`: `Spec => []TypeOK`.
* `NotifiersWait`: `Spec => []NotifierIsWaiting`. `IInv` adds `NotifiedOnce`: a
  wait whose notifier is being awaited has left the registry and is held by one
  submission only; without it the outcome that `Deliver` gives could fall on a
  wait that is still registered. It also adds `CalledOrRemoved`: a submission that
  has called a notifier has left some wait behind it past waiting, so what `Finish`
  and `Removed` delete is not the registration of a wait that is alone.
* `AnswersFromForms`: `Spec => []AnsweredBySubmission`. `AInv` adds `Origins`:
  every stored result is that of a submission, a submission on its way to a
  wait is for that wait's elicitation, and its result is missing only if the
  record was removed. Lemmas say that what a submission has stored, and that a
  record was removed, stays true, and how a result may change in a step; then
  only `Deliver` has to be looked at.
* `StoreInStep`: `Spec => []StoreAgrees`: the index by user and type leads to a record
  that is held and the newest, and a completed record has its result. `SInv` adds
  `Numbered`: identifiers are taken in order, so a new record is no older one's, and
  nothing is on file for it yet. All that removes a record goes through one lemma
  (`DropKeeps`).

`McpClientProofs` proves, from `ClientAssumption`, for any sets of calls,
loops, transports and methods:

* `LoopsAreOne`: `Spec => []OneLoop`. Its second half, that `reconnecting` is
  true exactly while a loop runs, is what makes the first inductive: a loop is
  begun only by `HandleDisconnect`, which looks at the flag, and a loop that
  runs goes round or ends by `NextAttempt`, which keeps both (lemma
  `NextAttemptKeeps`).
* `ConnectedOverOpen`: `Spec => []ConnectedIsOpen`. A transport ceases to be
  open only through `Closes`, which comes with `HandleDisconnect` (lemma
  `HandleKeeps`); a new transport is one that was closed (`FreshIsClosed`), so
  taking it hides no open one.
* `HandlersSurvive`: `Spec => []HandlersApplied`.

All three are parts of `IInv`, which adds `TypeOK`; `NextKeeps` has one step for
each action. `LoopSettles` is liveness and stays with TLC.

`ToolPipelineProofs` proves, from `PipelineAssumption`, `RetryAssumption` and
`CircuitAssumption`, for any calls, ids and settings:

* `AnswersMatch`: `Spec => []AnswersMatchChain`. The invariant adds `Clocks`: the
  clock of a call runs exactly while its work goes on unanswered, so a timeout
  cannot answer a call whose chain has not begun or has ended, and a call
  without a timeout is never answered early; and a sleeping call has an attempt
  left, for the attempts to stay in their range. Lemmas say that every step of the
  circuit keeps its type (`CircuitStepsTyped`).
* `ControllersStayLive`: `Spec => []ControllersLive`. A controller goes with the
  answer of its request unless a later request with the same id has replaced it;
  in that case it is the later one's, which is unanswered.

`GatewayClientsCatalogProofs` proves, from `GatewayAssumption`, about the gateway:

* `ForwardersServe`: `Spec => []ForwarderServes`. The invariant adds `Routed`, a
  call about to be made upstream has been routed somewhere, and `OnlySampling`,
  forwarders lead to calls of sampling clients: only those calls clear the
  forwarder when they end, so one that does not clear it did not install it
  (lemma `DeactivateKeeps`).
* `CacheStaysKept`: `Spec => []CacheKept`. `CInv` says that the cache has each key
  once and within `MaxSize`, that what is stale is in it, and that for each key in it
  there is a call which ended well; a call past the routing has kept its key until
  then. Storing first drops the oldest entry when there is no room, and may find the
  key present nevertheless (`StoreKeeps`).

and from `ClientSetAssumption`, about the clients:

* `ClientsStaySingle`: `CSSpec => []OneClientPerName`.
* `OnlyLoopsStray`: `CSSpec => []StraysReconnect`, about the names that do not
  reconnect.
* `WalksReach`: `CSSpec => WalksReachAll`, an action property.

The three share `SetInv`, which TLC checked on the run's instance. `OnePromise` is
its core: the promise that callers share is the one under way for its name, and
while it is there no client of the name is in the array, since the promise first
removes the old one and every other caller finds the promise. With `AllSettled`,
a client that is in the array or awaited by a walk is not one that a promise is
still connecting, so a walk and a promise never drive the same client. `Outside`
is what `StraysReconnect` needs of `conn`. `SeenSoFar` says that a walk which no
removal has shifted has seen all before its place; `SplicedKeeps` shows that a
removal behind a walk leaves this so and one before it marks the walk as shifted.

and from `CatalogAssumption` (the registry keeps tools by name, a resolver that
declares kinds gives no other), about a server's catalog:

* `SdkFollows`: `SCSpec => []SdkFollowsRegistry`.
* `ToolsStayInReach`: `SCSpec => []ToolsInReach`.

`CatalogInv` serves both, and TLC checked it on the run's instance. `CatalogShape`
has each map of the registry hold items of its kind, one for each key; `MapSetIs` and
`LeftIs` say what `Map.set` and `Map.delete` make of such a map, so every item that
comes or goes keeps it (`PutKeeps`). `HandlesKept` says that a handle leads to an item
the server runs and was not built with; `RunsAreHeld` that each such item is held and
has its handle, but for a renamed template. `MetaToolsKept` says that once start-up is
through, the meta-tools are known if some client can be resolved to lazy, and those
still in the registry are run. While they are there, a tool that a client is not listed
is one that lazy defers (`ToolsListed`), and the index and the schemas lead to it
(`SchemaGiven`); a builder may take them away, and then nothing is claimed.

* `DrainsLoseLittle`: `SCSpec => []DrainLosesLittle`, for lists, pages and numbers of
  changes of any size.

A registration or a removal changes a map of the registry in one place (`Near`:
`SetNear`, `LeftNear`), and the filters by scope and by strategy keep or drop an item by
what it is, so the caller's listing changes in at most one place, too (`NearWithout`,
`ListedNear`). Its keys are then the same, or one has been taken out or put in
(`NearIs`). Around the cursor, an index, this means that taking one out moves at most
one key back across it, where no later page will find it, and putting one in moves at
most one ahead, where it is met again (`Shifts`). `DrainInv` keeps the account: the keys
listed throughout, behind the cursor and not got are no more than what vanished, and the
entries got twice together with those still to be met again no more than what came
(`Tallied`). A change is on the account (`TalliedMoves`); a page only moves keys from
ahead of the cursor to what was got (`TalliedPages`), and at the last page nothing is
left ahead. TLC checked `DrainInv` on the run's instance.

The three parts cite the lemmas on `Without`, the filter of module Removal: what it
leaves occurs once, is the rest (`WithoutOnce`), and stands as it did up to the
first element gone (`WithoutBefore`).

`SseSessionsProofs` proves, from no assumption:

* `FeedKept`: `Spec => KeepsFeed`, the refinement of UpdateFeed. The invariant
  says that every entry carries its session's own label, so `removeSession` finds
  them all, and that a session which has not connected has asked for nothing;
  without the second, opening it would be a step that the feed forbids. Notifying,
  subscribing and closing each map to a step of the feed, the cleanups' own steps
  and destruction to stutters.
* `MapsStayTogether`: `Spec => []MapsAgree`. `Tracked` says how far each of the two
  cleanups of a session has come and what it has left behind by then: one that waits
  for the server has taken the transport, one that is done the context. Two may
  overlap, so each is described by itself.
* `OffersAreExplained`: `Spec => []OffersExplained`. `Explained` says, while the
  listeners are attached, that a server offers what it started with and what it has
  a handle for, and that an item it does not offer was there when another session
  started: the listener that would have added it threw on that session's account.

`StreamableSessionsProofs` proves, from no assumption:

* `ClosesOnce`: `Spec => []ClosedOnce`. `Standing` ties the phase of a session to
  what is kept of it; only a session that is live can be cleaned up, and is not live
  from the first step of its cleanup on (`CleanupKeeps`).
* `BindingKept`: `Spec => []BindingHolds`. `Bound` says that the binding is on record
  while the session can be found and names its owner, so everybody let in is the
  owner; nobody is let in before there is one.

`AccessCatalogProofs` proves, from `AccessAssumption`, about Access:

* `ServesWhatWasChecked`: `Spec => []ServedAsChecked`. The invariant adds `Cleared`:
  what the guards established of the item found stays established, as the token's
  record and the item found are the request's own and change no more; and `Found`:
  no tool is called that was not found, and only an item runs. The registry
  may change at every step.
* `RefusalsHaveCause`: `Spec => []RefusedForCause`. A verdict may be reached long
  before it is given: `Caused` says that a negative entry of the cache, a negative
  answer on its way and a refusal not yet sent are each about a token that is by now
  over or unfit, or, of the refusals, for want of a key. It is inductive because
  neither set of tokens (`Lapsed`, `Unfit`) ever loses one. The cache stays within its
  bound and has a token once whatever is stored, dropped or grows older
  (`StoredKeeps`, `DroppedKeeps`, `OlderKeeps`). That the metadata is served
  (`MetadataFound`) is a fact about paths: what `canonicalizeResourceUri` leaves ends
  in no slash, with or without a query.
* `LimitHolds`: `Spec => []WindowsBound`. `Windowed` splits the calls of the last
  window in those of the bucket in use, no more than it counts, and those before it,
  which are of one bucket only, because a bucket lives as long as the window; between
  two buckets nothing has been let through in the present tick. Sums over the ticks
  come from lemmas on `Total`, for a tick that passes (`TotalAged`) and a call that is
  counted (`TotalCounted`).

and from `GatewayCatalogAssumption` (names, prefixes, offers and URIs are sequences of
`Words`, separators and parameters are words but not the same ones, the scheme
separator is plain text in an expression, a word that can be decoded is encoded again
and decoded to the same, every upstream has a name, and a missing upstream,
`NoUpstream`, has none of these), about the gateway's
catalog, for any configurations, offers and numbers of faults:

* `BootsWhole`: `GCSpec => []BootRegistersAll`.
* `RequestsGoHome`: `GCSpec => []RoutesHome`.

`GCInv` serves both, and TLC checked it on the run's instance. `Basics` types the
upstreams; `ListsKept` says of an `aggregateAll` under way which upstreams it asked,
that what it got is what they offer, and that the start-up has one at a time, of the
kind its phase has come to; `CachedKept` that an aggregator keeps only items that are
offered; `RegisteredKept` that what is registered is offered, of a kind the start-up
is done with, once for each key, and still kept by the aggregator unless its kind was
listed again; `FetchedKept` that all that was fetched has an entry. `RoutesHome` is
then inductive: nothing but a request changes what is forwarded, and when one is made
its key is looked up in a list that has the item, or, if it was listed again, may have
lost it. That no other item is met first is a fact about names. A key under a prefix
without separators is taken apart as it was put together (`TakenApart`, `KeyIs`), no
other upstream has a key that begins so (`OwnPrefix`, and for the templates that match
a URI `MatchOwn`, where the prefixes must be plain text), so a key tells upstream and
item (`KeyTells`); and a template expanded with what it was matched with gives back a
URI that decodes as the given one does, its query left out (`ExpandsBack`). A walk
that throws does so at a template with a broken word or at a part of the URI that
cannot be decoded (`BrokenIs`). A registration that throws leaves the phase `failed`,
in which items of any kind may be registered, while what is known as fetched is as
before (`RegistrationThrowsKeeps`). Registration keeps of one key the last (`RegisteringIs`),
so an entry that is not the item fetched is of another upstream, and then the two
prefixes can be taken for one another.

**Induction.** `Without`, `Total`, `NamesOf` and `AllItems` are recursive functions
over a sequence. The library's induction theorems take an operator as a parameter,
which the installed provers cannot instantiate; lemma `UpTo` does without: a set of
numbers that holds 0 and, with each number below n, the next, holds all up to n,
because the numbers missing would have a least one (`WFMin`,
`NatLessThanWellFounded`). By it `WithoutSteps`, `TotalSteps` and steps of `NamesOfIs`
and `AllItemsIs` show that the recursion has a solution, hence that the function obeys
it. `UpTo` and the lemmas on sequences without repetitions stand in each module that
needs them.

The runs show the same on small instances; the theorems hold for any number.
Only model-checked is liveness (`EveryCallAnswered`, `LoopSettles`, `ComesUp`,
`VerdictsFollow` and the like), as fairness speaks of what is ENABLED, which the provers
do not reason about. Every invariant the runs check is proved.

## 5. Also noticed

These disagreements have no run of their own. Where a trace is given, it was
seen in the model.

*Tool calls.* A handler that throws is not retried: the executor wraps what it
throws in a `ToolExecutionError` (`executor.service.ts:152`), which the retry
service takes for final (`retry.service.ts:20`), though
`docs/server/resilience-decorators.md` has "If this throws, it will be retried
up to 3 times". A half-open circuit lets every call through
(`circuit-breaker.service.ts:45`), where the table at `docs/server/resilience.md:69`
has "HALF_OPEN: One test call allowed"; the model has several calls admitted between
the end of the wait and the first outcome. The breaker's `timeWindow`
is read into a local that nothing uses, so outcomes of any age count.
`activeRequests` is keyed by the JSON-RPC id alone: two sessions with a request
of one id replace each other's controller, which no cancellation then reaches.
The timeout answers the caller but does not stop the chain
(`docs/server/resilience.md`, "Cancels the entire chain"). The rate limiter's
window is fixed where the documents have it sliding. `pipeline.readResource`
and its siblings look an item up before the guards and the executor looks again
after them: an item replaced in between runs on the check of the other, and
templates are not checked at all.

*Sessions and listings.* An item a session or a stdio server had when it started is
not taken off it when it is unregistered, because `registerHandlers` drops the handles
of the items it registers; registering it again then throws in the listener
(`docs/server/dynamic-builders.md:53` promises active sessions the change). Handles
are kept by the key of the item and the McpServer keeps templates by name, so a
template registered again under another name overwrites its handle and is offered
under the old name ever after. Registry events never reach the handles of a streamable
session, whose context is filed under `pending`. A stateless request that subscribes
leaves an entry nobody removes, and a session being initialized while the service is
destroyed is filed after the loop has gone by. `registerListHandlers` sets
`tools/list` whatever is declared, though its comment says "only for capabilities that
are declared": a server without tools and without a tools capability fails to start.
Items of a kind the server had none of at its start are listed but cannot be run. Of
two templates sharing a name the second is not served, or the start throws. A tool
registered under a meta-tool's name after bootstrap silently replaces it.
`onAllDeferred: 'promoteFirst'` is "handled at transform time", says
`exposure.service.ts:307`, but nothing promotes. `get_tool_schema` drops names beyond
its batch without a word, a resolver's own meta-tool names are ignored, and the index
does not filter by scopes. A meta-tool can be removed by name like any other tool
(`tool-builder.service.ts:56`, `registry.service.ts:306`), which leaves a lazy client
without a way to its deferred tools. The drain of a list stops silently after 100
pages.

*Gateway.* Two calls through one upstream overwrite each other's forwarder,
which `docs/gateway/sampling-elicitation.md` says, and the end of either takes
away the other's, which it does not say. The cache key drops nested properties
whose names are not also top-level ones (the array given to `JSON.stringify`
filters every level), so calls with different arguments may share an answer.
Prefixes that hold `_` never match, a prefix two upstreams share leads to the
last, and a task of an upstream whose name holds `::` cannot be found again.
Listing once more while an upstream is unhealthy makes its registered resources,
prompts and templates unknown until the next list. What an upstream that is
down at start-up offers is never registered. On stdio a registration the McpServer
refuses throws out of the registry's `emit` (`registry.service.ts:303`,
`stdio.service.ts:97`): what was fetched and not yet registered is lost, and the
application does not start. A query is dropped from a URI that
is forwarded through a template, and its segments are decoded and encoded again, so
`x@y` goes to the upstream as `x%40y` (`uri-template.ts:87`, `:104`). A malformed `%`
throws outside of the `try` that answers for errors (`gateway.service.ts:297`). The
plain parts of a template are put into a regular expression unescaped
(`uri-template.ts:38`): a prefix `a.b` also matches `axb://...` and takes the other
upstream's requests, and one upstream's template that is no expression rejects what is
read through any template listed after it. `listTasks` drops the upstreams' cursors, and
completions are neither health-checked nor timed. The gateway does not reconnect
to an upstream.

*Clients.* `disconnect()` during a reconnection loop's sleep does not stop it:
the trace has a connection lost, `disconnect()` run to its end, and the loop
opening a connection nobody closes (`docs/client/getting-started.md:66`:
shutdown "disconnects all clients"). The delay grows linearly, not
exponentially, and a client whose first connection fails never starts the loop.
A client removed while a walk is at or past it makes the walk miss the next
one; a removal during an addition leaves the late client in the array; one that
replaces another has none of the `@OnMcpNotification` handlers, and
`@InjectMcpClient` keeps the old one.

*Elicitation and authorization.* A form submitted before `waitForCompletion` is
called never resumes the wait (`elicitation.service.ts:240`, against the comment
at 199-202): the trace has a submission run to its end, then a wait that only a
timeout ends. The store's `findResultByUserAndType` falls back to the oldest
result, not "the most recent". Nothing calls `trackTask`, so closing a session
cancels no task. The metadata controller compares the decoded path of a request
with the undecoded path of the resource (`well-known.controller.ts:110`): the URL
that a challenge for `https://h/a%20b` names is answered with 404, against its
comment that it is "Served only for the configured resource's path". Once a
completion has cleared the timer of its wait, a store that rejects `getResult` leaves
the wait pending for good: `completeElicitation` logs the error and nobody rejects
(`elicitation.service.ts:169-175`, `:241`). A keys' endpoint that answers, but with an
error page or without the token's key, is answered with 401
(`jwks.verifier.ts:83-85`, `ERR_JOSE_GENERIC` and `ERR_JWKS_NO_MATCHING_KEY`), though
the comment above it has "JWKS-resolution/network failures are OUR infrastructure →
500" and `docs/server/auth.md:134-136` says the same. An explicit `jwks.audience` is
enforced with `validateAudience` off, too (`jwks.verifier.ts:74`).

## 6. Plan

Done: the core (circuit, pipeline, sessions, client, elicitation, gateway
calls), then catalogs, access and the set of clients. What is left, in order of
importance:

1. **Stateless** streamable requests, and the middleware of the pipeline.
2. The order of policy rules and the cache key as pure functions.
3. ClientSet over McpClient: that the client it draws is an abstraction of that
   module's.

Modules to be proved about declare no RECURSIVE operator and name their
assumptions, as the present ones do.

## 7. Not modelled

Rendering, logging, schema conversion, the shape of messages, HTTP framing and
authentication by signature: they decide nothing these properties speak of.
Dependency injection and decorators run once at start-up; of the module wiring
only what decides options and providers is modelled. The session manager and
the task manager are reached by nothing in the running system. The OAuth client
is a provider handed to the SDK. Metrics are never read. The examples and the
applications under `src/` outside `packages/` use the packages and are not part
of them.
