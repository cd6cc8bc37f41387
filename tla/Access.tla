-------------------------------- MODULE Access --------------------------------
(***************************************************************************)
(* A request from the HTTP edge to its item: the bearer gate with its two  *)
(* verifiers (introspection behind a cache, or signatures checked with     *)
(* keys loaded on demand), the guards, and then a read, a prompt, a        *)
(* completion or a rate-limited tool call, while tokens are revoked and    *)
(* expire, the authorization server fails, and items come and go.          *)
(*                                                                         *)
(* Tool calls past the limiter are those of ToolPipeline.                  *)
(***************************************************************************)
EXTENDS Integers, FiniteSets, FiniteSetsExt, UriTemplates

CONSTANTS
  Slots,        \* requests under way at a time
  Options,      \* McpAuthModule and McpModule options to start with, the resource's
                \* URL with its origin first, and what clients send, what they ask
                \* for and which items come and go
  Issued,       \* for each token: its audiences, scopes, and whether it has exp
  Items,        \* items that can be registered
  Ttl,          \* cacheTtlMs, in ticks
  CacheMax,     \* cacheMaxEntries
  RateMax, RateWindow,  \* rateLimit.max, and rateLimit.window in ticks
  None          \* no token, no item

Tokens == DOMAIN Issued

ASSUME AccessAssumption ==
  /\ None \notin Tokens /\ None \notin Items
  /\ \A o \in Options :
       /\ o.items \subseteq Items
       /\ o.resource \in Seq(ToSet(o.resource)) \ {<<>>} /\ o.resource[1] \notin {"/", "?", "#"}
  /\ Ttl \in Nat \ {0} /\ CacheMax \in Nat \ {0}
  /\ RateMax \in Nat \ {0} /\ RateWindow \in Nat \ {0}

VARIABLES
  options,    \* the configuration
  token,      \* what the authorization server holds each token for
  cache,      \* IntrospectionVerifier.cache, in insertion order
  jose,       \* JwksVerifier.loaded
  registry,   \* items registered
  req,        \* where each request stands
  bucket,     \* RateLimiterService.buckets
  passed      \* history: calls let through, in each of the last ticks

vars == <<options, token, cache, jose, registry, req, bucket, passed>>

(***************************************************************************)
(* Configuration                                                           *)
(***************************************************************************)
\* Without the slashes at its end.
Trimmed(path) == SubSeq(path, 1, SelectLastInSeq(path, LAMBDA t : t # "/"))

\* canonicalizeResourceUri: no fragment, no slash at the end of the path.
Canonical(uri) ==
  LET u == Before(uri, "#")
      path == Before(u, "?")
  IN  Trimmed(path) \o SubSeq(u, Len(path) + 1, Len(u))

\* validateAuthOptions and the verifiers' constructors; forRoot throws otherwise.
Valid(o) ==
  /\ o.servers # {}
  /\ Cardinality(o.sources) = 1
  /\ o.sources = {"jwks"} => o.algorithms \intersect {"HS256", "none"} = {}

\* audienceMatches
AudienceMatches(t) == \E aud \in Issued[t].aud : Canonical(aud) = Canonical(options.resource)

\* An audience of the jwks verifier's own is asked for whatever validateAudience says;
\* the introspection verifier has none.
AudienceOk(t) ==
  IF options.sources = {"jwks"} /\ options.audience # None
  THEN options.audience \in Issued[t].aud
  ELSE options.validateAudience => AudienceMatches(t)

\* buildResourceMetadataUrl
MetadataPath(resource) == Before(Tail(resource), "?")

\* The controller's answer at a path: only for the path of the resource itself, which
\* is not decoded as the path asked for is.
MetadataServed(rest) == Trimmed(Decoded(rest)) = MetadataPath(Canonical(options.resource))

NoBucket == [live |-> FALSE, count |-> 0, resetIn |-> 0]

\* noKeys: history, refused as the keys' endpoint gave no key
Idle == [stage |-> "idle", token |-> None, asks |-> None, said |-> FALSE, noKeys |-> FALSE,
         found |-> None, runs |-> None]

Init ==
  /\ options \in {o \in Options : Valid(o)}
  /\ token = [t \in Tokens |-> "active"]
  /\ cache = <<>>
  /\ jose = "none"
  /\ registry = options.items
  /\ req = [s \in Slots |-> Idle]
  /\ bucket = [t \in Tokens \union {None} |-> NoBucket]
  /\ passed = [t \in Tokens \union {None} |-> [n \in 1 .. RateWindow |-> 0]]

(***************************************************************************)
(* The token cache                                                         *)
(***************************************************************************)
\* An entry ends at cacheTtlMs, a positive one with its token.
Fresh(e) ==
  /\ e.age < Ttl
  /\ e.valid /\ Issued[e.token].exp => token[e.token] # "expired"

EntryOf(t) == {n \in DOMAIN cache : cache[n].token = t /\ Fresh(cache[n])}

Dropped(t) == RemoveFirstMatch(cache, LAMBDA e : e.token = t)

\* store: nothing for a token that is over; the oldest entry makes room.
Stored(t, valid) ==
  IF valid /\ Issued[t].exp /\ token[t] = "expired" THEN cache
  ELSE LET kept == IF Len(cache) >= CacheMax THEN Tail(cache) ELSE cache
           entry == [token |-> t, valid |-> valid, age |-> 0]
       IN  IF \E n \in DOMAIN kept : kept[n].token = t
           THEN [n \in DOMAIN kept |-> IF kept[n].token = t THEN entry ELSE kept[n]]
           ELSE Append(kept, entry)

(***************************************************************************)
(* The gate                                                                *)
(***************************************************************************)
\* McpBearerGuard on a verdict: a bad token, missing scopes, no expiry, expiry.
Judged(t, valid) ==
  IF ~valid THEN "401"
  ELSE IF ~(options.requiredScopes \subseteq Issued[t].scopes) THEN "403"
  ELSE IF ~Issued[t].exp \/ token[t] = "expired" THEN "401"
  ELSE "admitted"

Moves(s, record) == req' = [req EXCEPT ![s] = record]

\* canActivate up to its await.  asks is what the client wants; header is a
\* token, none at all, or not a bearer token.
Arrive(s, header, asks) ==
  LET r == [Idle EXCEPT !.asks = asks, !.token = IF header \in Tokens THEN header ELSE None]
      entries == EntryOf(header)
  IN
    /\ req[s].stage = "idle"
    /\ \/ /\ header \notin Tokens
          /\ Moves(s, [r EXCEPT !.stage = IF header = None /\ ~options.required
                                          THEN "admitted" ELSE "401"])
          /\ UNCHANGED <<cache, jose>>
       \/ /\ header \in Tokens /\ options.sources = {"introspection"}
          /\ IF entries # {}
             THEN /\ Moves(s, [r EXCEPT !.stage =
                                 Judged(header, cache[CHOOSE n \in entries : TRUE].valid)])
                  /\ UNCHANGED cache
             ELSE /\ Moves(s, [r EXCEPT !.stage = "introspecting"])
                  /\ cache' = Dropped(header)
          /\ UNCHANGED jose
       \/ /\ header \in Tokens /\ options.sources = {"jwks"}
          /\ Moves(s, [r EXCEPT !.stage = IF jose = "ready" THEN "verifying" ELSE "loading"])
          /\ jose' = IF jose = "none" THEN "loading" ELSE jose
          /\ UNCHANGED cache
    /\ UNCHANGED <<options, token, registry, bucket, passed>>

\* The authorization server has looked at the token; its answer is on the way.
Introspected(s) ==
  /\ req[s].stage = "introspecting"
  /\ Moves(s, [req[s] EXCEPT !.stage = "answered", !.said = token[req[s].token] = "active"])
  /\ UNCHANGED <<options, token, cache, jose, registry, bucket, passed>>

\* Slip: an introspection that fails is a token that is not active.
FailsAsInactive(s) ==
  /\ req[s].stage \in {"introspecting", "answered"}
  /\ Moves(s, [req[s] EXCEPT !.stage = "401"])
  /\ UNCHANGED <<options, token, cache, jose, registry, bucket, passed>>

\* The request fails, or its answer is not one: 500, and nothing is cached.
IntrospectionFails(s) ==
  /\ req[s].stage \in {"introspecting", "answered"}
  /\ Moves(s, [req[s] EXCEPT !.stage = "500"])
  /\ UNCHANGED <<options, token, cache, jose, registry, bucket, passed>>

\* The answer is in: verify stores it and returns to the gate.
Settle(s) ==
  LET t == req[s].token
      valid == req[s].said /\ AudienceOk(t)
  IN
    /\ req[s].stage = "answered"
    /\ cache' = Stored(t, valid)
    /\ Moves(s, [req[s] EXCEPT !.stage = Judged(t, valid)])
    /\ UNCHANGED <<options, token, jose, registry, bucket, passed>>

\* The library is loaded for all that wait, or fails all of them and is loaded
\* anew by the next.
Loaded(ok) ==
  /\ jose = "loading"
  /\ jose' = IF ok THEN "ready" ELSE "none"
  /\ req' = [s \in Slots |->
       IF req[s].stage = "loading"
       THEN [req[s] EXCEPT !.stage = IF ok THEN "verifying" ELSE "500"] ELSE req[s]]
  /\ UNCHANGED <<options, token, cache, registry, bucket, passed>>

\* jwtVerify: a signature outlives a revocation; keys that cannot be fetched in time are
\* not the token's fault, but when what the endpoint answers has no key for it, be it an
\* error page, the verifier takes that for a bad token.
Verified(s) ==
  /\ req[s].stage = "verifying"
  /\ \/ LET t == req[s].token IN
          Moves(s, [req[s] EXCEPT !.stage = Judged(t, token[t] # "expired" /\ AudienceOk(t))])
     \/ Moves(s, [req[s] EXCEPT !.stage = "401", !.noKeys = TRUE])
     \/ Moves(s, [req[s] EXCEPT !.stage = "500"])
  /\ UNCHANGED <<options, token, cache, jose, registry, bucket, passed>>

(***************************************************************************)
(* Guards                                                                  *)
(***************************************************************************)
Registered(kind, key) == {i \in registry : i.kind = kind /\ i.key = key}

Lookup(kind, key) ==
  IF Registered(kind, key) = {} THEN None
  ELSE CHOOSE i \in Registered(kind, key) : TRUE

\* The pipeline looks up the item to check before the guards' await; completions
\* have no guards.
Enter(s) ==
  /\ req[s].stage = "admitted"
  /\ Moves(s, [req[s] EXCEPT
       !.stage = IF req[s].asks.kind = "completion" THEN "checked" ELSE "guarding",
       !.found = Lookup(req[s].asks.kind, req[s].asks.key)])
  /\ UNCHANGED <<options, token, cache, jose, registry, bucket, passed>>

\* What a global guard maps into ctx.user.
UserScopes(s) ==
  IF options.mapsUser /\ req[s].token # None THEN Issued[req[s].token].scopes ELSE {}

\* Slip: the item is not checked when the caller has been identified.
MayUseIdentified(s, item) == req[s].token # None \/ item.scopes = {}

\* checkAuthorization, its scopes; roles and the item's own guards may refuse
\* besides.
MayUse(s, item) == item.scopes \subseteq UserScopes(s)

\* applyGlobalGuards and checkAuthorization are through: nothing to check when
\* no item was found, except that there is no such tool.
Guarded(s) ==
  /\ req[s].stage = "guarding"
  /\ \/ Moves(s, [req[s] EXCEPT !.stage = "denied"])
     \/ /\ req[s].found # None => MayUse(s, req[s].found)
        /\ req[s].asks.kind = "tool" => req[s].found # None
        /\ Moves(s, [req[s] EXCEPT !.stage = "checked"])
  /\ UNCHANGED <<options, token, cache, jose, registry, bucket, passed>>

(***************************************************************************)
(* The rate limiter                                                        *)
(***************************************************************************)
\* perUser buckets need a user.
BucketKey(s) == IF options.perUser /\ options.mapsUser THEN req[s].token ELSE None

CurrentBucket(b) ==
  IF b.live /\ b.resetIn > 0 THEN b ELSE [live |-> TRUE, count |-> 0, resetIn |-> RateWindow]

\* checkLimit: calls that are refused count too, though past the limit they are
\* not told apart here.
Charged(b) == [CurrentBucket(b) EXCEPT !.count = Min({@ + 1, RateMax + 1})]

Checked(s, kind) == req[s].stage = "checked" /\ req[s].asks.kind = kind

CheckLimit(s) ==
  LET k == BucketKey(s) IN
    /\ Checked(s, "tool")
    /\ bucket' = [bucket EXCEPT ![k] = Charged(@)]
    /\ IF bucket'[k].count > RateMax
       THEN Moves(s, [req[s] EXCEPT !.stage = "limited"]) /\ UNCHANGED passed
       ELSE /\ Moves(s, [req[s] EXCEPT !.stage = "running", !.runs = req[s].found])
            /\ passed' = [passed EXCEPT ![k][1] = @ + 1]
    /\ UNCHANGED <<options, token, cache, jose, registry>>

\* Slip: the cleanup does not look at resetAt.
SweptAlways(b) == NoBucket

Swept(b) == IF b.live /\ b.resetIn = 0 THEN NoBucket ELSE b

\* The cleanup's interval.
Cleanup ==
  /\ bucket' = [k \in DOMAIN bucket |-> Swept(bucket[k])]
  /\ UNCHANGED <<options, token, cache, jose, registry, req, passed>>

(***************************************************************************)
(* Execution                                                               *)
(***************************************************************************)
Throwing(uri) == {i \in registry : i.kind = "template" /\ Throws(i.key, uri)}

Templates(uri) ==
  {i \in registry : i.kind = "template" /\ MatchUriTemplate(i.key, uri)} \ Throwing(uri)

\* One of the items that could run does.
Starts(s, could, otherwise) ==
  /\ \/ could = {} /\ Moves(s, [req[s] EXCEPT !.stage = otherwise])
     \/ \E item \in could : Moves(s, [req[s] EXCEPT !.stage = "running", !.runs = item])
  /\ UNCHANGED <<options, token, cache, jose, registry, bucket, passed>>

\* The executor looks once more: for the resource itself, or a template.
ReadResource(s) ==
  LET uri == req[s].asks.key
      exact == Registered("resource", uri)
  IN
    /\ Checked(s, "resource")
    /\ exact = {} /\ Templates(uri) = {} => Throwing(uri) = {}
    /\ Starts(s, IF exact = {} THEN Templates(uri) ELSE exact, "notFound")

\* Matching one of the templates throws.
MatchThrows(s) ==
  /\ Checked(s, "resource") /\ Registered("resource", req[s].asks.key) = {}
  /\ Throwing(req[s].asks.key) # {}
  /\ Moves(s, [req[s] EXCEPT !.stage = "error"])
  /\ UNCHANGED <<options, token, cache, jose, registry, bucket, passed>>

GetPrompt(s) ==
  /\ Checked(s, "prompt")
  /\ Starts(s, Registered("prompt", req[s].asks.key), "notFound")

\* Without a handler the values a prompt's own parameters give.
Complete(s) ==
  /\ Checked(s, "completion")
  /\ Starts(s, Registered("completion", req[s].asks.key), "served")

\* The handler returns, throws (through the exception filters), returns no
\* messages for a prompt, or is given up at the timeout or by the client.
Ends(s) ==
  /\ req[s].stage = "running"
  /\ \E how \in {"served", "error"} : Moves(s, [req[s] EXCEPT !.stage = how])
  /\ UNCHANGED <<options, token, cache, jose, registry, bucket, passed>>

Ended == {"401", "403", "500", "denied", "limited", "notFound", "served", "error"}

\* The response is sent.
Respond(s) ==
  /\ req[s].stage \in Ended
  /\ Moves(s, Idle)
  /\ UNCHANGED <<options, token, cache, jose, registry, bucket, passed>>

(***************************************************************************)
(* The world around                                                        *)
(***************************************************************************)
\* The authorization server revokes a token, or its exp passes.
Over(t, how) ==
  /\ token[t] = "active" /\ t \in options.headers
  /\ how = "expired" => Issued[t].exp
  /\ token' = [token EXCEPT ![t] = how]
  /\ UNCHANGED <<options, cache, jose, registry, req, bucket, passed>>

\* Map.set and Map.delete on the registry.
Register(item) ==
  /\ item \in options.changes \ registry
  /\ registry' = (registry \ Registered(item.kind, item.key)) \union {item}
  /\ UNCHANGED <<options, token, cache, jose, req, bucket, passed>>

Unregister(item) ==
  /\ item \in options.changes \intersect registry
  /\ registry' = registry \ {item}
  /\ UNCHANGED <<options, token, cache, jose, req, bucket, passed>>

\* Slip: an entry that is used lives on.
OlderUnlessUsed(e) ==
  IF \E s \in Slots : req[s].token = e.token THEN e ELSE [e EXCEPT !.age = Min({@ + 1, Ttl})]

Older(e) == [e EXCEPT !.age = Min({@ + 1, Ttl})]

\* Time passes.
Tick ==
  /\ cache' = [n \in DOMAIN cache |-> Older(cache[n])]
  /\ bucket' = [k \in DOMAIN bucket |-> [bucket[k] EXCEPT !.resetIn = Max({@ - 1, 0})]]
  /\ passed' = [k \in DOMAIN passed |->
                  <<0>> \o SubSeq(passed[k], 1, RateWindow - 1)]
  /\ UNCHANGED <<options, token, jose, registry, req>>

Gate(s) == Introspected(s) \/ IntrospectionFails(s) \/ Settle(s) \/ Verified(s)
Serve(s) ==
  \/ Enter(s) \/ Guarded(s) \/ CheckLimit(s)
  \/ ReadResource(s) \/ MatchThrows(s) \/ GetPrompt(s) \/ Complete(s)
  \/ Ends(s) \/ Respond(s)

Next ==
  \/ \E s \in Slots : \/ \E header \in options.headers, asks \in options.asks :
                           Arrive(s, header, asks)
                      \/ Gate(s) \/ Serve(s)
  \/ \E ok \in BOOLEAN : Loaded(ok)
  \/ Cleanup
  \/ \E t \in Tokens, how \in {"revoked", "expired"} : Over(t, how)
  \/ \E item \in Items : Register(item) \/ Unregister(item)
  \/ Tick

\* Fetches, guards and handlers end, by a timeout at the latest; time passes.
Spec ==
  /\ Init /\ [][Next]_vars
  /\ WF_vars(Tick)
  /\ \A s \in Slots : WF_vars(Gate(s)) /\ WF_vars(Serve(s))

(***************************************************************************)
(* Properties                                                              *)
(***************************************************************************)
TypeOK ==
  /\ token \in [Tokens -> {"active", "revoked", "expired"}]
  /\ jose \in {"none", "loading", "ready"}
  /\ registry \subseteq Items
  /\ \A s \in Slots : req[s].stage = "loading" => jose = "loading"
  /\ \A n \in DOMAIN cache : cache[n].age \in 0 .. Ttl
  /\ Len(cache) <= CacheMax
  /\ \A m, n \in DOMAIN cache : cache[m].token = cache[n].token => m = n

\* "Introspection failures are OUR infrastructure failing, not the token being
\* invalid" (introspection.verifier.ts:48, jwks.verifier.ts:78): a token is
\* refused with 401, upon which clients discard it, only when it is over or was
\* never fit for this server, whatever failed or was cached, but for one failure
\* the comment does not hold of: a keys' endpoint that answers without the key.
\* And the metadata the challenge names is served, unless its path has encoded
\* parts.
RefusedForCause ==
  /\ TypeOK
  /\ \A s \in Slots :
       LET t == req[s].token IN
       req[s].stage = "401" /\ t # None =>
         /\ token[t] # "active" \/ ~Issued[t].exp \/ ~AudienceOk(t) \/ req[s].noKeys
         /\ LET path == MetadataPath(Canonical(options.resource)) IN
              Decoded(path) = path => MetadataServed(path)

Outside == {"introspecting", "answered", "401", "403", "500"}

\* A revoked token stops being accepted (introspection.verifier.ts): however
\* often it is used, and though an older answer may be cached last, in the end
\* no request with it is let in any more.
VerdictsFollow ==
  options.sources = {"introspection"} =>
    \A t \in Tokens :
      <>[](token[t] # "active") =>
        <>[](\A s \in Slots :
               req[s].token = t => req[s].stage \in Outside)

\* What is served was checked (pipeline.service.ts): a resource, prompt or tool
\* that was there when its request was looked up, and still is when it is
\* executed, runs only for a caller who may use it, though guards are awaited
\* in between.
ServedAsChecked ==
  \A s \in Slots :
    req[s].stage = "running" /\ req[s].runs = req[s].found /\ req[s].asks.kind # "completion" =>
      req[s].found.scopes \subseteq UserScopes(s)

\* The first n counts together.
Total(counts, n) ==
  LET sum[m \in 0 .. Len(counts)] == IF m = 0 THEN 0 ELSE sum[m - 1] + counts[m]
  IN  sum[n]

\* The limit holds (rate-limiter.service.ts): in any stretch as long as the
\* window at most twice the limit is let through, whatever is swept meanwhile.
WindowsBound == \A k \in DOMAIN passed : Total(passed[k], RateWindow) <= 2 * RateMax
===============================================================================
