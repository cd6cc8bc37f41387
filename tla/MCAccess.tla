------------------------------- MODULE MCAccess -------------------------------
(* Two tokens, one for another server; the options take one subject each. *)
EXTENDS Access

Resource == <<"https://h", "mcp">>

\* No word is a pattern or has to be encoded.
MCNone == <<>>

MCDecode == [part \in {"a%20b"} |-> "a b"]

MCIssued ==
  [t1 |-> [aud |-> {<<"https://h", "mcp", "/">>}, scopes |-> {"s"}, exp |-> TRUE],
   t2 |-> [aud |-> {<<"https://h">>}, scopes |-> {}, exp |-> TRUE]]

Read == [kind |-> "resource", key |-> <<"u", "1">>]
ReadPart == [kind |-> "resource", key |-> <<"u", "%">>]
Get == [kind |-> "prompt", key |-> <<"p">>]
Suggest == [kind |-> "completion", key |-> <<"p">>]
Call == [kind |-> "tool", key |-> <<"t">>]

Item(asks, scopes) == [kind |-> asks.kind, key |-> asks.key, scopes |-> scopes]

Template == [kind |-> "template", key |-> <<"u", "{id}">>, scopes |-> {}]

MCItems ==
  { Item(Read, {}), Item(Read, {"s"}), Item(Get, {"s"}), Item(Suggest, {}), Item(Call, {}),
    Template }

Base ==
  [servers |-> {"as"}, sources |-> {"introspection"}, algorithms |-> {}, resource |-> Resource,
   audience |-> None, validateAudience |-> TRUE, required |-> TRUE, requiredScopes |-> {},
   mapsUser |-> TRUE, perUser |-> FALSE, changes |-> {},
   items |-> {Item(Get, {"s"}), Item(Call, {}), Item(Suggest, {})}, asks |-> {Get}, headers |-> {"t1", "t2"}]

MCOptions ==
  { Base,
    [Base EXCEPT !.validateAudience = FALSE, !.requiredScopes = {"s"},
                 !.resource = Resource \o <<"/", "?", "v", "/">>],
    [Base EXCEPT !.sources = {"jwks"}, !.algorithms = {"RS256"}, !.asks = {Get, Suggest},
                 !.resource = <<"https://h", "a%20b">>,
                 !.audience = <<"https://h">>, !.validateAudience = FALSE,
                 !.headers = {"t1", "t2", "Basic"}],
    [Base EXCEPT !.sources = {"jwks"}, !.asks = {Read, ReadPart}, !.required = FALSE,
                 !.headers = {"t1", None}, !.items = {Item(Read, {})},
                 !.changes = {Item(Read, {}), Item(Read, {"s"}), Template}],
    [Base EXCEPT !.sources = {"jwks"}, !.asks = {Call}, !.perUser = TRUE, !.headers = {"t1", None}, !.required = FALSE],
    [Base EXCEPT !.sources = {"jwks"}, !.algorithms = {"HS256"}],
    [Base EXCEPT !.sources = {"jwks", "introspection"}] }
===============================================================================
