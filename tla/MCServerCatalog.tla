--------------------------- MODULE MCServerCatalog ---------------------------
(* A small server: two tools and a resource scanned, a few items dynamic. *)
EXTENDS ServerCatalog

Tool(name, tags, exposure, scopes) ==
  [kind |-> "tool", key |-> name, name |-> name, tags |-> tags, exposure |-> exposure,
   scopes |-> scopes]

Plain(kind, key, name) ==
  [kind |-> kind, key |-> key, name |-> name, tags |-> {}, exposure |-> "auto", scopes |-> {}]

ToolA == Tool("a", {"core"}, "auto", {})
ToolB == Tool("b", {}, "auto", {"s"})

MCDecorated ==
  << [servers |-> {}, item |-> ToolA],
     [servers |-> {}, item |-> Plain("resource", "r", "r")],
     [servers |-> {"other"}, item |-> Tool("z", {}, "auto", {})],
     [servers |-> {"main"}, item |-> ToolB] >>

\* c is a tool and a resource; a comes back deferred, b as it was; the two
\* templates share a name, the first of them comes back under another; the last
\* one collides with a meta-tool.
MCDynamic ==
  { Tool("c", {}, "auto", {}), Plain("resource", "c", "c"),
    Tool("a", {"core"}, "deferred", {}), ToolB,
    Plain("template", "t1", "n"), Plain("template", "t2", "n"),
    Plain("template", "t1", "m"),
    Plain("prompt", "q", "q"), Tool("index", {}, "auto", {}) }

Core == [by |-> "tags", of |-> {"core"}]
ByName == [by |-> "names", of |-> {"b"}]
Strategy(kind, selector) == [kind |-> kind, eager |-> selector, onAllDeferred |-> "throw"]

With(exposure, filter, caps, gates) ==
  [exposure |-> exposure, filter |-> filter, caps |-> caps, gates |-> gates,
   staticGates |-> {"sse"}]

MCOptions ==
  { With(Static(Strategy("eager", NoSelector)), TRUE, {"prompt"}, {"sse"}),
    With(Static(Strategy("search", Core)), FALSE, {}, {"sse"}),
    With(Static(Strategy("lazy", ByName)), FALSE, {}, {"sse"}),
    With(PreferSearchElseLazy(Core), TRUE, {}, {"sse"}),
    With(PlainResolver([beta \in BOOLEAN |-> Strategy(IF beta THEN "eager" ELSE "lazy", Core)]),
         TRUE, {}, {"sse"}),
    With(Static(Strategy("eager", NoSelector)), FALSE, {}, {}) }

MCCallers == [scopes : {{}, {"s"}}, beta : BOOLEAN]
===============================================================================
