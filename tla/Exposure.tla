------------------------------- MODULE Exposure -------------------------------
(***************************************************************************)
(* What a listing shows: the exposure strategies that decide which tools a *)
(* client is given up front, the meta-tools that lead to the others, the   *)
(* scope filter, and the pages everything is cut into.  Operators only.    *)
(*                                                                         *)
(* An item is a record: kind, key (its key in the registry), name, tags,   *)
(* exposure and scopes (what a caller must hold).  A selector picks tools  *)
(* by name or by tag, or is absent.                                        *)
(***************************************************************************)
EXTENDS Integers, FiniteSets, SequencesExt, FiniteSetsExt, Removal

NoSelector == [by |-> "absent", of |-> {}]

MatchesSelector(item, selector) ==
  \/ selector.by = "names" /\ item.name \in selector.of
  \/ selector.by = "tags" /\ item.tags \intersect selector.of # {}

\* A tool's own exposure wins over the selector.
IsEager(item, selector) ==
  \/ item.exposure = "eager"
  \/ /\ item.exposure = "auto"
     /\ selector.by = "absent" \/ MatchesSelector(item, selector)

(***************************************************************************)
(* Strategies.  A configuration is a fixed strategy or a resolver, here    *)
(* the strategy it gives a client without and with the search beta; a      *)
(* resolver may declare the kinds it can give.                             *)
(***************************************************************************)
Static(strategy) ==
  [resolver |-> FALSE, declares |-> FALSE, kinds |-> {}, of |-> [beta \in BOOLEAN |-> strategy]]

DefineResolver(kinds, of) == [resolver |-> TRUE, declares |-> TRUE, kinds |-> kinds, of |-> of]

PlainResolver(of) == [resolver |-> TRUE, declares |-> FALSE, kinds |-> {}, of |-> of]

PreferSearchElseLazy(selector) ==
  DefineResolver({"search", "lazy"},
    [beta \in BOOLEAN |-> [kind |-> IF beta THEN "search" ELSE "lazy", eager |-> selector,
                           onAllDeferred |-> "throw"]])

ResolveForClient(configured, caller) == configured.of[caller.beta]

\* Slip: an undeclared resolver is taken at its word and gets nothing.
OnlyIfDeclared(configured, kind) ==
  IF configured.resolver THEN kind \in configured.kinds ELSE configured.of[FALSE].kind = kind

\* A resolver that declares nothing could give anything.
CanResolveTo(configured, kind) ==
  IF configured.resolver
  THEN ~configured.declares \/ kind \in configured.kinds
  ELSE configured.of[FALSE].kind = kind

\* validateSearchReachable throws: a fixed search strategy defers every tool.
NothingEager(configured, tools, metaTools) ==
  LET own == {t \in ToSet(tools) : t.name \notin metaTools} IN
    /\ ~configured.resolver
    /\ configured.of[FALSE].kind = "search"
    /\ configured.of[FALSE].onAllDeferred = "throw"
    /\ own # {}
    /\ \A t \in own : ~IsEager(t, configured.of[FALSE].eager)

\* The answer when all are shown; search marks the deferred ones, which changes
\* no name.
WithoutMetaTools(tools, metaTools) ==
  Without(tools, {t \in ToSet(tools) : t.name \in metaTools})

ApplyLazy(tools, metaTools, eager) ==
  Keeping(tools, {t \in ToSet(tools) : t.name \in metaTools \/ IsEager(t, eager)})

\* (typed-api is refused by an error.)
ApplyStrategy(strategy, tools, metaTools) ==
  IF strategy.kind = "lazy" THEN ApplyLazy(tools, metaTools, strategy.eager)
  ELSE WithoutMetaTools(tools, metaTools)

(***************************************************************************)
(* Meta-tools                                                              *)
(***************************************************************************)
MetaTool(name) ==
  [kind |-> "tool", key |-> name, name |-> name, tags |-> {}, exposure |-> "eager", scopes |-> {}]

\* list_available_tools: the tools that carry all the tags asked for.
IndexOf(tools, metaTools, tags) ==
  Keeping(tools, {t \in ToSet(tools) : t.name \notin metaTools /\ tags \subseteq t.tags})

\* get_tool_schema: names past the batch are neither answered nor reported.
GetToolSchema(tools, metaTools, names, maxBatchSize) ==
  LET requested == ToSet(SubSeq(names, 1, Min({maxBatchSize, Len(names)})))
      pool == {t.name : t \in ToSet(IndexOf(tools, metaTools, {}))}
  IN  [schemas |-> requested \intersect pool, notFound |-> requested \ pool]

(***************************************************************************)
(* Scopes and pages                                                        *)
(***************************************************************************)
HasRequiredScopes(item, granted) == item.scopes \subseteq granted

Filtered(items, filterListsByScopes, granted) ==
  IF filterListsByScopes
  THEN Keeping(items, {i \in ToSet(items) : HasRequiredScopes(i, granted)}) ELSE items

NoCursor == 0

\* A cursor is an index: the length of what the pages before it held.
Paginate(items, cursor, pageSize) ==
  LET next == cursor + pageSize IN
    [items |-> SubSeq(items, cursor + 1, Min({next, Len(items)})),
     next |-> IF next < Len(items) THEN next ELSE NoCursor]
===============================================================================
