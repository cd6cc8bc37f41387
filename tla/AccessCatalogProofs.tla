-------------------------- MODULE AccessCatalogProofs --------------------------
(***************************************************************************)
(* Proofs about Access, for any options, tokens and items and any number   *)
(* of requests at a time, whatever expires, fails or is registered between *)
(* the steps: what is served was checked for the caller it is served to, a *)
(* token is refused for a cause, and the rate limit holds over any window. *)
(* And, with what they share about names taken apart, about                *)
(* GatewayCatalog, for any configuration and whatever upstreams offer: the *)
(* start-up registers all it fetched, and requests go home.                *)
(***************************************************************************)
EXTENDS Access, GatewayCatalog, FiniteSetTheorems, SequenceTheorems, WellFoundedInduction,
        NaturalsInduction, TLAPS

Stages ==
  {"idle", "admitted", "introspecting", "answered", "loading", "verifying", "guarding",
   "checked", "running"} \union Ended

RequestRecord ==
  [stage : Stages, token : Tokens \union {None}, asks : (UNION {o.asks : o \in Options}) \union {None},
   said : BOOLEAN, noKeys : BOOLEAN, found : Items \union {None}, runs : Items \union {None}]

Shape ==
  /\ options \in Options
  /\ req \in [Slots -> RequestRecord]
  /\ registry \subseteq Items

Past(s) == req[s].stage \in {"checked", "running"}

\* What the guards have established, of the item found before their await: it
\* stays so, as neither the caller nor the item found changes any more.
Cleared ==
  \A s \in Slots :
    Past(s) /\ req[s].found # None /\ req[s].asks.kind # "completion" => MayUse(s, req[s].found)

\* There is no call of a tool that was not found, and nothing else runs but an item.
Found ==
  \A s \in Slots :
    /\ Past(s) /\ req[s].asks.kind = "tool" => req[s].found # None
    /\ req[s].stage = "running" => req[s].runs # None

IInv == Shape /\ Cleared /\ Found

\* The invariant is enough: what runs is an item, so an item found that runs was
\* cleared.
LEMMA Enough == IInv => ServedAsChecked
BY DEF IInv, Cleared, Found, Past, MayUse, ServedAsChecked

\* Setting a field of a request changes no other.
LEMMA StageSet ==
  ASSUME NEW r \in RequestRecord, NEW to \in Stages
  PROVE  /\ [r EXCEPT !.stage = to] \in RequestRecord
         /\ [r EXCEPT !.stage = to].stage = to
         /\ [r EXCEPT !.stage = to].token = r.token
         /\ [r EXCEPT !.stage = to].asks = r.asks
         /\ [r EXCEPT !.stage = to].found = r.found
BY DEF RequestRecord

\* A request refused for want of a key.
LEMMA KeysSet ==
  ASSUME NEW r \in RequestRecord, "401" \in Stages
  PROVE  /\ [r EXCEPT !.stage = "401", !.noKeys = TRUE] \in RequestRecord
         /\ [r EXCEPT !.stage = "401", !.noKeys = TRUE].stage = "401"
         /\ [r EXCEPT !.stage = "401", !.noKeys = TRUE].token = r.token
         /\ [r EXCEPT !.stage = "401", !.noKeys = TRUE].noKeys = TRUE
BY DEF RequestRecord

\* A request with the item it found.
LEMMA FoundSet ==
  ASSUME NEW r \in RequestRecord, NEW item \in Items \union {None}
  PROVE  /\ [r EXCEPT !.found = item] \in RequestRecord
         /\ [r EXCEPT !.found = item].stage = r.stage
         /\ [r EXCEPT !.found = item].token = r.token
         /\ [r EXCEPT !.found = item].asks = r.asks
         /\ [r EXCEPT !.found = item].found = item
BY DEF RequestRecord

\* With what it runs.
LEMMA RunsSet ==
  ASSUME NEW r \in RequestRecord, NEW item \in Items
  PROVE  /\ [r EXCEPT !.runs = item] \in RequestRecord
         /\ [r EXCEPT !.runs = item].stage = r.stage
         /\ [r EXCEPT !.runs = item].token = r.token
         /\ [r EXCEPT !.runs = item].asks = r.asks
         /\ [r EXCEPT !.runs = item].found = r.found
         /\ [r EXCEPT !.runs = item].runs = item
BY DEF RequestRecord

\* With what the provider said of its token.
LEMMA SaidSet ==
  ASSUME NEW r \in RequestRecord, NEW said \in BOOLEAN
  PROVE  /\ [r EXCEPT !.said = said] \in RequestRecord
         /\ [r EXCEPT !.said = said].stage = r.stage
         /\ [r EXCEPT !.said = said].token = r.token
         /\ [r EXCEPT !.said = said].said = said
BY DEF RequestRecord

\* With who asks, and for what.
LEMMA CallerSet ==
  ASSUME NEW r \in RequestRecord, NEW asks \in UNION {o.asks : o \in Options},
         NEW caller \in Tokens \union {None}
  PROVE  [r EXCEPT !.asks = asks, !.token = caller] \in RequestRecord
BY DEF RequestRecord

\* A slot without a request is one.
LEMMA IdleTyped == Idle \in RequestRecord
<1>1. "idle" \in Stages /\ FALSE \in BOOLEAN
  BY Zenon DEF Stages
<1> QED
  BY <1>1, Zenon DEF Idle, RequestRecord

\* It holds to begin with.
LEMMA InitKeeps == Init => IInv
<1> SUFFICES ASSUME Init PROVE IInv
  OBVIOUS
<1>1. registry \subseteq Items /\ options \in Options
  BY AccessAssumption DEF Init
<1>2. Idle \in RequestRecord
  BY IdleTyped
<1>3. req = [s \in Slots |-> Idle] /\ \A s \in Slots : req[s].stage = "idle"
  BY DEF Init, Idle
<1>4. Shape
  BY <1>1, <1>2, <1>3 DEF Shape
<1> QED
  BY <1>3, <1>4 DEF IInv, Cleared, Found, Past

\* A step that moves one request to a record that is in order.
LEMMA MovesKeeps ==
  ASSUME IInv, NEW s \in Slots, NEW r \in RequestRecord, Moves(s, r),
         registry' = registry, options' = options,
         r.stage \in {"checked", "running"} =>
           /\ r.token = req[s].token /\ r.asks = req[s].asks
           /\ r.asks.kind = "tool" => r.found # None
           /\ r.found # None /\ r.asks.kind # "completion" => MayUse(s, r.found),
         r.stage = "running" => r.runs # None
  PROVE  IInv'
<1>1. /\ req'[s] = r
      /\ \A t \in Slots : t # s => req'[t] = req[t]
      /\ req' \in [Slots -> RequestRecord]
  BY DEF Moves, IInv, Shape
<1>2. Shape'
  BY <1>1 DEF IInv, Shape
<1>3. Cleared'
  <2> SUFFICES ASSUME NEW t \in Slots,
                      req'[t].stage \in {"checked", "running"},
                      req'[t].found # None, req'[t].asks.kind # "completion"
               PROVE  MayUse(t, req[t].found)'
    BY DEF Cleared, Past
  <2>1. CASE t = s
    BY <1>1, <2>1 DEF MayUse, UserScopes
  <2>2. CASE t # s
    BY <1>1, <2>2 DEF IInv, Cleared, Past, MayUse, UserScopes
  <2> QED
    BY <2>1, <2>2
<1>4. Found'
  BY <1>1 DEF IInv, Found, Past
<1> QED
  BY <1>2, <1>3, <1>4 DEF IInv

\* Most steps set the stage to one before the guards, or to an end.
LEMMA StageKeeps ==
  ASSUME IInv, NEW s \in Slots, NEW to \in Stages \ {"checked", "running"},
         Moves(s, [req[s] EXCEPT !.stage = to]),
         registry' = registry, options' = options
  PROVE  IInv'
<1>1. req[s] \in RequestRecord
  BY DEF IInv, Shape
<1>2. [req[s] EXCEPT !.stage = to] \in RequestRecord /\ [req[s] EXCEPT !.stage = to].stage = to
  BY <1>1, StageSet
<1> QED
  BY <1>2, MovesKeeps

\* And every step keeps it.
LEMMA NextKeeps == IInv /\ [Next]_vars => IInv'
<1> SUFFICES ASSUME IInv, [Next]_vars PROVE IInv'
  OBVIOUS
<1>0. Shape /\ Cleared /\ Found
  BY DEF IInv
<1>req. \A s \in Slots : req[s] \in RequestRecord
  BY <1>0 DEF Shape
<1>same. ASSUME UNCHANGED <<options, req>>, registry' \subseteq Items PROVE IInv'
  BY <1>0, <1>same DEF IInv, Shape, Cleared, Found, Past, MayUse, UserScopes
<1>judged. \A t, valid : Judged(t, valid) \in Stages \ {"checked", "running"}
  BY DEF Judged, Stages, Ended
<1>stages. /\ Stages \ {"checked", "running"} =
                {"idle", "admitted", "introspecting", "answered", "loading", "verifying",
                 "guarding"} \union Ended
           /\ Ended \subseteq Stages
           /\ "checked" \in Stages /\ "running" \in Stages /\ "answered" \in Stages
           /\ "verifying" \in Stages /\ "500" \in Stages /\ "guarding" \in Stages
           /\ "401" \in Stages
  BY DEF Stages, Ended
<1>1. ASSUME NEW s \in Slots, NEW header \in options.headers, NEW asks \in options.asks,
             Arrive(s, header, asks)
      PROVE  IInv'
  <2> DEFINE caller == IF header \in Tokens THEN header ELSE None
             r == [Idle EXCEPT !.asks = asks, !.token = caller]
  <2>1. r \in RequestRecord
    <3>1. asks \in UNION {o.asks : o \in Options} /\ caller \in Tokens \union {None}
      BY <1>0 DEF Shape
    <3> HIDE DEF caller
    <3> QED
      BY <3>1, IdleTyped, CallerSet
  <2>2. PICK to \in Stages \ {"checked", "running"} : Moves(s, [r EXCEPT !.stage = to])
    BY <1>1, <1>judged, <1>stages DEF Arrive, Ended
  <2>3. [r EXCEPT !.stage = to] \in RequestRecord /\ [r EXCEPT !.stage = to].stage = to
    <3> HIDE DEF r
    <3> QED
      BY <2>1, StageSet
  <2>4. registry' = registry /\ options' = options
    BY <1>1 DEF Arrive
  <2> HIDE DEF r
  <2> QED
    BY <2>2, <2>3, <2>4, MovesKeeps
<1>2. ASSUME NEW s \in Slots, Introspected(s) PROVE IInv'
  <2>1. req[s] \in RequestRecord
    BY <1>0 DEF Shape
  <2> DEFINE q == [req[s] EXCEPT !.stage = "answered"]
             said == (token[req[s].token] = "active")
  <2>2. q \in RequestRecord /\ q.stage = "answered"
    BY <2>1, StageSet, <1>stages
  <2>b. said \in BOOLEAN
    OBVIOUS
  <2>3. [q EXCEPT !.said = said] \in RequestRecord /\ [q EXCEPT !.said = said].stage = "answered"
    <3> HIDE DEF q, said
    <3> QED
      BY <2>2, <2>b, SaidSet
  <2>4. Moves(s, [q EXCEPT !.said = said]) /\ registry' = registry /\ options' = options
    BY <1>2 DEF Introspected
  <2> HIDE DEF q, said
  <2> QED
    BY <2>3, <2>4, MovesKeeps
<1>3. ASSUME NEW s \in Slots, IntrospectionFails(s) \/ Settle(s) \/ Verified(s) PROVE IInv'
  <2>1. CASE \E to \in Stages \ {"checked", "running"} : Moves(s, [req[s] EXCEPT !.stage = to])
    <3>1. PICK to \in Stages \ {"checked", "running"} : Moves(s, [req[s] EXCEPT !.stage = to])
      BY <2>1
    <3>2. registry' = registry /\ options' = options
      BY <1>3 DEF IntrospectionFails, Settle, Verified
    <3> QED
      BY <3>1, <3>2, StageKeeps
  <2>2. CASE Moves(s, [req[s] EXCEPT !.stage = "401", !.noKeys = TRUE])
    <3>1. PICK q : q = [req[s] EXCEPT !.stage = "401", !.noKeys = TRUE]
      OBVIOUS
    <3>2. q \in RequestRecord /\ q.stage = "401"
      BY <1>req, <1>stages, <3>1, KeysSet
    <3>3. Moves(s, q) /\ registry' = registry /\ options' = options
      BY <1>3, <2>2, <3>1 DEF IntrospectionFails, Settle, Verified
    <3> QED
      BY <3>2, <3>3, MovesKeeps
  <2> QED
    BY <1>3, <1>judged, <1>stages, <2>1, <2>2 DEF IntrospectionFails, Settle, Verified, Ended
<1>4. ASSUME NEW ok \in BOOLEAN, Loaded(ok) PROVE IInv'
  <2>1. \A s \in Slots : \/ req'[s] = req[s]
                        \/ /\ req'[s] \in RequestRecord
                           /\ req'[s].stage \in {"verifying", "500"}
    <3> TAKE s \in Slots
    <3>1. req[s] \in RequestRecord
      BY <1>0 DEF Shape
    <3>2. /\ [req[s] EXCEPT !.stage = "verifying"] \in RequestRecord
          /\ [req[s] EXCEPT !.stage = "verifying"].stage = "verifying"
          /\ [req[s] EXCEPT !.stage = "500"] \in RequestRecord
          /\ [req[s] EXCEPT !.stage = "500"].stage = "500"
      BY <3>1, StageSet, <1>stages
    <3> QED
      BY <1>4, <3>2 DEF Loaded
  <2>2. req' \in [Slots -> RequestRecord] /\ registry' = registry /\ options' = options
    BY <1>0, <1>4, <2>1 DEF Loaded, Shape
  <2> QED
    BY <1>0, <2>1, <2>2 DEF IInv, Shape, Cleared, Found, Past, MayUse, UserScopes
<1>5. ASSUME NEW s \in Slots, Enter(s) PROVE IInv'
  <2> DEFINE asks == req[s].asks
             to == IF asks.kind = "completion" THEN "checked" ELSE "guarding"
             q == [req[s] EXCEPT !.stage = to]
             item == Lookup(asks.kind, asks.key)
  <2>1. item \in Items \union {None}
    BY <1>0 DEF Lookup, Registered, Shape
  <2>2. /\ q \in RequestRecord /\ q.stage = to /\ q.asks = asks /\ q.token = req[s].token
    <3>1. to \in Stages
      BY <1>stages
    <3> HIDE DEF to
    <3> QED
      BY <1>req, <3>1, StageSet
  <2>3. /\ [q EXCEPT !.found = item] \in RequestRecord
        /\ [q EXCEPT !.found = item].stage = to
        /\ [q EXCEPT !.found = item].asks = asks
        /\ [q EXCEPT !.found = item].token = req[s].token
    <3> HIDE DEF q, item, to, asks
    <3> QED
      BY <2>1, <2>2, FoundSet
  <2>4. Moves(s, [q EXCEPT !.found = item]) /\ registry' = registry /\ options' = options
    BY <1>5 DEF Enter
  <2>5. (to = "checked" => asks.kind = "completion") /\ to # "running"
    OBVIOUS
  <2> HIDE DEF item, q, to
  <2> QED
    BY <2>3, <2>4, <2>5, MovesKeeps
<1>6. ASSUME NEW s \in Slots, Guarded(s) PROVE IInv'
  <2>1. registry' = registry /\ options' = options
    BY <1>6 DEF Guarded
  <2>2. CASE Moves(s, [req[s] EXCEPT !.stage = "denied"])
    BY <2>1, <2>2, StageKeeps, <1>stages DEF Ended
  <2>3. CASE /\ req[s].found # None => MayUse(s, req[s].found)
             /\ req[s].asks.kind = "tool" => req[s].found # None
             /\ Moves(s, [req[s] EXCEPT !.stage = "checked"])
    <3> DEFINE q == [req[s] EXCEPT !.stage = "checked"]
    <3>1. /\ q \in RequestRecord /\ q.stage = "checked" /\ q.token = req[s].token
          /\ q.asks = req[s].asks /\ q.found = req[s].found
      BY <1>req, StageSet, <1>stages
    <3>2. Moves(s, q)
      BY <2>3
    <3> HIDE DEF q
    <3> QED
      BY <2>1, <2>3, <3>1, <3>2, MovesKeeps
  <2> QED
    BY <1>6, <2>2, <2>3 DEF Guarded
<1>run. ASSUME NEW s \in Slots, req[s].stage = "checked", NEW item \in Items,
               Moves(s, [req[s] EXCEPT !.stage = "running", !.runs = item]),
               registry' = registry, options' = options
        PROVE  IInv'
  <2> DEFINE q == [req[s] EXCEPT !.stage = "running"]
  <2>1. /\ q \in RequestRecord /\ q.stage = "running" /\ q.token = req[s].token
        /\ q.asks = req[s].asks /\ q.found = req[s].found
    BY <1>req, StageSet, <1>stages
  <2>2. /\ [q EXCEPT !.runs = item] \in RequestRecord
        /\ [q EXCEPT !.runs = item].stage = "running"
        /\ [q EXCEPT !.runs = item].token = req[s].token
        /\ [q EXCEPT !.runs = item].asks = req[s].asks
        /\ [q EXCEPT !.runs = item].found = req[s].found
        /\ [q EXCEPT !.runs = item].runs = item
    <3> HIDE DEF q
    <3> QED
      BY <2>1, RunsSet
  <2>3. item # None
    BY AccessAssumption
  <2>4. Moves(s, [q EXCEPT !.runs = item])
    BY <1>run
  <2>5. /\ req[s].asks.kind = "tool" => req[s].found # None
        /\ req[s].found # None /\ req[s].asks.kind # "completion" => MayUse(s, req[s].found)
    BY <1>0, <1>run DEF Cleared, Found, Past
  <2> HIDE DEF q
  <2> QED
    BY <1>run, <2>2, <2>3, <2>4, <2>5, MovesKeeps
<1>7. ASSUME NEW s \in Slots, CheckLimit(s) PROVE IInv'
  <2>1. registry' = registry /\ options' = options
        /\ req[s].stage = "checked" /\ req[s].asks.kind = "tool"
    BY <1>7 DEF CheckLimit, Checked
  <2>2. req[s].found \in Items
    BY <1>0, <2>1 DEF Shape, RequestRecord, Found, Past
  <2>3. CASE Moves(s, [req[s] EXCEPT !.stage = "limited"])
    BY <2>1, <2>3, StageKeeps, <1>stages DEF Ended
  <2>4. CASE Moves(s, [req[s] EXCEPT !.stage = "running", !.runs = req[s].found])
    BY <1>run, <2>1, <2>2, <2>4
  <2> QED
    BY <1>7, <2>3, <2>4 DEF CheckLimit
<1>8. ASSUME NEW s \in Slots, ReadResource(s) \/ GetPrompt(s) \/ Complete(s) PROVE IInv'
  <2>1. /\ req[s].stage = "checked"
        /\ \E could \in SUBSET registry, otherwise \in {"notFound", "served"} :
             Starts(s, could, otherwise)
    BY <1>8 DEF ReadResource, GetPrompt, Complete, Checked, Registered, Templates
  <2>2. PICK could \in SUBSET registry, otherwise \in {"notFound", "served"} :
          Starts(s, could, otherwise)
    BY <2>1
  <2>3. registry' = registry /\ options' = options
    BY <2>2 DEF Starts
  <2>4. CASE Moves(s, [req[s] EXCEPT !.stage = otherwise])
    BY <2>3, <2>4, StageKeeps, <1>stages DEF Ended
  <2>5. ASSUME NEW item \in could,
               Moves(s, [req[s] EXCEPT !.stage = "running", !.runs = item])
        PROVE  IInv'
    <3>1. item \in Items
      BY <1>0, <2>5 DEF Shape
    <3> QED
      BY <1>run, <2>1, <2>3, <2>5, <3>1
  <2> QED
    BY <2>2, <2>4, <2>5 DEF Starts
<1>9. ASSUME NEW s \in Slots, Ends(s) \/ MatchThrows(s) PROVE IInv'
  BY <1>9, StageKeeps, <1>stages DEF Ends, MatchThrows, Ended
<1>10. ASSUME NEW s \in Slots, Respond(s) PROVE IInv'
  <2>1. Idle \in RequestRecord /\ Idle.stage = "idle"
    BY IdleTyped DEF Idle
  <2> QED
    BY <1>10, <2>1, MovesKeeps DEF Respond
<1>11. ASSUME NEW item \in Items, Register(item) \/ Unregister(item) PROVE IInv'
  BY <1>0, <1>11, <1>same DEF Register, Registered, Unregister, Shape
<1>12. ASSUME NEW t \in Tokens, NEW how \in {"revoked", "expired"}, Over(t, how) PROVE IInv'
  BY <1>0, <1>12, <1>same DEF Over, Shape
<1>13. CASE Cleanup \/ Tick \/ UNCHANGED vars
  BY <1>0, <1>13, <1>same DEF Cleanup, Tick, vars, Shape
<1> QED
  BY <1>1, <1>2, <1>3, <1>4, <1>5, <1>6, <1>7, <1>8, <1>9, <1>10, <1>11, <1>12, <1>13
  DEF Next, Gate, Serve

\* Guards are awaited and items come and go, but an item that was there when a
\* request was looked up runs for it only if its caller may use it
\* (ExecutionPipelineService, checkAuthorization; the executor's own look-up).
THEOREM ServesWhatWasChecked == Spec => []ServedAsChecked
BY InitKeeps, NextKeeps, Enough, PTL DEF Spec
-----------------------------------------------------------------------------
(* The first and the last of some places in a sequence. *)

\* Numbers from 1 to n have a least one.
LEMMA Least ==
  ASSUME NEW n \in Nat, NEW I \in SUBSET (1 .. n), I # {}
  PROVE  Min(I) \in I /\ \A i \in I : Min(I) <= i
<1>1. I \subseteq Nat
  OBVIOUS
<1>2. PICK m \in I : \A i \in I : ~(<<i, m>> \in OpToRel(<, Nat))
  BY <1>1, NatLessThanWellFounded, WFMin
<1>3. \A i \in I : ~(i < m)
  BY <1>1, <1>2 DEF OpToRel
<1>4. \A i \in I : m <= i
  BY <1>1, <1>3
<1> QED BY <1>4 DEF Min

\* A non-empty set of numbers up to n has a greatest one.
LEMMA Greatest ==
  ASSUME NEW n \in Nat, NEW I \in SUBSET (1 .. n), I # {}
  PROVE  Max(I) \in I /\ \A i \in I : i <= Max(I)
<1> DEFINE J == {j \in 1 .. n : n + 1 - j \in I}
<1>1. J # {}
  <2>1. PICK i \in I : TRUE
    OBVIOUS
  <2>2. n + 1 - i \in 1 .. n /\ n + 1 - (n + 1 - i) = i
    OBVIOUS
  <2>3. n + 1 - i \in J
    BY <2>2
  <2> QED BY <2>3
<1>2. Min(J) \in J /\ \A j \in J : Min(J) <= j
  <2>1. J \in SUBSET (1 .. n)
    OBVIOUS
  <2> HIDE DEF J
  <2> QED BY <1>1, <2>1, Least
<1> DEFINE m == n + 1 - Min(J)
<1>3. m \in I
  BY <1>2
<1>4. ASSUME NEW i \in I PROVE i <= m
  <2>1. i \in 1 .. n /\ n + 1 - i \in 1 .. n /\ n + 1 - (n + 1 - i) = i
    OBVIOUS
  <2>2. n + 1 - i \in J
    BY <2>1
  <2>3. Min(J) <= n + 1 - i /\ Min(J) \in 1 .. n
    BY <1>2, <2>2
  <2> HIDE DEF J
  <2> QED BY <2>1, <2>3
<1> HIDE DEF m
<1> QED BY <1>3, <1>4 DEF Max

\* Text before a separator goes up to the first one there is.
LEMMA BeforeIs ==
  ASSUME NEW S, NEW text \in Seq(S), NEW separator
  PROVE  /\ Before(text, separator) \in Seq(S)
         /\ Len(Before(text, separator)) <= Len(text)
         /\ \A i \in 1 .. Len(Before(text, separator)) :
              Before(text, separator)[i] = text[i] /\ text[i] # separator
         /\ Len(Before(text, separator)) < Len(text)
              => text[Len(Before(text, separator)) + 1] = separator
<1> DEFINE I == {i \in 1 .. Len(text) : text[i] = separator}
<1>1. CASE I = {}
  <2>1. Before(text, separator) = text
    BY <1>1 DEF Before, Contains
  <2> QED BY <1>1, <2>1
<1>2. CASE I # {}
  <2>1. Before(text, separator) = SubSeq(text, 1, Min(I) - 1)
    BY <1>2 DEF Before, Contains, SelectInSeq
  <2>2. Min(I) \in I /\ \A i \in I : Min(I) <= i
    <3>1. I \in SUBSET (1 .. Len(text)) /\ Len(text) \in Nat
      OBVIOUS
    <3> HIDE DEF I
    <3> QED BY <1>2, <3>1, Least
  <2>3. PICK m \in 1 .. Len(text) : m = Min(I) /\ text[m] = separator
    BY <2>2
  <2>4. \A i \in 1 .. m - 1 : text[i] # separator
    BY <2>2, <2>3
  <2>5. PICK b : b = SubSeq(text, 1, m - 1)
    OBVIOUS
  <2>6. b \in Seq(S) /\ Len(b) = m - 1 /\ \A i \in 1 .. m - 1 : b[i] = text[i]
    BY <2>5
  <2>7. Before(text, separator) = b
    BY <2>1, <2>3, <2>5
  <2> HIDE DEF I
  <2> QED BY <2>3, <2>4, <2>6, <2>7
<1> QED BY <1>1, <1>2

\* Trimmed takes slashes at the end, and all of them.
LEMMA TrimmedIs ==
  ASSUME NEW S, NEW path \in Seq(S)
  PROVE  /\ Trimmed(path) \in Seq(S)
         /\ Len(Trimmed(path)) <= Len(path)
         /\ \A i \in 1 .. Len(Trimmed(path)) : Trimmed(path)[i] = path[i]
         /\ Trimmed(path) # <<>> => path[Len(Trimmed(path))] # "/"
         /\ \A i \in Len(Trimmed(path)) + 1 .. Len(path) : path[i] = "/"
<1> DEFINE I == {i \in 1 .. Len(path) : path[i] # "/"}
           last == IF I # {} THEN Max(I) ELSE 0
<1>1. Trimmed(path) = SubSeq(path, 1, last)
  BY DEF Trimmed, SelectLastInSeq
<1>2. I # {} => Max(I) \in I /\ \A i \in I : i <= Max(I)
  <2>1. I \in SUBSET (1 .. Len(path)) /\ Len(path) \in Nat
    OBVIOUS
  <2> HIDE DEF I
  <2> QED BY <2>1, Greatest
<1>3. last \in 0 .. Len(path) /\ (last # 0 => path[last] # "/")
  BY <1>2
<1>4. \A i \in 1 .. Len(path) : path[i] # "/" => i <= last
  BY <1>2
<1> HIDE DEF last, I
<1>5. PICK t : t = SubSeq(path, 1, last)
  OBVIOUS
<1>6. t \in Seq(S) /\ Len(t) = last /\ \A i \in 1 .. last : t[i] = path[i]
  BY <1>3, <1>5
<1>7. \A i \in last + 1 .. Len(path) : path[i] = "/"
  BY <1>3, <1>4
<1>8. t # <<>> => last # 0
  BY <1>6
<1> QED BY <1>1, <1>3, <1>5, <1>6, <1>7, <1>8

\* The metadata that a challenge names is served: the path of a canonical resource
\* is what the controller compares with, whatever slashes or query were configured.
LEMMA MetadataFound ==
  ASSUME options \in Options,
         Decoded(MetadataPath(Canonical(options.resource)))
           = MetadataPath(Canonical(options.resource))
  PROVE  MetadataServed(MetadataPath(Canonical(options.resource)))
<1> DEFINE S == ToSet(options.resource)
           r == options.resource
<1>1. r \in Seq(S) /\ Len(r) \in Nat \ {0} /\ r[1] \notin {"/", "?", "#"}
  BY AccessAssumption
<1> HIDE DEF S, r
<1>2. PICK u : u = Before(r, "#")
  OBVIOUS
<1>3. u \in Seq(S) /\ Len(u) \in Nat \ {0} /\ u[1] = r[1]
  BY <1>1, <1>2, BeforeIs
<1>4. PICK p : p = Before(u, "?")
  OBVIOUS
<1>5. /\ p \in Seq(S) /\ Len(p) \in Nat \ {0} /\ p[1] = r[1] /\ Len(p) <= Len(u)
      /\ \A i \in 1 .. Len(p) : p[i] # "?"
      /\ Len(p) < Len(u) => u[Len(p) + 1] = "?"
  BY <1>1, <1>3, <1>4, BeforeIs
<1>6. PICK t : t = Trimmed(p)
  OBVIOUS
<1>7. /\ t \in Seq(S) /\ Len(t) \in Nat \ {0} /\ t[Len(t)] # "/"
      /\ \A i \in 1 .. Len(t) : t[i] # "?"
  <2>1. /\ t \in Seq(S) /\ Len(t) \in Nat /\ Len(t) <= Len(p)
        /\ \A i \in 1 .. Len(t) : t[i] = p[i]
        /\ t # <<>> => p[Len(t)] # "/"
        /\ \A i \in Len(t) + 1 .. Len(p) : p[i] = "/"
    BY <1>5, <1>6, TrimmedIs
  <2>2. Len(t) # 0
    BY <1>1, <1>5, <2>1
  <2> QED BY <1>5, <2>1, <2>2
<1>8. PICK rest : rest = SubSeq(u, Len(p) + 1, Len(u))
  OBVIOUS
<1>9. rest \in Seq(S) /\ Len(rest) \in Nat /\ (Len(rest) # 0 => rest[1] = "?")
  BY <1>3, <1>5, <1>8
<1>10. PICK c : c = t \o rest
  OBVIOUS
<1>11. /\ c \in Seq(S) /\ Len(c) = Len(t) + Len(rest)
       /\ \A i \in 1 .. Len(t) : c[i] = t[i]
       /\ Len(rest) # 0 => c[Len(t) + 1] = "?"
  BY <1>7, <1>9, <1>10, ConcatProperties
<1>12. Canonical(options.resource) = c
  BY <1>2, <1>4, <1>6, <1>8, <1>10 DEF Canonical, r
<1>13. PICK d : d = Tail(c)
  OBVIOUS
<1>14. d \in Seq(S) /\ Len(d) = Len(c) - 1 /\ \A i \in 1 .. Len(c) - 1 : d[i] = c[i + 1]
  <2>1. c # <<>> /\ c \in Seq(S)
    BY <1>7, <1>9, <1>11
  <2> QED BY <1>13, <2>1
<1>15. PICK path : path = Before(d, "?")
  OBVIOUS
<1>16. /\ path \in Seq(S) /\ Len(path) \in Nat /\ Len(path) <= Len(d)
       /\ \A i \in 1 .. Len(path) : path[i] = d[i] /\ d[i] # "?"
       /\ Len(path) < Len(d) => d[Len(path) + 1] = "?"
  BY <1>14, <1>15, BeforeIs
<1>17. Len(path) = Len(t) - 1
  <2>1. ASSUME Len(path) > Len(t) - 1 PROVE FALSE
    <3>1. Len(t) \in 1 .. Len(path) /\ Len(t) \in 1 .. Len(c) - 1 /\ Len(rest) # 0
      BY <1>7, <1>9, <1>11, <1>14, <1>16, <2>1
    <3>2. d[Len(t)] = c[Len(t) + 1]
      BY <1>14, <3>1
    <3> QED BY <1>11, <1>16, <3>1, <3>2
  <2>2. ASSUME Len(path) < Len(t) - 1 PROVE FALSE
    <3>1. /\ Len(path) < Len(d) /\ Len(path) + 1 \in 1 .. Len(c) - 1
          /\ (Len(path) + 1) + 1 \in 1 .. Len(t)
      BY <1>7, <1>9, <1>11, <1>14, <1>16, <2>2
    <3>2. d[Len(path) + 1] = t[(Len(path) + 1) + 1]
      BY <1>11, <1>14, <3>1
    <3> QED BY <1>7, <1>16, <3>1, <3>2
  <2> QED BY <1>7, <1>16, <2>1, <2>2
<1>18. PICK tt : tt = Trimmed(path)
  OBVIOUS
<1>19. /\ tt \in Seq(S) /\ Len(tt) \in Nat /\ Len(tt) <= Len(path)
       /\ \A i \in 1 .. Len(tt) : tt[i] = path[i]
       /\ \A i \in Len(tt) + 1 .. Len(path) : path[i] = "/"
  BY <1>16, <1>18, TrimmedIs
<1>20. Len(tt) = Len(path)
  <2> SUFFICES ASSUME Len(tt) < Len(path) PROVE FALSE
    BY <1>16, <1>19
  <2>1. path[Len(path)] = "/" /\ Len(path) \in 1 .. Len(path)
    BY <1>16, <1>19
  <2>2. path[Len(path)] = t[Len(t)]
    <3>1. Len(path) \in 1 .. Len(c) - 1 /\ Len(path) + 1 = Len(t) /\ Len(t) \in 1 .. Len(t)
      BY <1>7, <1>9, <1>11, <1>17, <2>1
    <3> QED BY <1>11, <1>14, <1>16, <2>1, <3>1
  <2> QED BY <1>7, <2>1, <2>2
<1>21. tt = path
  BY <1>16, <1>19, <1>20
<1>22. MetadataPath(Canonical(options.resource)) = path
  BY <1>12, <1>13, <1>15 DEF MetadataPath
<1> QED BY <1>18, <1>21, <1>22 DEF MetadataServed
-----------------------------------------------------------------------------
(* The token cache *)

Entry == [token : Tokens, valid : BOOLEAN, age : 0 .. Ttl]

\* Few entries, one for a token, and none that refuses a fit token.
CacheOk(c, unfit) ==
  /\ c \in Seq(Entry) /\ Len(c) <= CacheMax
  /\ \A m, n \in 1 .. Len(c) : c[m].token = c[n].token => m = n
  /\ \A n \in 1 .. Len(c) : ~c[n].valid => c[n].token \in unfit

\* What is left after one element is taken out.
LEMMA RemovedAt ==
  ASSUME NEW S, NEW q \in Seq(S), NEW i \in 1 .. Len(q)
  PROVE  /\ RemoveAt(q, i) \in Seq(S)
         /\ Len(RemoveAt(q, i)) = Len(q) - 1
         /\ \A j \in 1 .. Len(q) - 1 : RemoveAt(q, i)[j] = q[IF j < i THEN j ELSE j + 1]
<1>1. PICK before : before = SubSeq(q, 1, i - 1)
  OBVIOUS
<1>2. before \in Seq(S) /\ Len(before) = i - 1 /\ \A j \in 1 .. i - 1 : before[j] = q[j]
  BY <1>1
<1>3. PICK after : after = SubSeq(q, i + 1, Len(q))
  OBVIOUS
<1>4. /\ after \in Seq(S) /\ Len(after) = Len(q) - i
      /\ \A j \in 1 .. Len(q) - i : after[j] = q[i + j]
  BY <1>3
<1>5. PICK r : r = before \o after
  OBVIOUS
<1>6. /\ r \in Seq(S)
      /\ Len(r) = Len(before) + Len(after)
      /\ \A j \in 1 .. Len(before) + Len(after) :
           r[j] = IF j <= Len(before) THEN before[j] ELSE after[j - Len(before)]
  BY <1>2, <1>4, <1>5, ConcatProperties
<1>7. Len(q) \in Nat /\ i \in Nat /\ i <= Len(q) /\ 1 <= i
  OBVIOUS
<1>8. ASSUME NEW j \in 1 .. Len(q) - 1 PROVE r[j] = q[IF j < i THEN j ELSE j + 1]
  <2>1. r[j] = IF j <= i - 1 THEN before[j] ELSE after[j - (i - 1)]
    BY <1>2, <1>4, <1>6, <1>7
  <2>2. CASE j < i
    <3>1. j \in 1 .. i - 1 /\ j <= i - 1
      BY <1>7, <2>2
    <3> QED BY <1>2, <2>1, <2>2, <3>1
  <2>3. CASE ~(j < i)
    <3>1. ~(j <= i - 1) /\ j - (i - 1) \in 1 .. Len(q) - i /\ i + (j - (i - 1)) = j + 1
      BY <1>7, <2>3
    <3> QED BY <1>4, <2>1, <2>3, <3>1
  <2> QED BY <2>2, <2>3
<1>9. RemoveAt(q, i) = r
  BY <1>1, <1>3, <1>5 DEF RemoveAt
<1>10. Len(r) = Len(q) - 1
  BY <1>2, <1>4, <1>6, <1>7
<1> QED BY <1>6, <1>8, <1>9, <1>10

\* Removing a token's entry leaves the cache in order.
LEMMA DroppedKeeps ==
  ASSUME NEW unfit, CacheOk(cache, unfit), NEW t
  PROVE  CacheOk(Dropped(t), unfit)
<1> DEFINE I == {i \in 1 .. Len(cache) : cache[i].token = t}
<1>1. cache \in Seq(Entry) /\ Len(cache) \in Nat /\ Len(cache) <= CacheMax
  BY DEF CacheOk
<1>2. CASE I = {}
  <2>1. Dropped(t) = cache
    BY <1>2 DEF Dropped, RemoveFirstMatch
  <2> QED BY <2>1
<1>3. CASE I # {}
  <2>1. Dropped(t) = RemoveAt(cache, Min(I))
    BY <1>3 DEF Dropped, RemoveFirstMatch, SelectInSeq
  <2>2. Min(I) \in I
    <3>1. I \in SUBSET (1 .. Len(cache))
      OBVIOUS
    <3> HIDE DEF I
    <3> QED BY <1>1, <1>3, <3>1, Least
  <2>3. PICK i \in 1 .. Len(cache) : i = Min(I)
    BY <2>2
  <2>4. PICK d : d = RemoveAt(cache, i)
    OBVIOUS
  <2>5. /\ d \in Seq(Entry) /\ Len(d) = Len(cache) - 1
        /\ \A j \in 1 .. Len(cache) - 1 : d[j] = cache[IF j < i THEN j ELSE j + 1]
    BY <1>1, <2>4, RemovedAt
  <2>6. ASSUME NEW m \in 1 .. Len(d), NEW n \in 1 .. Len(d), d[m].token = d[n].token
        PROVE  m = n
    <3> DEFINE at(j) == IF j < i THEN j ELSE j + 1
    <3>1. /\ m \in 1 .. Len(cache) - 1 /\ n \in 1 .. Len(cache) - 1
          /\ at(m) \in 1 .. Len(cache) /\ at(n) \in 1 .. Len(cache)
      BY <1>1, <2>5
    <3>2. cache[at(m)].token = cache[at(n)].token
      BY <2>5, <2>6, <3>1
    <3>3. at(m) = at(n)
      <4> HIDE DEF at
      <4> QED BY <3>1, <3>2 DEF CacheOk
    <3> QED BY <3>1, <3>3
  <2>7. ASSUME NEW n \in 1 .. Len(d), ~d[n].valid PROVE d[n].token \in unfit
    BY <1>1, <2>5, <2>7 DEF CacheOk
  <2>8. Len(d) <= CacheMax
    BY <1>1, <2>5, AccessAssumption
  <2>9. CacheOk(d, unfit)
    BY <2>5, <2>6, <2>7, <2>8 DEF CacheOk
  <2> HIDE DEF I
  <2> QED BY <2>1, <2>3, <2>4, <2>9
<1> QED BY <1>2, <1>3

\* A verdict with its grounds is stored, the oldest entry making room.
LEMMA StoredKeeps ==
  ASSUME NEW unfit, CacheOk(cache, unfit), NEW t \in Tokens, NEW valid \in BOOLEAN,
         ~valid => t \in unfit
  PROVE  CacheOk(Stored(t, valid), unfit)
<1>1. cache \in Seq(Entry) /\ Len(cache) \in Nat /\ Len(cache) <= CacheMax
  BY DEF CacheOk
<1>2. PICK kept : kept = IF Len(cache) >= CacheMax THEN Tail(cache) ELSE cache
  OBVIOUS
<1>3. CacheOk(kept, unfit) /\ Len(kept) < CacheMax
  <2>1. CASE ~(Len(cache) >= CacheMax)
    BY <1>1, <1>2, <2>1, AccessAssumption
  <2>2. CASE Len(cache) >= CacheMax
    <3>1. kept = Tail(cache) /\ cache # <<>> /\ Len(cache) = CacheMax
      BY <1>1, <1>2, <2>2, AccessAssumption
    <3>2. kept \in Seq(Entry) /\ Len(kept) = Len(cache) - 1
          /\ \A i \in 1 .. Len(cache) - 1 : kept[i] = cache[i + 1]
      BY <1>1, <3>1
    <3>3. ASSUME NEW m \in 1 .. Len(kept), NEW n \in 1 .. Len(kept),
                 kept[m].token = kept[n].token
          PROVE  m = n
      <4>1. m + 1 \in 1 .. Len(cache) /\ n + 1 \in 1 .. Len(cache)
        BY <1>1, <3>2
      <4>2. m + 1 = n + 1
        BY <3>2, <3>3, <4>1 DEF CacheOk
      <4> QED BY <4>2
    <3>4. ASSUME NEW n \in 1 .. Len(kept), ~kept[n].valid PROVE kept[n].token \in unfit
      <4>1. n + 1 \in 1 .. Len(cache)
        BY <1>1, <3>2
      <4> QED BY <3>2, <3>4, <4>1 DEF CacheOk
    <3>5. Len(kept) < CacheMax /\ Len(kept) <= CacheMax
      BY <1>1, <3>1, <3>2
    <3> QED BY <3>2, <3>3, <3>4, <3>5 DEF CacheOk
  <2> QED BY <2>1, <2>2
<1>4. PICK entry : entry = [token |-> t, valid |-> valid, age |-> 0]
  OBVIOUS
<1>5. entry \in Entry /\ entry.token = t /\ (~entry.valid => entry.token \in unfit)
  BY <1>4, AccessAssumption DEF Entry
<1>6. CASE \E n \in DOMAIN kept : kept[n].token = t
  <2>1. PICK new : new = [n \in DOMAIN kept |-> IF kept[n].token = t THEN entry ELSE kept[n]]
    OBVIOUS
  <2>2. /\ new \in Seq(Entry) /\ Len(new) = Len(kept)
        /\ \A n \in 1 .. Len(kept) : new[n] = IF kept[n].token = t THEN entry ELSE kept[n]
    <3>1. DOMAIN kept = 1 .. Len(kept) /\ Len(kept) \in Nat
          /\ \A n \in 1 .. Len(kept) : kept[n] \in Entry
      BY <1>3 DEF CacheOk
    <3>2. new \in [1 .. Len(kept) -> Entry]
      BY <1>5, <2>1, <3>1
    <3>3. new \in Seq(Entry) /\ Len(new) = Len(kept)
      BY <3>1, <3>2
    <3> QED BY <2>1, <3>1, <3>3
  <2>3. \A n \in 1 .. Len(kept) : new[n].token = kept[n].token
    BY <1>5, <2>2
  <2>4. CacheOk(new, unfit)
    BY <1>3, <1>5, <2>2, <2>3 DEF CacheOk
  <2> QED BY <1>2, <1>4, <1>6, <2>1, <2>4 DEF Stored
<1>7. CASE ~\E n \in DOMAIN kept : kept[n].token = t
  <2>1. PICK new : new = Append(kept, entry)
    OBVIOUS
  <2>2. kept \in Seq(Entry) /\ Len(kept) \in Nat
    BY <1>3 DEF CacheOk
  <2>3. /\ new \in Seq(Entry) /\ Len(new) = Len(kept) + 1 /\ new[Len(kept) + 1] = entry
        /\ \A n \in 1 .. Len(kept) : new[n] = kept[n]
    BY <1>5, <2>1, <2>2, AppendProperties
  <2>4. \A n \in 1 .. Len(kept) : kept[n].token # t
    BY <1>7, <2>2
  <2>5. ASSUME NEW m \in 1 .. Len(new), NEW n \in 1 .. Len(new), new[m].token = new[n].token
        PROVE  m = n
    BY <1>3, <1>5, <2>2, <2>3, <2>4, <2>5 DEF CacheOk
  <2>6. ASSUME NEW n \in 1 .. Len(new), ~new[n].valid PROVE new[n].token \in unfit
    BY <1>3, <1>5, <2>2, <2>3, <2>6 DEF CacheOk
  <2>7. Len(new) <= CacheMax
    BY <1>3, <2>2, <2>3, AccessAssumption
  <2>8. CacheOk(new, unfit)
    BY <2>3, <2>5, <2>6, <2>7 DEF CacheOk
  <2> QED BY <1>2, <1>4, <1>7, <2>1, <2>8 DEF Stored
<1>8. CASE valid /\ Issued[t].exp /\ token[t] = "expired"
  BY <1>8 DEF Stored
<1> QED BY <1>6, <1>7, <1>8

\* Entries that grow older are the same otherwise.
LEMMA OlderKeeps ==
  ASSUME NEW unfit, CacheOk(cache, unfit)
  PROVE  CacheOk([n \in DOMAIN cache |-> Older(cache[n])], unfit)
<1>1. /\ DOMAIN cache = 1 .. Len(cache) /\ Len(cache) \in Nat
      /\ \A n \in 1 .. Len(cache) : cache[n] \in Entry
  BY DEF CacheOk
<1>2. ASSUME NEW e \in Entry
      PROVE  Older(e) \in Entry /\ Older(e).token = e.token /\ Older(e).valid = e.valid
  <2>1. e.age \in 0 .. Ttl /\ Ttl \in Nat
    BY AccessAssumption DEF Entry
  <2>2. PICK age : age = Min({e.age + 1, Ttl})
    OBVIOUS
  <2>3. age \in 0 .. Ttl
    <3>1. CASE e.age + 1 <= Ttl
      <4>1. age = e.age + 1
        BY <2>1, <2>2, <3>1 DEF Min
      <4> QED BY <2>1, <3>1, <4>1
    <3>2. CASE ~(e.age + 1 <= Ttl)
      <4>1. age = Ttl
        BY <2>1, <2>2, <3>2 DEF Min
      <4> QED BY <2>1, <4>1
    <3> QED BY <3>1, <3>2
  <2>4. Older(e) = [e EXCEPT !.age = age]
    BY <2>2 DEF Older, Entry
  <2> QED BY <2>3, <2>4 DEF Entry
<1>3. PICK new : new = [n \in DOMAIN cache |-> Older(cache[n])]
  OBVIOUS
<1>4. /\ new \in Seq(Entry) /\ Len(new) = Len(cache)
      /\ \A n \in 1 .. Len(cache) :
           new[n].token = cache[n].token /\ new[n].valid = cache[n].valid
  <2>1. new \in [1 .. Len(cache) -> Entry]
    BY <1>1, <1>2, <1>3
  <2>2. new \in Seq(Entry) /\ Len(new) = Len(cache)
    BY <1>1, <2>1
  <2> QED BY <1>1, <1>2, <1>3, <2>2
<1>5. CacheOk(new, unfit)
  BY <1>4 DEF CacheOk
<1> QED BY <1>3, <1>5
-----------------------------------------------------------------------------
(* A token is refused for a cause. *)

\* Tokens over at the authorization server, and those that are not to be accepted:
\* neither set ever loses a token.
Lapsed == {t \in Tokens : token[t] # "active"}
Unfit == Lapsed \union {t \in Tokens : ~AudienceOk(t)}

\* What is known of a token is on the side of refusing it only with a cause.
Asking(r, lapsed, unfit, lib) ==
  /\ r.stage \in {"introspecting", "answered", "loading", "verifying"} => r.token \in Tokens
  /\ r.stage = "loading" => lib = "loading"
  /\ r.stage = "answered" /\ ~r.said => r.token \in lapsed
  /\ r.stage = "401" /\ r.token # None =>
       r.token \in unfit \/ ~Issued[r.token].exp \/ r.noKeys

Caused ==
  /\ token \in [Tokens -> {"active", "revoked", "expired"}]
  /\ jose \in {"none", "loading", "ready"}
  /\ CacheOk(cache, Unfit)
  /\ \A s \in Slots : Asking(req[s], Lapsed, Unfit, jose)

\* A refusal that has a cause has the one the property names.
LEMMA CausedEnough == IInv /\ Caused => RefusedForCause
<1> SUFFICES ASSUME IInv, Caused PROVE RefusedForCause
  OBVIOUS
<1>1. /\ token \in [Tokens -> {"active", "revoked", "expired"}]
      /\ jose \in {"none", "loading", "ready"}
      /\ CacheOk(cache, Unfit)
      /\ \A s \in Slots : Asking(req[s], Lapsed, Unfit, jose)
  BY DEF Caused
<1>2. TypeOK
  <2>1. /\ DOMAIN cache = 1 .. Len(cache) /\ Len(cache) <= CacheMax
        /\ \A n \in 1 .. Len(cache) : cache[n].age \in 0 .. Ttl
        /\ \A m, n \in 1 .. Len(cache) : cache[m].token = cache[n].token => m = n
    <3>1. /\ DOMAIN cache = 1 .. Len(cache) /\ Len(cache) <= CacheMax
          /\ \A n \in 1 .. Len(cache) : cache[n] \in Entry
          /\ \A m, n \in 1 .. Len(cache) : cache[m].token = cache[n].token => m = n
      BY <1>1 DEF CacheOk
    <3> QED BY <3>1 DEF Entry
  <2>2. \A s \in Slots : req[s].stage = "loading" => jose = "loading"
    BY <1>1 DEF Asking
  <2>3. registry \subseteq Items
    BY DEF IInv, Shape
  <2> QED BY <1>1, <2>1, <2>2, <2>3 DEF TypeOK
<1>3. LET path == MetadataPath(Canonical(options.resource)) IN
        Decoded(path) = path => MetadataServed(path)
  BY MetadataFound DEF IInv, Shape
<1>4. ASSUME NEW s \in Slots, req[s].stage = "401", req[s].token # None
      PROVE  token[req[s].token] # "active" \/ ~Issued[req[s].token].exp
               \/ ~AudienceOk(req[s].token) \/ req[s].noKeys
  BY <1>1, <1>4 DEF Asking, Unfit, Lapsed
<1> QED BY <1>2, <1>3, <1>4 DEF RefusedForCause

\* The gate refuses on a bad verdict, for want of an expiry, or after it.
LEMMA JudgedBad ==
  ASSUME NEW t \in Tokens, NEW valid \in BOOLEAN, ~valid => t \in Unfit,
         Judged(t, valid) = "401"
  PROVE  t \in Unfit \/ ~Issued[t].exp
BY DEF Judged, Unfit, Lapsed

\* More tokens over or unfit, and keys that load on, leave requests and the cache in
\* order.
LEMMA AskingKeeps ==
  ASSUME NEW r, NEW lapsed, NEW unfit, NEW lib, Asking(r, lapsed, unfit, lib),
         NEW lapsed2, lapsed \subseteq lapsed2, NEW unfit2, unfit \subseteq unfit2,
         NEW lib2, lib = "loading" => lib2 = "loading"
  PROVE  Asking(r, lapsed2, unfit2, lib2)
BY DEF Asking

\* A cache that is in order stays so.
LEMMA CacheOkKeeps ==
  ASSUME NEW c, NEW unfit, CacheOk(c, unfit), NEW unfit2, unfit \subseteq unfit2
  PROVE  CacheOk(c, unfit2)
BY DEF CacheOk

\* Nothing is refused to begin with.
LEMMA CausedInit == Init => Caused
<1> SUFFICES ASSUME Init PROVE Caused
  OBVIOUS
<1>1. /\ token = [t \in Tokens |-> "active"] /\ cache = <<>> /\ jose = "none"
      /\ \A s \in Slots : req[s].stage = "idle"
  BY DEF Init, Idle
<1>2. CacheOk(cache, Unfit)
  BY <1>1, AccessAssumption DEF CacheOk
<1>3. \A s \in Slots : Asking(req[s], Lapsed, Unfit, jose)
  BY <1>1 DEF Asking
<1> QED BY <1>1, <1>2, <1>3 DEF Caused

\* What a step leaves as it is stays in order; what it moves has to be.
LEMMA CausedKeeps ==
  ASSUME IInv, Caused, IInv', token' = token, options' = options,
         jose' \in {"none", "loading", "ready"},
         CacheOk(cache', Unfit),
         \A s \in Slots : \/ req'[s] = req[s] /\ (jose = "loading" => jose' = "loading")
                          \/ Asking(req'[s], Lapsed, Unfit, jose')
  PROVE  Caused'
<1>1. /\ token \in [Tokens -> {"active", "revoked", "expired"}]
      /\ \A s \in Slots : Asking(req[s], Lapsed, Unfit, jose)
  BY DEF Caused
<1>2. Lapsed' = Lapsed /\ Unfit' = Unfit
  BY DEF Lapsed, Unfit, AudienceOk, AudienceMatches
<1>3. ASSUME NEW s \in Slots PROVE Asking(req'[s], Lapsed, Unfit, jose')
  <2>1. CASE req'[s] = req[s] /\ (jose = "loading" => jose' = "loading")
    BY <1>1, <2>1, AskingKeeps
  <2> QED BY <2>1
<1> QED BY <1>1, <1>2, <1>3 DEF Caused

\* Most steps move one request, and touch neither the tokens nor their verdicts.
LEMMA OneAsks ==
  ASSUME IInv, Caused, IInv', NEW s \in Slots, NEW r, Moves(s, r),
         token' = token, options' = options, cache' = cache, jose' = jose,
         Asking(r, Lapsed, Unfit, jose)
  PROVE  Caused'
<1>1. req \in [Slots -> RequestRecord]
  BY DEF IInv, Shape
<1>2. \A t \in Slots : req'[t] = IF t = s THEN r ELSE req[t]
  BY <1>1 DEF Moves
<1>3. CacheOk(cache', Unfit) /\ jose' \in {"none", "loading", "ready"}
  BY DEF Caused
<1> QED BY <1>2, <1>3, CausedKeeps

\* Every step that refuses has a cause.
LEMMA NextCauses == IInv /\ Caused /\ IInv' /\ [Next]_vars => Caused'
<1> SUFFICES ASSUME IInv, Caused, IInv', [Next]_vars PROVE Caused'
  OBVIOUS
<1>0. /\ token \in [Tokens -> {"active", "revoked", "expired"}]
      /\ jose \in {"none", "loading", "ready"}
      /\ CacheOk(cache, Unfit)
      /\ \A s \in Slots : Asking(req[s], Lapsed, Unfit, jose)
  BY DEF Caused
<1>req. req \in [Slots -> RequestRecord] /\ \A s \in Slots : req[s] \in RequestRecord
  BY DEF IInv, Shape
<1>stages. /\ Ended = {"401", "403", "500", "denied", "limited", "notFound", "served", "error"}
           /\ Ended \subseteq Stages
           /\ {"idle", "admitted", "introspecting", "answered", "loading", "verifying",
               "guarding", "checked", "running"} \subseteq Stages
  BY DEF Stages, Ended
<1>judged. \A t, valid : Judged(t, valid) \in {"401", "403", "admitted"}
  BY DEF Judged
<1>quiet. ASSUME NEW s \in Slots, NEW r, Moves(s, r),
                 r.stage \notin {"introspecting", "answered", "loading", "verifying", "401"},
                 token' = token, options' = options, cache' = cache, jose' = jose
          PROVE  Caused'
  <2>1. Asking(r, Lapsed, Unfit, jose)
    BY <1>quiet DEF Asking
  <2> QED BY <1>quiet, <2>1, OneAsks
<1>set. ASSUME NEW s \in Slots,
               NEW to \in Stages \ {"introspecting", "answered", "loading", "verifying", "401"}
        PROVE  [req[s] EXCEPT !.stage = to].stage = to
  BY <1>req, <1>set, StageSet
<1>1. ASSUME NEW s \in Slots, NEW header \in options.headers, NEW asks \in options.asks,
             Arrive(s, header, asks)
      PROVE  Caused'
  <2> DEFINE caller == IF header \in Tokens THEN header ELSE None
             r == [Idle EXCEPT !.asks = asks, !.token = caller]
  <2>1. r \in RequestRecord /\ r.token = caller
    <3>1. asks \in UNION {o.asks : o \in Options} /\ caller \in Tokens \union {None}
      BY DEF IInv, Shape
    <3>2. \A c : [Idle EXCEPT !.asks = asks, !.token = c].token = c
      BY DEF Idle
    <3> HIDE DEF caller
    <3> QED BY <3>1, <3>2, IdleTyped, CallerSet
  <2>2. token' = token /\ options' = options
    BY <1>1 DEF Arrive
  <2>3. ASSUME NEW to \in Stages
        PROVE  [r EXCEPT !.stage = to].stage = to /\ [r EXCEPT !.stage = to].token = caller
    <3> HIDE DEF r
    <3> QED BY <2>1, StageSet
  <2> HIDE DEF r
  <2>4. ASSUME header \notin Tokens,
               NEW to \in {"admitted", "401"}, Moves(s, [r EXCEPT !.stage = to]),
               cache' = cache, jose' = jose
        PROVE  Caused'
    <3>1. to \in Stages
      BY <1>stages, <2>4
    <3>2. Asking([r EXCEPT !.stage = to], Lapsed, Unfit, jose)
      BY <2>3, <2>4, <3>1 DEF Asking
    <3> QED BY <2>2, <2>4, <3>2, OneAsks
  <2>5. ASSUME header \in Tokens, EntryOf(header) # {},
               Moves(s, [r EXCEPT !.stage =
                           Judged(header, cache[CHOOSE n \in EntryOf(header) : TRUE].valid)]),
               cache' = cache, jose' = jose
        PROVE  Caused'
    <3>1. PICK n \in EntryOf(header) :
            Moves(s, [r EXCEPT !.stage = Judged(header, cache[n].valid)])
      BY <2>5
    <3>2. n \in 1 .. Len(cache) /\ cache[n] \in Entry /\ cache[n].token = header
      BY <1>0, <3>1 DEF EntryOf, CacheOk
    <3>3. cache[n].valid \in BOOLEAN /\ (~cache[n].valid => header \in Unfit)
      BY <1>0, <3>2 DEF CacheOk, Entry
    <3>4. PICK to \in {"401", "403", "admitted"} : to = Judged(header, cache[n].valid)
      BY <1>judged
    <3>5. to = "401" => header \in Unfit \/ ~Issued[header].exp
      BY <2>5, <3>3, <3>4, JudgedBad
    <3>6. to \in Stages
      BY <1>stages, <3>4
    <3>7. Asking([r EXCEPT !.stage = to], Lapsed, Unfit, jose)
      BY <2>3, <2>5, <3>4, <3>5, <3>6 DEF Asking
    <3> QED BY <2>2, <2>5, <3>1, <3>4, <3>7, OneAsks
  <2>6. ASSUME header \in Tokens, Moves(s, [r EXCEPT !.stage = "introspecting"]),
               cache' = Dropped(header), jose' = jose
        PROVE  Caused'
    <3>1. CacheOk(cache', Unfit)
      BY <1>0, <2>6, DroppedKeeps
    <3>2. Asking([r EXCEPT !.stage = "introspecting"], Lapsed, Unfit, jose)
      BY <1>stages, <2>3, <2>6 DEF Asking
    <3>3. \A t \in Slots : req'[t] = IF t = s THEN [r EXCEPT !.stage = "introspecting"] ELSE req[t]
      BY <1>req, <2>6 DEF Moves
    <3> QED BY <1>0, <2>2, <2>6, <3>1, <3>2, <3>3, CausedKeeps
  <2>7. ASSUME header \in Tokens,
               Moves(s, [r EXCEPT !.stage = IF jose = "ready" THEN "verifying" ELSE "loading"]),
               jose' = IF jose = "none" THEN "loading" ELSE jose, cache' = cache
        PROVE  Caused'
    <3>1. PICK to \in {"verifying", "loading"} :
            to = IF jose = "ready" THEN "verifying" ELSE "loading"
      OBVIOUS
    <3>2. jose' \in {"none", "loading", "ready"} /\ (jose = "loading" => jose' = "loading")
          /\ (to = "loading" => jose' = "loading")
      BY <1>0, <2>7, <3>1
    <3>3. Asking([r EXCEPT !.stage = to], Lapsed, Unfit, jose')
      BY <1>stages, <2>3, <2>7, <3>1, <3>2 DEF Asking
    <3>4. \A t \in Slots : req'[t] = IF t = s THEN [r EXCEPT !.stage = to] ELSE req[t]
      BY <1>req, <2>7, <3>1 DEF Moves
    <3> QED BY <1>0, <2>2, <2>7, <3>2, <3>3, <3>4, CausedKeeps
  <2>8. \/ header \notin Tokens /\ cache' = cache /\ jose' = jose
           /\ \E to \in {"admitted", "401"} : Moves(s, [r EXCEPT !.stage = to])
        \/ /\ header \in Tokens /\ EntryOf(header) # {} /\ cache' = cache /\ jose' = jose
           /\ Moves(s, [r EXCEPT !.stage =
                          Judged(header, cache[CHOOSE n \in EntryOf(header) : TRUE].valid)])
        \/ /\ header \in Tokens /\ Moves(s, [r EXCEPT !.stage = "introspecting"])
           /\ cache' = Dropped(header) /\ jose' = jose
        \/ /\ header \in Tokens /\ cache' = cache
           /\ Moves(s, [r EXCEPT !.stage = IF jose = "ready" THEN "verifying" ELSE "loading"])
           /\ jose' = IF jose = "none" THEN "loading" ELSE jose
    BY <1>1 DEF Arrive, r
  <2> QED BY <2>4, <2>5, <2>6, <2>7, <2>8
<1>2. ASSUME NEW s \in Slots, Introspected(s) PROVE Caused'
  <2> DEFINE q == [req[s] EXCEPT !.stage = "answered"]
             said == (token[req[s].token] = "active")
  <2>1. q \in RequestRecord /\ q.stage = "answered" /\ q.token = req[s].token
    BY <1>req, <1>stages, StageSet
  <2>2. req[s].token \in Tokens
    BY <1>0, <1>2 DEF Introspected, Asking
  <2>b. said \in BOOLEAN
    OBVIOUS
  <2>c. ~said => req[s].token \in Lapsed
    BY <2>2 DEF Lapsed
  <2>3. Moves(s, [q EXCEPT !.said = said])
        /\ token' = token /\ options' = options /\ cache' = cache /\ jose' = jose
    BY <1>2 DEF Introspected
  <2> HIDE DEF q, said
  <2>4. /\ [q EXCEPT !.said = said].stage = "answered"
        /\ [q EXCEPT !.said = said].token = req[s].token
        /\ [q EXCEPT !.said = said].said = said
    BY <2>1, <2>b, SaidSet
  <2>5. Asking([q EXCEPT !.said = said], Lapsed, Unfit, jose)
    BY <2>2, <2>b, <2>c, <2>4 DEF Asking
  <2> QED BY <2>3, <2>5, OneAsks
<1>3. ASSUME NEW s \in Slots, IntrospectionFails(s) PROVE Caused'
  <2>1. /\ Moves(s, [req[s] EXCEPT !.stage = "500"])
        /\ token' = token /\ options' = options /\ cache' = cache /\ jose' = jose
    BY <1>3 DEF IntrospectionFails
  <2>2. [req[s] EXCEPT !.stage = "500"].stage = "500"
    BY <1>set, <1>stages
  <2> QED BY <1>quiet, <2>1, <2>2
<1>4. ASSUME NEW s \in Slots, Settle(s) PROVE Caused'
  <2> DEFINE t == req[s].token
             valid == req[s].said /\ AudienceOk(t)
  <2>1. t \in Tokens /\ (~req[s].said => t \in Lapsed) /\ req[s].said \in BOOLEAN
    BY <1>0, <1>4, <1>req DEF Settle, Asking, RequestRecord
  <2>2. valid \in BOOLEAN /\ (~valid => t \in Unfit)
    BY <2>1 DEF Unfit
  <2>3. /\ cache' = Stored(t, valid)
        /\ Moves(s, [req[s] EXCEPT !.stage = Judged(t, valid)])
        /\ token' = token /\ options' = options /\ jose' = jose
    BY <1>4 DEF Settle
  <2>4. CacheOk(cache', Unfit)
    <3> HIDE DEF valid, t
    <3> QED BY <1>0, <2>1, <2>2, <2>3, StoredKeeps
  <2>5. PICK to \in {"401", "403", "admitted"} : to = Judged(t, valid)
    BY <1>judged
  <2>6. to = "401" => t \in Unfit \/ ~Issued[t].exp
    <3> HIDE DEF valid, t
    <3> QED BY <2>1, <2>2, <2>5, JudgedBad
  <2>7. [req[s] EXCEPT !.stage = to].stage = to /\ [req[s] EXCEPT !.stage = to].token = t
    BY <1>req, <1>stages, <2>5, StageSet
  <2>8. Asking([req[s] EXCEPT !.stage = to], Lapsed, Unfit, jose)
    <3> HIDE DEF valid, t
    <3> QED BY <2>1, <2>6, <2>7, <2>5 DEF Asking
  <2>9. \A x \in Slots : req'[x] = IF x = s THEN [req[s] EXCEPT !.stage = to] ELSE req[x]
    BY <1>req, <2>3, <2>5 DEF Moves
  <2> HIDE DEF valid, t
  <2> QED BY <1>0, <2>3, <2>4, <2>8, <2>9, CausedKeeps
<1>5. ASSUME NEW ok \in BOOLEAN, Loaded(ok) PROVE Caused'
  <2>1. /\ token' = token /\ options' = options /\ cache' = cache
        /\ jose' \in {"none", "loading", "ready"}
    BY <1>5 DEF Loaded
  <2>2. ASSUME NEW s \in Slots PROVE Asking(req'[s], Lapsed, Unfit, jose')
    <3>1. CASE req[s].stage = "loading"
      <4>1. PICK to \in {"verifying", "500"} : req'[s] = [req[s] EXCEPT !.stage = to]
        BY <1>5, <3>1 DEF Loaded
      <4>2. req'[s].stage = to /\ req'[s].token = req[s].token
        BY <1>req, <1>stages, <4>1, StageSet
      <4>3. req[s].token \in Tokens
        BY <1>0, <3>1 DEF Asking
      <4> QED BY <4>1, <4>2, <4>3 DEF Asking
    <3>2. CASE req[s].stage # "loading"
      <4>1. req'[s] = req[s]
        BY <1>5, <3>2 DEF Loaded
      <4> QED BY <1>0, <3>2, <4>1 DEF Asking
    <3> QED BY <3>1, <3>2
  <2> QED BY <1>0, <2>1, <2>2, CausedKeeps
<1>6. ASSUME NEW s \in Slots, Verified(s) PROVE Caused'
  <2> DEFINE t == req[s].token
             valid == token[t] # "expired" /\ AudienceOk(t)
  <2>1. token' = token /\ options' = options /\ cache' = cache /\ jose' = jose
    BY <1>6 DEF Verified
  <2>2. t \in Tokens
    BY <1>0, <1>6 DEF Verified, Asking
  <2>3. valid \in BOOLEAN /\ (~valid => t \in Unfit)
    BY <2>2 DEF Unfit, Lapsed
  <2>4. PICK to \in {"401", "403", "admitted"} : to = Judged(t, valid)
    BY <1>judged
  <2>5. to = "401" => t \in Unfit \/ ~Issued[t].exp
    <3> HIDE DEF valid, t
    <3> QED BY <2>2, <2>3, <2>4, JudgedBad
  <2>6. [req[s] EXCEPT !.stage = to].stage = to /\ [req[s] EXCEPT !.stage = to].token = t
    BY <1>req, <1>stages, <2>4, StageSet
  <2>7. Asking([req[s] EXCEPT !.stage = to], Lapsed, Unfit, jose)
    <3> HIDE DEF valid, t
    <3> QED BY <2>2, <2>5, <2>6, <2>4 DEF Asking
  <2>8. CASE Moves(s, [req[s] EXCEPT !.stage = "500"])
    BY <1>quiet, <1>set, <1>stages, <2>1, <2>8
  <2>9. CASE Moves(s, [req[s] EXCEPT !.stage = to])
    <3> HIDE DEF valid, t
    <3> QED BY <2>1, <2>7, <2>9, OneAsks
  <2>10. CASE Moves(s, [req[s] EXCEPT !.stage = "401", !.noKeys = TRUE])
    <3>1. PICK q : q = [req[s] EXCEPT !.stage = "401", !.noKeys = TRUE]
      OBVIOUS
    <3>2. q.stage = "401" /\ q.noKeys = TRUE
      BY <1>req, <1>stages, <3>1, KeysSet
    <3>3. Asking(q, Lapsed, Unfit, jose)
      BY <3>2 DEF Asking
    <3> QED BY <2>1, <2>10, <3>1, <3>3, OneAsks
  <2> QED BY <1>6, <2>4, <2>8, <2>9, <2>10 DEF Verified
<1>7. ASSUME NEW s \in Slots, Enter(s) PROVE Caused'
  <2> DEFINE to == IF req[s].asks.kind = "completion" THEN "checked" ELSE "guarding"
             item == Lookup(req[s].asks.kind, req[s].asks.key)
  <2>1. to \in {"checked", "guarding"} /\ to \in Stages
    BY <1>stages
  <2>2. item \in Items \union {None}
    BY DEF Lookup, Registered, IInv, Shape
  <2>3. PICK q : q = [req[s] EXCEPT !.stage = to]
    OBVIOUS
  <2>4. Moves(s, [q EXCEPT !.found = item])
        /\ token' = token /\ options' = options /\ cache' = cache /\ jose' = jose
    BY <1>7, <2>3 DEF Enter
  <2> HIDE DEF to, item
  <2>5. q \in RequestRecord /\ q.stage = to
    BY <1>req, <2>1, <2>3, StageSet
  <2>6. [q EXCEPT !.found = item].stage = to
    BY <2>2, <2>5, FoundSet
  <2> QED BY <1>quiet, <2>1, <2>4, <2>6
<1>8. ASSUME NEW s \in Slots, Guarded(s) PROVE Caused'
  <2>1. /\ token' = token /\ options' = options /\ cache' = cache /\ jose' = jose
        /\ \E to \in {"denied", "checked"} : Moves(s, [req[s] EXCEPT !.stage = to])
    BY <1>8 DEF Guarded
  <2> QED BY <1>quiet, <1>set, <1>stages, <2>1
<1>run. ASSUME NEW s \in Slots, NEW item \in Items \union {None},
               Moves(s, [req[s] EXCEPT !.stage = "running", !.runs = item]),
               token' = token, options' = options, cache' = cache, jose' = jose
        PROVE  Caused'
  <2>1. PICK q : q = [req[s] EXCEPT !.stage = "running"]
    OBVIOUS
  <2>2. q \in RequestRecord /\ q.stage = "running"
    BY <1>req, <1>stages, <2>1, StageSet
  <2>3. [q EXCEPT !.runs = item].stage = "running"
    BY <2>2 DEF RequestRecord
  <2>4. Moves(s, [q EXCEPT !.runs = item])
    BY <1>run, <2>1
  <2> QED BY <1>quiet, <1>run, <2>3, <2>4
<1>9. ASSUME NEW s \in Slots, CheckLimit(s) PROVE Caused'
  <2>1. token' = token /\ options' = options /\ cache' = cache /\ jose' = jose
    BY <1>9 DEF CheckLimit
  <2>2. CASE Moves(s, [req[s] EXCEPT !.stage = "limited"])
    <3>1. [req[s] EXCEPT !.stage = "limited"].stage = "limited"
      BY <1>set, <1>stages
    <3> QED BY <1>quiet, <2>1, <2>2, <3>1
  <2>3. CASE Moves(s, [req[s] EXCEPT !.stage = "running", !.runs = req[s].found])
    <3>1. req[s].found \in Items \union {None}
      BY <1>req DEF RequestRecord
    <3> QED BY <1>run, <2>1, <2>3, <3>1
  <2> QED BY <1>9, <2>2, <2>3 DEF CheckLimit
<1>10. ASSUME NEW s \in Slots, ReadResource(s) \/ GetPrompt(s) \/ Complete(s) PROVE Caused'
  <2>1. \E could \in SUBSET registry, otherwise \in {"notFound", "served"} :
          Starts(s, could, otherwise)
    BY <1>10 DEF ReadResource, GetPrompt, Complete, Registered, Templates
  <2>2. PICK could \in SUBSET registry, otherwise \in {"notFound", "served"} :
          Starts(s, could, otherwise)
    BY <2>1
  <2>3. token' = token /\ options' = options /\ cache' = cache /\ jose' = jose
    BY <2>2 DEF Starts
  <2>4. CASE Moves(s, [req[s] EXCEPT !.stage = otherwise])
    BY <1>quiet, <1>set, <1>stages, <2>3, <2>4
  <2>5. ASSUME NEW item \in could,
               Moves(s, [req[s] EXCEPT !.stage = "running", !.runs = item])
        PROVE  Caused'
    <3>1. item \in Items
      BY <2>5 DEF IInv, Shape
    <3> QED BY <1>run, <2>3, <2>5, <3>1
  <2> QED BY <2>2, <2>4, <2>5 DEF Starts
<1>11. ASSUME NEW s \in Slots, Ends(s) \/ MatchThrows(s) PROVE Caused'
  <2>1. /\ token' = token /\ options' = options /\ cache' = cache /\ jose' = jose
        /\ \E to \in {"served", "error"} : Moves(s, [req[s] EXCEPT !.stage = to])
    BY <1>11 DEF Ends, MatchThrows
  <2> QED BY <1>quiet, <1>set, <1>stages, <2>1
<1>12. ASSUME NEW s \in Slots, Respond(s) PROVE Caused'
  <2>1. Idle.stage = "idle"
    BY DEF Idle
  <2> QED BY <1>12, <1>quiet, <2>1 DEF Respond
<1>13. ASSUME NEW t \in Tokens, NEW how \in {"revoked", "expired"}, Over(t, how) PROVE Caused'
  <2>1. /\ token' = [token EXCEPT ![t] = how] /\ token[t] = "active"
        /\ options' = options /\ cache' = cache /\ jose' = jose /\ req' = req
    BY <1>13 DEF Over
  <2>2. token' \in [Tokens -> {"active", "revoked", "expired"}]
    BY <1>0, <2>1
  <2>3. Lapsed \subseteq Lapsed'
    BY <1>0, <2>1 DEF Lapsed
  <2>4. Unfit \subseteq Unfit'
    BY <2>1, <2>3 DEF Unfit, AudienceOk, AudienceMatches
  <2>5. CacheOk(cache', Unfit')
    BY <1>0, <2>1, <2>4, CacheOkKeeps
  <2>6. ASSUME NEW s \in Slots PROVE Asking(req'[s], Lapsed', Unfit', jose')
    BY <1>0, <2>1, <2>3, <2>4, AskingKeeps
  <2> QED BY <1>0, <2>1, <2>2, <2>5, <2>6 DEF Caused
<1>14. CASE Tick
  <2>1. CacheOk(cache', Unfit)
    BY <1>0, <1>14, OlderKeeps DEF Tick
  <2>2. token' = token /\ options' = options /\ jose' = jose /\ req' = req
    BY <1>14 DEF Tick
  <2> QED BY <1>0, <2>1, <2>2, CausedKeeps
<1>same. ASSUME UNCHANGED <<token, options, cache, jose, req>> PROVE Caused'
  BY <1>0, <1>same, CausedKeeps
<1>15. ASSUME NEW item \in Items, Register(item) \/ Unregister(item) PROVE Caused'
  BY <1>15, <1>same DEF Register, Unregister
<1>16. CASE Cleanup \/ UNCHANGED vars
  BY <1>16, <1>same DEF Cleanup, vars
<1> QED
  BY <1>1, <1>2, <1>3, <1>4, <1>5, <1>6, <1>7, <1>8, <1>9, <1>10, <1>11, <1>12, <1>13,
     <1>14, <1>15, <1>16
  DEF Next, Gate, Serve

\* "Introspection failures are OUR infrastructure failing, not the token being
\* invalid": whatever fails, is answered late or is cached, a token is refused with
\* 401 only when it is over or was never fit for this server, or when the keys'
\* endpoint answered without its key; and the metadata the challenge names is served
\* (IntrospectionVerifier, JwksVerifier, McpBearerGuard).
THEOREM RefusalsHaveCause == Spec => []RefusedForCause
BY InitKeeps, NextKeeps, CausedInit, NextCauses, CausedEnough, PTL DEF Spec
-----------------------------------------------------------------------------
(* The calls let through in the last ticks, added up. *)

\* Induction up to n, as a set of numbers: what is missing from it has a least one.
LEMMA UpTo ==
  ASSUME NEW n \in Nat, NEW T, 0 \in T, \A k \in 0 .. n - 1 : k \in T => k + 1 \in T
  PROVE  \A k \in 0 .. n : k \in T
<1> DEFINE Rest == {k \in 0 .. n : k \notin T}
<1> SUFFICES ASSUME Rest # {} PROVE FALSE
  OBVIOUS
<1>0. Rest \subseteq Nat
  OBVIOUS
<1> HIDE DEF Rest
<1>1. PICK m \in Rest : \A k \in Rest : ~(<<k, m>> \in OpToRel(<, Nat))
  BY <1>0, NatLessThanWellFounded, WFMin
<1>2. \A k \in Rest : ~(k < m)
  BY <1>0, <1>1 DEF OpToRel
<1> USE DEF Rest
<1>3. m # 0 /\ m - 1 \in 0 .. n - 1 /\ m - 1 \notin Rest /\ (m - 1) + 1 = m
  BY <1>2
<1> QED BY <1>3

\* The recursion of Total is one: a table of its values can be filled in.
LEMMA TotalSteps ==
  ASSUME NEW q \in Seq(Nat)
  PROVE  \A n \in 0 .. Len(q) : Total(q, n) = IF n = 0 THEN 0 ELSE Total(q, n - 1) + q[n]
<1> DEFINE step(f, n) == IF n = 0 THEN 0 ELSE f[n - 1] + q[n]
           built(f, m) == f = [n \in 0 .. m |-> step(f, n)]
           T == {m \in Nat : \E f : built(f, m)}
<1>1. 0 \in T
  <2>1. built([n \in 0 .. 0 |-> 0], 0)
    OBVIOUS
  <2> QED BY <2>1
<1>2. ASSUME NEW m \in 0 .. Len(q) - 1, m \in T PROVE m + 1 \in T
  <2>1. PICK f : built(f, m)
    BY <1>2
  <2> DEFINE g == [n \in 0 .. m + 1 |-> IF n = m + 1 THEN step(f, m + 1) ELSE f[n]]
  <2>2. \A n \in 0 .. m + 1 : g[n] = step(g, n)
    <3>1. \A n \in 0 .. m : f[n] = step(f, n)
      BY <2>1
    <3>2. \A n \in 0 .. m : g[n] = f[n]
      OBVIOUS
    <3>3. ASSUME NEW n \in 0 .. m PROVE step(g, n) = step(f, n)
      <4>1. n # 0 => n - 1 \in 0 .. m
        OBVIOUS
      <4> QED BY <3>2, <4>1
    <3>4. step(g, m + 1) = step(f, m + 1) /\ g[m + 1] = step(f, m + 1)
      <4>1. m + 1 # 0 /\ (m + 1) - 1 \in 0 .. m
        OBVIOUS
      <4> QED BY <3>2, <4>1
    <3>5. \A n \in 0 .. m + 1 : n \in 0 .. m \/ n = m + 1
      OBVIOUS
    <3> QED BY <3>1, <3>2, <3>3, <3>4, <3>5
  <2>3. \E f1 : built(f1, m + 1)
    BY <2>2
  <2>4. m + 1 \in Nat
    OBVIOUS
  <2> QED BY <2>3, <2>4
<1>3. \A m \in 0 .. Len(q) : m \in T
  <2> HIDE DEF T
  <2>1. Len(q) \in Nat
    OBVIOUS
  <2> QED BY <1>1, <1>2, <2>1, UpTo
<1>4. \E f : built(f, Len(q))
  BY <1>3
<1> DEFINE F == CHOOSE f : built(f, Len(q))
<1>5. built(F, Len(q))
  BY <1>4
<1>6. \A n : Total(q, n) = F[n]
  BY DEF Total
<1> HIDE DEF F
<1>7. \A n \in 0 .. Len(q) : F[n] = step(F, n)
  BY <1>5
<1> QED BY <1>6, <1>7

\* Counts of more ticks come to no less.
LEMMA TotalGrows ==
  ASSUME NEW q \in Seq(Nat)
  PROVE  /\ \A n \in 0 .. Len(q) : Total(q, n) \in Nat
         /\ \A n \in 0 .. Len(q) : Total(q, n) <= Total(q, Len(q))
<1>0. Len(q) \in Nat
  OBVIOUS
<1>1. \A n \in 0 .. Len(q) : Total(q, n) = IF n = 0 THEN 0 ELSE Total(q, n - 1) + q[n]
  BY TotalSteps
<1> DEFINE T == {n \in Nat : Total(q, n) \in Nat}
<1>2. 0 \in T
  BY <1>0, <1>1
<1>3. ASSUME NEW n \in 0 .. Len(q) - 1, n \in T PROVE n + 1 \in T
  <2>1. n + 1 \in 1 .. Len(q) /\ (n + 1) - 1 = n /\ q[n + 1] \in Nat
    BY <1>0
  <2>2. Total(q, n + 1) = Total(q, n) + q[n + 1]
    BY <1>1, <2>1
  <2> QED BY <1>3, <2>1, <2>2
<1>4. \A n \in 0 .. Len(q) : n \in T
  <2> HIDE DEF T
  <2> QED BY <1>0, <1>2, <1>3, UpTo
<1> DEFINE U == {n \in Nat : n <= Len(q) => Total(q, Len(q) - n) <= Total(q, Len(q))}
<1>5. 0 \in U
  BY <1>0, <1>4
<1>6. ASSUME NEW n \in 0 .. Len(q) - 1, n \in U PROVE n + 1 \in U
  <2>1. PICK m \in 1 .. Len(q) : m = Len(q) - n
    BY <1>0
  <2>2. m - 1 = Len(q) - (n + 1) /\ q[m] \in Nat /\ n <= Len(q)
    BY <1>0, <2>1
  <2>3. Total(q, m) = Total(q, m - 1) + q[m]
    BY <1>0, <1>1, <2>1
  <2>4. m \in T /\ m - 1 \in T /\ Len(q) \in T
    BY <1>0, <1>4, <2>1
  <2>5. Total(q, m) <= Total(q, Len(q))
    BY <1>6, <2>1, <2>2
  <2>6. Total(q, m - 1) <= Total(q, Len(q))
    BY <2>2, <2>3, <2>4, <2>5
  <2> QED BY <2>2, <2>6
<1>7. \A n \in 0 .. Len(q) : n \in U
  <2> HIDE DEF U
  <2> QED BY <1>0, <1>5, <1>6, UpTo
<1>8. ASSUME NEW n \in 0 .. Len(q) PROVE Total(q, n) <= Total(q, Len(q))
  <2>1. Len(q) - n \in 0 .. Len(q) /\ Len(q) - (Len(q) - n) = n /\ Len(q) - n <= Len(q)
    BY <1>0
  <2> QED BY <1>7, <2>1
<1> QED BY <1>4, <1>8

\* A tick later the first n - 1 counts are among the first n.
LEMMA TotalAged ==
  ASSUME NEW q \in Seq(Nat), Len(q) # 0,
         NEW p \in Seq(Nat), Len(p) = Len(q), p[1] = 0, \A i \in 2 .. Len(q) : p[i] = q[i - 1]
  PROVE  \A n \in 1 .. Len(q) : Total(p, n) = Total(q, n - 1)
<1>0. Len(q) \in Nat /\ 1 \in 1 .. Len(q)
  OBVIOUS
<1>1. \A n \in 0 .. Len(q) : Total(q, n) = IF n = 0 THEN 0 ELSE Total(q, n - 1) + q[n]
  BY TotalSteps
<1>2. \A n \in 0 .. Len(q) : Total(p, n) = IF n = 0 THEN 0 ELSE Total(p, n - 1) + p[n]
  BY TotalSteps
<1> DEFINE T == {n \in Nat : n = 0 \/ Total(p, n) = Total(q, n - 1)}
<1>3. 0 \in T
  OBVIOUS
<1>4. ASSUME NEW n \in 0 .. Len(q) - 1, n \in T PROVE n + 1 \in T
  <2>1. n + 1 \in 1 .. Len(q) /\ (n + 1) - 1 = n
    BY <1>0
  <2>2. Total(p, n + 1) = Total(p, n) + p[n + 1]
    BY <1>2, <2>1
  <2>3. CASE n = 0
    <3>1. Total(p, 0) = 0 /\ Total(q, 0) = 0 /\ p[n + 1] = 0
      BY <1>0, <1>1, <1>2, <2>3
    <3> QED BY <2>1, <2>2, <2>3, <3>1
  <2>4. CASE n # 0
    <3>1. n \in 1 .. Len(q) /\ n + 1 \in 2 .. Len(q)
      BY <1>0, <2>4
    <3>2. p[n + 1] = q[n]
      BY <2>1, <3>1
    <3>3. Total(p, n) = Total(q, n - 1) /\ Total(q, n) = Total(q, n - 1) + q[n]
      BY <1>0, <1>1, <1>4, <2>4, <3>1
    <3> QED BY <2>1, <2>2, <3>2, <3>3
  <2> QED BY <2>3, <2>4
<1>5. \A n \in 0 .. Len(q) : n \in T
  <2> HIDE DEF T
  <2> QED BY <1>0, <1>3, <1>4, UpTo
<1> QED BY <1>0, <1>5

\* One more call in this tick is one more in every stretch up to it.
LEMMA TotalCounted ==
  ASSUME NEW q \in Seq(Nat), Len(q) # 0,
         NEW p \in Seq(Nat), Len(p) = Len(q), p[1] = q[1] + 1,
         \A i \in 2 .. Len(q) : p[i] = q[i]
  PROVE  \A n \in 1 .. Len(q) : Total(p, n) = Total(q, n) + 1
<1>0. Len(q) \in Nat /\ 1 \in 1 .. Len(q) /\ q[1] \in Nat
  OBVIOUS
<1>1. \A n \in 0 .. Len(q) : Total(q, n) = IF n = 0 THEN 0 ELSE Total(q, n - 1) + q[n]
  BY TotalSteps
<1>2. \A n \in 0 .. Len(q) : Total(p, n) = IF n = 0 THEN 0 ELSE Total(p, n - 1) + p[n]
  BY TotalSteps
<1>n. \A n \in 0 .. Len(q) : Total(q, n) \in Nat
  BY TotalGrows
<1> DEFINE T == {n \in Nat : n = 0 \/ Total(p, n) = Total(q, n) + 1}
<1>3. 0 \in T
  OBVIOUS
<1>4. ASSUME NEW n \in 0 .. Len(q) - 1, n \in T PROVE n + 1 \in T
  <2>1. n + 1 \in 1 .. Len(q) /\ (n + 1) - 1 = n /\ n \in 0 .. Len(q) /\ q[n + 1] \in Nat
    BY <1>0
  <2>2. Total(p, n + 1) = Total(p, n) + p[n + 1] /\ Total(q, n + 1) = Total(q, n) + q[n + 1]
    BY <1>1, <1>2, <2>1
  <2>3. CASE n = 0
    <3>1. Total(p, 0) = 0 /\ Total(q, 0) = 0 /\ p[n + 1] = q[n + 1] + 1
      BY <1>0, <1>1, <1>2, <2>3
    <3> QED BY <2>1, <2>2, <2>3, <3>1
  <2>4. CASE n # 0
    <3>1. n + 1 \in 2 .. Len(q)
      BY <1>0, <2>4
    <3>2. p[n + 1] = q[n + 1] /\ Total(p, n) = Total(q, n) + 1
      BY <1>4, <2>4, <3>1
    <3>3. Total(q, n) \in Nat
      BY <1>n, <2>1
    <3> QED BY <2>1, <2>2, <3>2, <3>3
  <2> QED BY <2>3, <2>4
<1>5. \A n \in 0 .. Len(q) : n \in T
  <2> HIDE DEF T
  <2> QED BY <1>0, <1>3, <1>4, UpTo
<1> QED BY <1>0, <1>5
-----------------------------------------------------------------------------
(* The limit *)

Bucket == [live : BOOLEAN, count : Nat, resetIn : 0 .. RateWindow]

\* A bucket's own calls are those since it was made, no more than it counts and than
\* the limit; those before are of the last bucket, and no more than the limit either.
\* Between two buckets nothing has been let through in this tick yet.
Windowed(q, b) ==
  /\ q \in Seq(Nat) /\ Len(q) = RateWindow /\ b \in Bucket
  /\ b.resetIn = 0 => q[1] = 0 /\ Total(q, RateWindow) <= RateMax
  /\ b.resetIn # 0 =>
       /\ b.live
       /\ Total(q, RateWindow - b.resetIn + 1) <= RateMax
       /\ Total(q, RateWindow - b.resetIn + 1) <= b.count
       /\ Total(q, RateWindow) - Total(q, RateWindow - b.resetIn + 1) <= RateMax

Windows ==
  /\ DOMAIN passed = Tokens \union {None} /\ DOMAIN bucket = Tokens \union {None}
  /\ \A k \in Tokens \union {None} : Windowed(passed[k], bucket[k])

\* A window in order holds no more than the limit.
LEMMA WindowedBound ==
  ASSUME NEW q, NEW b, Windowed(q, b)
  PROVE  Total(q, RateWindow) <= 2 * RateMax
<1>1. /\ q \in Seq(Nat) /\ Len(q) = RateWindow
      /\ RateWindow \in Nat \ {0} /\ RateMax \in Nat \ {0} /\ b.resetIn \in 0 .. RateWindow
  BY AccessAssumption DEF Windowed, Bucket
<1>2. Total(q, RateWindow) \in Nat
  BY <1>1, TotalGrows
<1>3. CASE b.resetIn = 0
  BY <1>1, <1>2, <1>3 DEF Windowed
<1>4. CASE b.resetIn # 0
  <2>1. PICK n \in 1 .. RateWindow : n = RateWindow - b.resetIn + 1
    BY <1>1, <1>4
  <2>2. Total(q, n) \in Nat
    BY <1>1, TotalGrows
  <2>3. Total(q, n) <= RateMax /\ Total(q, RateWindow) - Total(q, n) <= RateMax
    BY <1>4, <2>1 DEF Windowed
  <2> QED BY <1>1, <1>2, <2>2, <2>3
<1> QED BY <1>3, <1>4

\* No window holds anything to begin with.
LEMMA WindowsInit == Init => Windows
<1> SUFFICES ASSUME Init PROVE Windows
  OBVIOUS
<1>1. RateWindow \in Nat \ {0} /\ RateMax \in Nat \ {0}
  BY AccessAssumption
<1>2. PICK q : q = [n \in 1 .. RateWindow |-> 0]
  OBVIOUS
<1>3. q \in Seq(Nat) /\ Len(q) = RateWindow /\ \A n \in 1 .. RateWindow : q[n] = 0
  BY <1>1, <1>2
<1>4. \A n \in 0 .. RateWindow : Total(q, n) = IF n = 0 THEN 0 ELSE Total(q, n - 1) + q[n]
  BY <1>3, TotalSteps
<1> DEFINE T == {n \in Nat : Total(q, n) = 0}
<1>5. 0 \in T
  BY <1>1, <1>4
<1>6. ASSUME NEW n \in 0 .. RateWindow - 1, n \in T PROVE n + 1 \in T
  <2>1. n + 1 \in 1 .. RateWindow /\ (n + 1) - 1 = n
    BY <1>1
  <2> QED BY <1>3, <1>4, <1>6, <2>1
<1>7. \A n \in 0 .. RateWindow : n \in T
  <2> HIDE DEF T
  <2> QED BY <1>1, <1>5, <1>6, UpTo
<1>8. Total(q, RateWindow) = 0
  BY <1>1, <1>7
<1>9. NoBucket \in Bucket /\ NoBucket.resetIn = 0
  BY <1>1 DEF NoBucket, Bucket
<1>10. Windowed(q, NoBucket)
  BY <1>1, <1>3, <1>8, <1>9 DEF Windowed
<1> QED BY <1>2, <1>10 DEF Windows, Init

\* One more call is counted, and let through within the limit.
LEMMA ChargedKeeps ==
  ASSUME NEW q, NEW b, Windowed(q, b), NEW p,
         IF Charged(b).count > RateMax THEN p = q ELSE p = [q EXCEPT ![1] = @ + 1]
  PROVE  Windowed(p, Charged(b))
<1>1. /\ q \in Seq(Nat) /\ Len(q) = RateWindow /\ b \in Bucket /\ b.count \in Nat
      /\ RateWindow \in Nat \ {0} /\ RateMax \in Nat \ {0} /\ b.resetIn \in 0 .. RateWindow
  BY AccessAssumption DEF Windowed, Bucket
<1>2. PICK c : c = CurrentBucket(b)
  OBVIOUS
\* The bucket in use is this one or a new one; either way it holds what it counts.
<1>3. /\ c \in Bucket /\ c.live /\ c.resetIn \in 1 .. RateWindow /\ c.count \in Nat
      /\ Total(q, RateWindow - c.resetIn + 1) <= RateMax
      /\ Total(q, RateWindow - c.resetIn + 1) <= c.count
      /\ Total(q, RateWindow) - Total(q, RateWindow - c.resetIn + 1) <= RateMax
  <2>1. CASE b.live /\ b.resetIn > 0
    <3>1. c = b
      BY <1>2, <2>1 DEF CurrentBucket
    <3> QED BY <1>1, <2>1, <3>1 DEF Windowed
  <2>2. CASE ~(b.live /\ b.resetIn > 0)
    <3>1. c = [live |-> TRUE, count |-> 0, resetIn |-> RateWindow]
      BY <1>2, <2>2 DEF CurrentBucket
    <3>2. c \in Bucket /\ c.live /\ c.resetIn = RateWindow /\ c.count = 0
      BY <1>1, <3>1 DEF Bucket
    <3>3. b.resetIn = 0
      BY <1>1, <2>2 DEF Windowed
    <3>4. q[1] = 0 /\ Total(q, RateWindow) <= RateMax
      BY <3>3 DEF Windowed
    <3>5. Total(q, 1) = 0
      <4>1. Total(q, 0) = 0 /\ Total(q, 1) = Total(q, 0) + q[1]
        <5>1. 0 \in 0 .. Len(q) /\ 1 \in 0 .. Len(q) /\ 1 - 1 = 0
          BY <1>1
        <5> QED BY <1>1, <5>1, TotalSteps
      <4> QED BY <3>4, <4>1
    <3>6. RateWindow - RateWindow + 1 = 1 /\ Total(q, RateWindow) \in Nat
      BY <1>1, TotalGrows
    <3> QED BY <1>1, <3>2, <3>4, <3>5, <3>6
  <2> QED BY <2>1, <2>2
<1>4. PICK count : count = Min({c.count + 1, RateMax + 1})
  OBVIOUS
<1>5. count = IF c.count + 1 <= RateMax + 1 THEN c.count + 1 ELSE RateMax + 1
  <2>1. CASE c.count + 1 <= RateMax + 1
    BY <1>1, <1>3, <1>4, <2>1 DEF Min
  <2>2. CASE ~(c.count + 1 <= RateMax + 1)
    BY <1>1, <1>3, <1>4, <2>2 DEF Min
  <2> QED BY <2>1, <2>2
<1>6. Charged(b) = [c EXCEPT !.count = count]
  BY <1>2, <1>3, <1>4 DEF Charged, Bucket
<1>7. PICK d : d = Charged(b)
  OBVIOUS
<1>8. d \in Bucket /\ d.live /\ d.resetIn = c.resetIn /\ d.count = count
  <2>1. count \in Nat
    BY <1>1, <1>3, <1>5
  <2>2. d = [c EXCEPT !.count = count]
    BY <1>6, <1>7
  <2> QED BY <1>3, <2>1, <2>2 DEF Bucket
<1>9. PICK n \in 1 .. RateWindow : n = RateWindow - c.resetIn + 1
  BY <1>1, <1>3
<1>10. Total(q, n) \in Nat /\ Total(q, RateWindow) \in Nat
  BY <1>1, TotalGrows
<1>11. CASE count > RateMax
  <2>1. p = q
    BY <1>7, <1>8, <1>11
  <2>2. Total(q, n) <= count
    <3>1. Total(q, n) <= RateMax
      BY <1>3, <1>9
    <3>2. PICK t \in Nat : t = Total(q, n)
      BY <1>10
    <3>3. count \in Nat /\ RateMax \in Nat
      <4>1. c.count \in Nat /\ RateMax \in Nat
        BY <1>1, <1>3
      <4> QED BY <1>5, <4>1
    <3>4. t <= count
      BY <1>11, <3>1, <3>2, <3>3
    <3> QED BY <3>2, <3>4
  <2> QED BY <1>1, <1>3, <1>7, <1>8, <1>9, <2>1, <2>2 DEF Windowed
<1>12. CASE ~(count > RateMax)
  <2>1. p = [q EXCEPT ![1] = @ + 1] /\ count = c.count + 1 /\ count <= RateMax
    BY <1>1, <1>3, <1>5, <1>7, <1>8, <1>12
  <2>2. /\ p \in Seq(Nat) /\ Len(p) = Len(q) /\ p[1] = q[1] + 1
        /\ \A i \in 2 .. Len(q) : p[i] = q[i]
    BY <1>1, <2>1
  <2>3. \A m \in 1 .. RateWindow : Total(p, m) = Total(q, m) + 1
    BY <1>1, <2>2, TotalCounted
  <2>4. /\ Total(p, n) = Total(q, n) + 1 /\ Total(p, RateWindow) = Total(q, RateWindow) + 1
    BY <1>1, <2>3
  <2>5. /\ Total(p, n) <= count /\ Total(p, n) <= RateMax
        /\ Total(p, RateWindow) - Total(p, n) <= RateMax
    <3>1. /\ Total(q, n) <= c.count /\ Total(q, RateWindow) - Total(q, n) <= RateMax
      BY <1>3, <1>9
    <3>2. c.count \in Nat /\ RateMax \in Nat
      BY <1>1, <1>3
    <3>3. PICK a \in Nat, z \in Nat : a = Total(q, n) /\ z = Total(q, RateWindow)
      BY <1>10
    <3>4. Total(p, n) = a + 1 /\ Total(p, RateWindow) = z + 1
      BY <2>4, <3>3
    <3>5. a <= c.count /\ z - a <= RateMax /\ (z + 1) - (a + 1) = z - a
      BY <3>1, <3>3
    <3> QED BY <2>1, <3>2, <3>4, <3>5
  <2> QED BY <1>1, <1>3, <1>7, <1>8, <1>9, <2>2, <2>5 DEF Windowed
<1> QED BY <1>11, <1>12

\* Time passes: the window moves on, and the bucket comes closer to its end.
LEMMA TickedKeeps ==
  ASSUME NEW q, NEW b, Windowed(q, b)
  PROVE  Windowed(<<0>> \o SubSeq(q, 1, RateWindow - 1), [b EXCEPT !.resetIn = Max({@ - 1, 0})])
<1>1. /\ q \in Seq(Nat) /\ Len(q) = RateWindow /\ b \in Bucket /\ b.count \in Nat
      /\ RateWindow \in Nat \ {0} /\ RateMax \in Nat \ {0} /\ b.resetIn \in 0 .. RateWindow
  BY AccessAssumption DEF Windowed, Bucket
<1>2. PICK p : p = <<0>> \o SubSeq(q, 1, RateWindow - 1)
  OBVIOUS
<1>3. /\ p \in Seq(Nat) /\ Len(p) = Len(q) /\ p[1] = 0
      /\ \A i \in 2 .. Len(q) : p[i] = q[i - 1]
  <2>1. PICK rest : rest = SubSeq(q, 1, RateWindow - 1)
    OBVIOUS
  <2>2. /\ rest \in Seq(Nat) /\ Len(rest) = RateWindow - 1
        /\ \A i \in 1 .. RateWindow - 1 : rest[i] = q[i]
    BY <1>1, <2>1
  <2>3. /\ p \in Seq(Nat) /\ Len(p) = 1 + Len(rest)
        /\ \A i \in 1 .. 1 + Len(rest) : p[i] = IF i <= 1 THEN <<0>>[i] ELSE rest[i - 1]
    <3>1. <<0>> \in Seq(Nat) /\ Len(<<0>>) = 1
      OBVIOUS
    <3> QED BY <1>2, <2>1, <2>2, <3>1, ConcatProperties
  <2>4. Len(p) = Len(q)
    BY <1>1, <2>2, <2>3
  <2>5. p[1] = 0
    <3>1. 1 \in 1 .. 1 + Len(rest) /\ 1 <= 1
      BY <1>1, <2>2
    <3> QED BY <2>3, <3>1
  <2>6. ASSUME NEW i \in 2 .. Len(q) PROVE p[i] = q[i - 1]
    <3>1. i \in 1 .. 1 + Len(rest) /\ ~(i <= 1) /\ i - 1 \in 1 .. RateWindow - 1
      BY <1>1, <2>2
    <3> QED BY <2>2, <2>3, <3>1
  <2> QED BY <2>3, <2>4, <2>5, <2>6
<1>4. \A m \in 1 .. RateWindow : Total(p, m) = Total(q, m - 1)
  BY <1>1, <1>3, TotalAged
<1>5. \A m \in 0 .. RateWindow : Total(q, m) \in Nat /\ Total(q, m) <= Total(q, RateWindow)
  BY <1>1, TotalGrows
<1>6. PICK r : r = Max({b.resetIn - 1, 0})
  OBVIOUS
<1>7. r = IF b.resetIn = 0 THEN 0 ELSE b.resetIn - 1
  <2>1. CASE b.resetIn = 0
    BY <1>6, <2>1 DEF Max
  <2>2. CASE b.resetIn # 0
    BY <1>1, <1>6, <2>2 DEF Max
  <2> QED BY <2>1, <2>2
<1>8. PICK d : d = [b EXCEPT !.resetIn = r]
  OBVIOUS
<1>9. d \in Bucket /\ d.resetIn = r /\ d.live = b.live /\ d.count = b.count
  BY <1>1, <1>7, <1>8 DEF Bucket
<1>10. Total(p, RateWindow) = Total(q, RateWindow - 1) /\ RateWindow - 1 \in 0 .. RateWindow
  BY <1>1, <1>4
<1>11. Total(q, RateWindow - 1) \in Nat /\ Total(q, RateWindow) \in Nat
       /\ Total(q, RateWindow - 1) <= Total(q, RateWindow)
  BY <1>1, <1>5, <1>10
<1>12. CASE r = 0
  <2>1. Total(q, RateWindow) <= RateMax
    <3>1. CASE b.resetIn = 0
      BY <3>1 DEF Windowed
    <3>2. CASE b.resetIn # 0
      <4>1. RateWindow - b.resetIn + 1 = RateWindow
        BY <1>1, <1>7, <1>12, <3>2
      <4> QED BY <3>2, <4>1 DEF Windowed
    <3> QED BY <3>1, <3>2
  <2>2. Total(p, RateWindow) <= RateMax
    BY <1>1, <1>10, <1>11, <2>1
  <2>3. Windowed(p, d)
    BY <1>1, <1>3, <1>9, <1>12, <2>2 DEF Windowed
  <2> QED BY <1>2, <1>6, <1>8, <2>3
<1>13. CASE r # 0
  <2>1. PICK n \in 1 .. RateWindow : n = RateWindow - b.resetIn + 1
    BY <1>1, <1>7, <1>13
  <2>r. PICK left \in 1 .. RateWindow : left = b.resetIn
    BY <1>1, <1>7, <1>13
  <2>2. RateWindow - r + 1 = n + 1 /\ n + 1 \in 1 .. RateWindow /\ (n + 1) - 1 = n
        /\ b.resetIn # 0
    <3>1. r = left - 1 /\ left # 1 /\ n = RateWindow - left + 1 /\ RateWindow \in Nat
      BY <1>1, <1>7, <1>13, <2>1, <2>r
    <3> QED BY <2>r, <3>1
  <2>3. Total(p, RateWindow - r + 1) = Total(q, n)
    BY <1>4, <2>2
  <2>4. /\ b.live /\ Total(q, n) <= RateMax /\ Total(q, n) <= b.count
        /\ Total(q, RateWindow) - Total(q, n) <= RateMax
    BY <2>1, <2>2 DEF Windowed
  <2>5. Total(q, n) \in Nat
    BY <1>5, <2>1
  <2>6. Total(p, RateWindow) - Total(p, RateWindow - r + 1) <= RateMax
    BY <1>1, <1>10, <1>11, <2>3, <2>4, <2>5
  <2>7. Windowed(p, d)
    BY <1>1, <1>3, <1>9, <1>13, <2>3, <2>4, <2>6 DEF Windowed
  <2> QED BY <1>2, <1>6, <1>8, <2>7
<1> QED BY <1>12, <1>13

\* Every step keeps the windows in order.
LEMMA NextWindows == IInv /\ Windows /\ [Next]_vars => Windows'
<1> SUFFICES ASSUME IInv, Windows, [Next]_vars PROVE Windows'
  OBVIOUS
<1>0. /\ DOMAIN passed = Tokens \union {None} /\ DOMAIN bucket = Tokens \union {None}
      /\ \A k \in Tokens \union {None} : Windowed(passed[k], bucket[k])
  BY DEF Windows
<1>1. ASSUME NEW s \in Slots, CheckLimit(s) PROVE Windows'
  <2>1. PICK k : k = BucketKey(s)
    OBVIOUS
  <2>2. k \in Tokens \union {None}
    <3>1. req[s].token \in Tokens \union {None}
      BY DEF IInv, Shape, RequestRecord
    <3> QED BY <2>1, <3>1 DEF BucketKey
  <2>3. /\ bucket' = [bucket EXCEPT ![k] = Charged(bucket[k])]
        /\ IF bucket'[k].count > RateMax THEN passed' = passed
           ELSE passed' = [passed EXCEPT ![k][1] = @ + 1]
    BY <1>1, <2>1 DEF CheckLimit
  <2>4. bucket'[k] = Charged(bucket[k])
    BY <1>0, <2>2, <2>3
  <2>5. /\ DOMAIN passed' = DOMAIN passed
        /\ \A j \in DOMAIN passed : j # k => passed'[j] = passed[j]
        /\ IF Charged(bucket[k]).count > RateMax THEN passed'[k] = passed[k]
           ELSE passed'[k] = [passed[k] EXCEPT ![1] = @ + 1]
    BY <1>0, <2>2, <2>3, <2>4
  <2>6. Windowed(passed'[k], bucket'[k])
    BY <1>0, <2>2, <2>4, <2>5, ChargedKeeps
  <2>7. /\ DOMAIN bucket' = DOMAIN bucket
        /\ \A j \in DOMAIN bucket : j # k => bucket'[j] = bucket[j]
    BY <2>3
  <2>8. \A j \in Tokens \union {None} : Windowed(passed'[j], bucket'[j])
    BY <1>0, <2>5, <2>6, <2>7
  <2> QED BY <1>0, <2>5, <2>7, <2>8 DEF Windows
<1>2. CASE Cleanup
  <2>1. /\ DOMAIN bucket' = DOMAIN bucket /\ passed' = passed
        /\ \A k \in DOMAIN bucket : bucket'[k] = Swept(bucket[k])
    BY <1>2 DEF Cleanup
  <2>2. ASSUME NEW k \in Tokens \union {None} PROVE Windowed(passed'[k], bucket'[k])
    <3>1. CASE bucket[k].live /\ bucket[k].resetIn = 0
      <4>1. NoBucket \in Bucket /\ NoBucket.resetIn = 0
        BY AccessAssumption DEF NoBucket, Bucket
      <4>2. bucket'[k] = NoBucket
        BY <1>0, <2>1, <3>1 DEF Swept
      <4>3. Windowed(passed[k], bucket[k])
        BY <1>0
      <4> QED BY <2>1, <3>1, <4>1, <4>2, <4>3 DEF Windowed
    <3>2. CASE ~(bucket[k].live /\ bucket[k].resetIn = 0)
      BY <1>0, <2>1, <3>2 DEF Swept
    <3> QED BY <3>1, <3>2
  <2> QED BY <1>0, <2>1, <2>2 DEF Windows
<1>3. CASE Tick
  <2>1. /\ DOMAIN bucket' = DOMAIN bucket /\ DOMAIN passed' = DOMAIN passed
        /\ \A k \in DOMAIN bucket :
             bucket'[k] = [bucket[k] EXCEPT !.resetIn = Max({@ - 1, 0})]
        /\ \A k \in DOMAIN passed :
             passed'[k] = <<0>> \o SubSeq(passed[k], 1, RateWindow - 1)
    BY <1>3 DEF Tick
  <2>2. ASSUME NEW k \in Tokens \union {None} PROVE Windowed(passed'[k], bucket'[k])
    <3>1. Windowed(passed[k], bucket[k])
      BY <1>0
    <3>2. Windowed(<<0>> \o SubSeq(passed[k], 1, RateWindow - 1),
                   [bucket[k] EXCEPT !.resetIn = Max({@ - 1, 0})])
      BY ONLY <3>1, TickedKeeps
    <3> QED BY <1>0, <2>1, <3>2
  <2> QED BY <1>0, <2>1, <2>2 DEF Windows
<1>4. CASE UNCHANGED <<bucket, passed>>
  BY <1>0, <1>4 DEF Windows
<1> QED
  BY <1>1, <1>2, <1>3, <1>4
  DEF Next, Gate, Serve, Arrive, Introspected, IntrospectionFails, Settle, Verified, Loaded,
      Enter, Guarded, ReadResource, MatchThrows, GetPrompt, Complete, Starts, Ends, Respond, Over,
      Register, Unregister, vars

\* Calls are let through in buckets that start with the first of them: in any stretch
\* as long as the window they are of two buckets at most, whatever is swept meanwhile
\* (RateLimiterService.checkLimit and its cleanup).
THEOREM LimitHolds == Spec => []WindowsBound
<1>1. Windows => WindowsBound
  BY WindowedBound DEF Windows, WindowsBound
<1> QED BY <1>1, InitKeeps, NextKeeps, WindowsInit, NextWindows, PTL DEF Spec

(***************************************************************************)
(* Names put together and taken apart                                      *)
(***************************************************************************)
\* The parts of three sequences in a row.
Parts(text, p, q, r) ==
  /\ Len(text) = Len(p) + Len(q) + Len(r)
  /\ \A i \in 1 .. Len(p) : text[i] = p[i]
  /\ \A i \in 1 .. Len(q) : text[Len(p) + i] = q[i]
  /\ \A i \in 1 .. Len(r) : text[Len(p) + Len(q) + i] = r[i]

\* Three sequences in a row have these parts.
LEMMA PartsAre ==
  ASSUME NEW S, NEW p \in Seq(S), NEW q \in Seq(S), NEW r \in Seq(S)
  PROVE  (p \o q) \o r \in Seq(S) /\ Parts((p \o q) \o r, p, q, r)
<1>1. PICK w : w = p \o q
  OBVIOUS
<1>2. /\ w \in Seq(S) /\ Len(w) = Len(p) + Len(q)
      /\ \A i \in 1 .. Len(p) + Len(q) : w[i] = IF i <= Len(p) THEN p[i] ELSE q[i - Len(p)]
  BY <1>1, ConcatProperties
<1>3. PICK t : t = w \o r
  OBVIOUS
<1>4. /\ t \in Seq(S) /\ Len(t) = Len(w) + Len(r)
      /\ \A i \in 1 .. Len(w) + Len(r) : t[i] = IF i <= Len(w) THEN w[i] ELSE r[i - Len(w)]
  <2>1. w \in Seq(S)
    BY <1>2
  <2>2. /\ w \o r \in Seq(S) /\ Len(w \o r) = Len(w) + Len(r)
        /\ \A i \in 1 .. Len(w) + Len(r) : (w \o r)[i] = IF i <= Len(w) THEN w[i] ELSE r[i - Len(w)]
    BY <2>1, ConcatProperties
  <2> QED BY <1>3, <2>2
<1>5. Len(p) \in Nat /\ Len(q) \in Nat /\ Len(r) \in Nat
  OBVIOUS
<1>6. ASSUME NEW i \in 1 .. Len(p) PROVE t[i] = p[i]
  <2>1. i \in 1 .. Len(w) + Len(r) /\ i <= Len(w) /\ i \in 1 .. Len(p) + Len(q) /\ i <= Len(p)
    BY <1>2, <1>5
  <2> QED BY <1>2, <1>4, <2>1
<1>7. ASSUME NEW i \in 1 .. Len(q) PROVE t[Len(p) + i] = q[i]
  <2>1. /\ Len(p) + i \in 1 .. Len(w) + Len(r) /\ Len(p) + i <= Len(w)
        /\ Len(p) + i \in 1 .. Len(p) + Len(q) /\ ~(Len(p) + i <= Len(p))
        /\ Len(p) + i - Len(p) = i
    BY <1>2, <1>5
  <2>2. t[Len(p) + i] = w[Len(p) + i] /\ w[Len(p) + i] = q[i]
    BY <1>2, <1>4, <2>1
  <2> QED BY <2>2
<1>8. ASSUME NEW i \in 1 .. Len(r) PROVE t[Len(p) + Len(q) + i] = r[i]
  <2>1. /\ Len(p) + Len(q) + i \in 1 .. Len(w) + Len(r) /\ ~(Len(p) + Len(q) + i <= Len(w))
        /\ Len(p) + Len(q) + i - Len(w) = i
    BY <1>2, <1>5
  <2> QED BY <1>4, <2>1
<1>9. Len(t) = Len(p) + Len(q) + Len(r)
  BY <1>2, <1>4, <1>5
<1> QED BY <1>1, <1>3, <1>4, <1>6, <1>7, <1>8, <1>9 DEF Parts

\* What is before a separator is the only start of the text that ends there.
LEMMA BeforeOnly ==
  ASSUME NEW S, NEW text \in Seq(S), NEW separator, NEW b \in Seq(S), Len(b) <= Len(text),
         \A i \in 1 .. Len(b) : b[i] = text[i] /\ b[i] # separator,
         Len(b) < Len(text) => text[Len(b) + 1] = separator
  PROVE  Before(text, separator) = b
<1>1. PICK c : c = Before(text, separator)
  OBVIOUS
<1>2. /\ c \in Seq(S) /\ Len(c) <= Len(text)
      /\ \A i \in 1 .. Len(c) : c[i] = text[i] /\ text[i] # separator
      /\ Len(c) < Len(text) => text[Len(c) + 1] = separator
  BY <1>1, BeforeIs
<1>3. Len(b) \in Nat /\ Len(c) \in Nat /\ Len(text) \in Nat
  BY <1>2
<1>4. ~(Len(c) < Len(b))
  <2> SUFFICES ASSUME Len(c) < Len(b) PROVE FALSE
    OBVIOUS
  <2>1. Len(c) + 1 \in 1 .. Len(b) /\ Len(c) < Len(text)
    BY <1>3
  <2> QED BY <1>2, <2>1
<1>5. ~(Len(b) < Len(c))
  <2> SUFFICES ASSUME Len(b) < Len(c) PROVE FALSE
    OBVIOUS
  <2>1. Len(b) + 1 \in 1 .. Len(c) /\ Len(b) < Len(text)
    BY <1>2, <1>3
  <2> QED BY <1>2, <2>1
<1>6. Len(b) = Len(c) /\ \A i \in 1 .. Len(b) : b[i] = c[i]
  BY <1>2, <1>3, <1>4, <1>5
<1>7. b = c
  BY <1>2, <1>3, <1>6
<1> QED BY <1>1, <1>7

\* Without a separator it is the whole text.
LEMMA BeforeNone ==
  ASSUME NEW S, NEW text \in Seq(S), NEW separator, separator \notin ToSet(text)
  PROVE  Before(text, separator) = text
<1>1. \A i \in 1 .. Len(text) : text[i] # separator
  BY DEF ToSet
<1>2. Len(text) \in Nat
  OBVIOUS
<1> QED BY <1>1, <1>2, BeforeOnly

\* What follows the separator has no say in what is before it.
LEMMA BeforeJoin ==
  ASSUME NEW S, NEW p \in Seq(S), NEW separator \in S, NEW q \in Seq(S)
  PROVE  Before((p \o <<separator>>) \o q, separator) = Before(p, separator)
<1>1. PICK m \in Seq(S) : m = <<separator>> /\ Len(m) = 1 /\ m[1] = separator
  <2>1. <<separator>> \in Seq(S) /\ Len(<<separator>>) = 1 /\ <<separator>>[1] = separator
    OBVIOUS
  <2> QED BY <2>1
<1>2. PICK t : t = (p \o m) \o q
  OBVIOUS
<1>3. t \in Seq(S) /\ Parts(t, p, m, q)
  BY <1>2, PartsAre
<1>4. PICK b : b = Before(p, separator)
  OBVIOUS
<1>5. /\ b \in Seq(S) /\ Len(b) <= Len(p)
      /\ \A i \in 1 .. Len(b) : b[i] = p[i] /\ p[i] # separator
      /\ Len(b) < Len(p) => p[Len(b) + 1] = separator
  BY <1>4, BeforeIs
<1>6. Len(b) \in Nat /\ Len(p) \in Nat /\ Len(q) \in Nat /\ Len(t) = Len(p) + 1 + Len(q)
  BY <1>1, <1>3, <1>5 DEF Parts
<1>7. \A i \in 1 .. Len(b) : b[i] = t[i] /\ b[i] # separator
  <2>1. \A i \in 1 .. Len(b) : i \in 1 .. Len(p)
    BY <1>5, <1>6
  <2> QED BY <1>3, <1>5, <2>1 DEF Parts
<1>8. t[Len(b) + 1] = separator
  <2>1. CASE Len(b) < Len(p)
    <3>1. Len(b) + 1 \in 1 .. Len(p)
      BY <1>6, <2>1
    <3> QED BY <1>3, <1>5, <2>1, <3>1 DEF Parts
  <2>2. CASE Len(b) = Len(p)
    <3>1. 1 \in 1 .. Len(m)
      BY <1>1
    <3> QED BY <1>1, <1>3, <2>2, <3>1 DEF Parts
  <2> QED BY <1>5, <1>6, <2>1, <2>2
<1>9. Before(t, separator) = b
  <2>1. t \in Seq(S) /\ b \in Seq(S) /\ Len(b) <= Len(t)
    BY <1>3, <1>5, <1>6
  <2> QED BY <1>7, <1>8, <2>1, BeforeOnly
<1> QED BY <1>1, <1>2, <1>4, <1>9

\* A text without the separator, put before one, is found again, and what follows too.
LEMMA TakenApart ==
  ASSUME NEW S, NEW p \in Seq(S), NEW separator \in S, NEW q \in Seq(S), separator \notin ToSet(p)
  PROVE  LET text == (p \o <<separator>>) \o q IN
         /\ text \in Seq(S) /\ Contains(text, separator)
         /\ Before(text, separator) = p /\ After(text, separator) = q
<1>1. PICK m \in Seq(S) : m = <<separator>> /\ Len(m) = 1 /\ m[1] = separator
  <2>1. <<separator>> \in Seq(S) /\ Len(<<separator>>) = 1 /\ <<separator>>[1] = separator
    OBVIOUS
  <2> QED BY <2>1
<1>2. PICK t : t = (p \o m) \o q
  OBVIOUS
<1>3. t \in Seq(S) /\ Parts(t, p, m, q)
  BY <1>2, PartsAre
<1>4. Before(t, separator) = p
  BY <1>1, <1>2, BeforeJoin, BeforeNone
<1> DEFINE I == {i \in 1 .. Len(t) : t[i] = separator}
<1>5. Len(p) \in Nat /\ Len(q) \in Nat /\ Len(t) = Len(p) + 1 + Len(q)
  BY <1>1, <1>3 DEF Parts
<1>6. Len(p) + 1 \in I
  <2>1. 1 \in 1 .. Len(m)
    BY <1>1
  <2>2. t[Len(p) + 1] = separator
    BY <1>1, <1>3, <2>1 DEF Parts
  <2> QED BY <1>5, <2>2
<1>7. \A i \in I : ~(i < Len(p) + 1)
  <2> SUFFICES ASSUME NEW i \in I, i < Len(p) + 1 PROVE FALSE
    OBVIOUS
  <2>1. i \in 1 .. Len(p)
    BY <1>5
  <2>2. p[i] = separator
    BY <1>3, <2>1 DEF Parts
  <2> QED BY <2>1, <2>2 DEF ToSet
<1>8. Min(I) = Len(p) + 1
  <2>1. I \in SUBSET (1 .. Len(t)) /\ Len(t) \in Nat
    BY <1>5
  <2>2. Min(I) \in I /\ \A i \in I : Min(I) <= i
    <3> HIDE DEF I
    <3> QED BY <1>6, <2>1, Least
  <2>3. Min(I) <= Len(p) + 1 /\ ~(Min(I) < Len(p) + 1) /\ Min(I) \in Nat
    <3>1. Min(I) \in Nat
      BY <2>1, <2>2
    <3> HIDE DEF I
    <3> QED BY <1>6, <1>7, <2>2, <3>1
  <2> HIDE DEF I
  <2> QED BY <1>5, <2>3
<1>9. Contains(t, separator)
  BY <1>6 DEF Contains
<1>10. After(t, separator) = SubSeq(t, (Len(p) + 1) + 1, Len(t))
  <2>1. SelectInSeq(t, LAMBDA e : e = separator) = Min(I)
    BY <1>6 DEF SelectInSeq
  <2> HIDE DEF I
  <2> QED BY <1>8, <1>9, <2>1 DEF After
<1>11. SubSeq(t, (Len(p) + 1) + 1, Len(t)) = q
  <2>1. PICK r : r = SubSeq(t, (Len(p) + 1) + 1, Len(t))
    OBVIOUS
  <2>2. r \in Seq(S) /\ Len(r) = Len(q) /\ \A i \in 1 .. Len(q) : r[i] = t[(Len(p) + 1) + 1 + i - 1]
    BY <1>3, <1>5, <2>1
  <2>4. q \in Seq(S) /\ DOMAIN r = 1 .. Len(q) /\ DOMAIN q = 1 .. Len(q)
    BY <2>2
  <2>3. ASSUME NEW i \in 1 .. Len(q) PROVE r[i] = q[i]
    <3>1. (Len(p) + 1) + 1 + i - 1 = Len(p) + Len(m) + i
      BY <1>1, <1>5
    <3> QED BY <1>3, <2>2, <3>1 DEF Parts
  <2>5. r = q
    BY <2>2, <2>3, <2>4
  <2> QED BY <2>1, <2>5
<1> QED BY <1>1, <1>2, <1>3, <1>4, <1>9, <1>10, <1>11

\* What is left of the first n elements.
LEMMA WithoutSteps ==
  ASSUME NEW S, NEW s \in Seq(S), NEW gone
  PROVE  \E f : /\ f[0] = <<>>
                /\ \A n \in 1 .. Len(s) :
                     f[n] = IF s[n] \in gone THEN f[n - 1] ELSE Append(f[n - 1], s[n])
                /\ Without(s, gone) = f[Len(s)]
<1> DEFINE step(f, n) == IF n = 0 THEN <<>>
                         ELSE IF s[n] \in gone THEN f[n - 1] ELSE Append(f[n - 1], s[n])
           built(f, m) == f = [n \in 0 .. m |-> step(f, n)]
           T == {m \in Nat : \E f : built(f, m)}
<1>1. 0 \in T
  <2>1. built([n \in 0 .. 0 |-> <<>>], 0)
    OBVIOUS
  <2> QED BY <2>1
<1>2. ASSUME NEW m \in 0 .. Len(s) - 1, m \in T PROVE m + 1 \in T
  <2>1. PICK f : built(f, m)
    BY <1>2
  <2> DEFINE g == [n \in 0 .. m + 1 |-> IF n = m + 1 THEN step(f, m + 1) ELSE f[n]]
  <2>2. \A n \in 0 .. m + 1 : g[n] = step(g, n)
    <3>1. \A n \in 0 .. m : f[n] = step(f, n)
      BY <2>1
    <3>2. \A n \in 0 .. m : g[n] = f[n]
      OBVIOUS
    <3>3. ASSUME NEW n \in 0 .. m PROVE step(g, n) = step(f, n)
      <4>1. n # 0 => n - 1 \in 0 .. m
        OBVIOUS
      <4> QED BY <3>2, <4>1
    <3>4. step(g, m + 1) = step(f, m + 1) /\ g[m + 1] = step(f, m + 1)
      <4>1. m + 1 # 0 /\ (m + 1) - 1 \in 0 .. m
        OBVIOUS
      <4> QED BY <3>2, <4>1
    <3>5. \A n \in 0 .. m + 1 : n \in 0 .. m \/ n = m + 1
      OBVIOUS
    <3> QED BY <3>1, <3>2, <3>3, <3>4, <3>5
  <2>3. \E f1 : built(f1, m + 1)
    BY <2>2
  <2>4. m + 1 \in Nat
    OBVIOUS
  <2> QED BY <2>3, <2>4
<1>3. \A m \in 0 .. Len(s) : m \in T
  <2> HIDE DEF T
  <2>1. Len(s) \in Nat
    OBVIOUS
  <2> QED BY <1>1, <1>2, <2>1, UpTo
<1>4. \E f : built(f, Len(s))
  BY <1>3
<1> DEFINE F == CHOOSE f : built(f, Len(s))
<1>5. built(F, Len(s))
  BY <1>4
<1>6. Without(s, gone) = F[Len(s)]
  BY DEF Without
<1> HIDE DEF F
<1>7. \A n \in 0 .. Len(s) : F[n] = step(F, n)
  BY <1>5
<1> QED BY <1>6, <1>7

\* Taking out leaves a sequence over the same set.
LEMMA WithoutTyped ==
  ASSUME NEW S, NEW s \in Seq(S), NEW gone
  PROVE  Without(s, gone) \in Seq(S)
<1>1. PICK f : /\ f[0] = <<>>
               /\ \A n \in 1 .. Len(s) :
                    f[n] = IF s[n] \in gone THEN f[n - 1] ELSE Append(f[n - 1], s[n])
               /\ Without(s, gone) = f[Len(s)]
  BY WithoutSteps
<1> DEFINE T == {n \in Nat : f[n] \in Seq(S)}
<1>2. 0 \in T
  <2>1. <<>> \in Seq(S)
    OBVIOUS
  <2> QED BY <1>1, <2>1
<1>3. ASSUME NEW n \in 0 .. Len(s) - 1, n \in T PROVE n + 1 \in T
  <2>1. n + 1 \in 1 .. Len(s) /\ (n + 1) - 1 = n /\ n + 1 \in Nat /\ s[n + 1] \in S
    OBVIOUS
  <2>2. PICK q \in Seq(S) : q = f[n]
    BY <1>3
  <2>3. f[n + 1] = IF s[n + 1] \in gone THEN q ELSE Append(q, s[n + 1])
    BY <1>1, <2>1, <2>2
  <2>4. Append(q, s[n + 1]) \in Seq(S)
    BY <2>1, <2>2
  <2> QED BY <2>1, <2>2, <2>3, <2>4
<1>4. Len(s) \in T
  <2> HIDE DEF T
  <2>1. Len(s) \in Nat /\ Len(s) \in 0 .. Len(s)
    OBVIOUS
  <2> QED BY <1>2, <1>3, <2>1, UpTo
<1> QED BY <1>1, <1>4

\* A sequence without repetitions gets a new element.
LEMMA AppendedOnce ==
  ASSUME NEW S, NEW q \in Seq(S), IsInjective(q), NEW x \in S, x \notin ToSet(q)
  PROVE  /\ Append(q, x) \in Seq(S)
         /\ IsInjective(Append(q, x))
         /\ ToSet(Append(q, x)) = ToSet(q) \union {x}
<1> PICK r : r = Append(q, x)
  OBVIOUS
<1>1. /\ r \in Seq(S) /\ Len(r) = Len(q) + 1 /\ r[Len(q) + 1] = x
      /\ \A j \in 1..Len(q) : r[j] = q[j]
  BY AppendProperties
<1>2. \A a, b \in 1..Len(q) : q[a] = q[b] => a = b
  BY DEF IsInjective
<1>3. \A a \in 1..Len(q) : q[a] # x
  BY DEF ToSet
<1>4. IsInjective(r)
  BY <1>1, <1>2, <1>3 DEF IsInjective
<1>5. ToSet(r) = ToSet(q) \union {x}
  BY <1>1 DEF ToSet
<1> QED BY <1>1, <1>4, <1>5

\* Of elements that occur once, those that are not gone are left, and once.
LEMMA WithoutOnce ==
  ASSUME NEW S, NEW s \in Seq(S), IsInjective(s), NEW gone
  PROVE  /\ Without(s, gone) \in Seq(S)
         /\ Len(Without(s, gone)) <= Len(s)
         /\ IsInjective(Without(s, gone))
         /\ ToSet(Without(s, gone)) = ToSet(s) \ gone
<1>1. PICK f : /\ f[0] = <<>>
               /\ \A n \in 1 .. Len(s) :
                    f[n] = IF s[n] \in gone THEN f[n - 1] ELSE Append(f[n - 1], s[n])
               /\ Without(s, gone) = f[Len(s)]
  BY WithoutSteps
<1> DEFINE First(n) == {s[j] : j \in 1 .. n}
           Left(q, n) == /\ q \in Seq(S) /\ Len(q) <= n /\ IsInjective(q)
                         /\ ToSet(q) = First(n) \ gone
           T == {n \in Nat : Left(f[n], n)}
<1>2. 0 \in T
  <2>1. Left(<<>>, 0)
    BY DEF IsInjective, ToSet
  <2> QED BY <1>1, <2>1
<1>3. ASSUME NEW n \in 0 .. Len(s) - 1, n \in T PROVE n + 1 \in T
  <2>1. /\ n + 1 \in 1 .. Len(s) /\ (n + 1) - 1 = n /\ n + 1 \in Nat /\ n \in Nat
        /\ s[n + 1] \in S
    OBVIOUS
  <2>2. First(n + 1) = First(n) \union {s[n + 1]} /\ s[n + 1] \notin First(n)
    BY <2>1 DEF IsInjective
  <2>3. PICK q : q = f[n]
    OBVIOUS
  <2>4. Left(q, n)
    BY <1>3, <2>3
  <2> HIDE DEF First
  <2>5. CASE s[n + 1] \in gone
    <3>1. f[n + 1] = q
      BY <1>1, <2>1, <2>3, <2>5
    <3>2. Left(q, n + 1)
      BY <2>1, <2>2, <2>4, <2>5
    <3> QED BY <2>1, <3>1, <3>2
  <2>6. CASE s[n + 1] \notin gone
    <3>1. f[n + 1] = Append(q, s[n + 1])
      BY <1>1, <2>1, <2>3, <2>6
    <3>2. PICK r : r = Append(q, s[n + 1])
      OBVIOUS
    <3>3. s[n + 1] \notin ToSet(q)
      BY <2>2, <2>4
    <3>4. r \in Seq(S) /\ IsInjective(r) /\ ToSet(r) = ToSet(q) \union {s[n + 1]}
      BY <2>1, <2>4, <3>2, <3>3, AppendedOnce
    <3>5. Len(r) <= n + 1
      BY <2>1, <2>4, <3>2, AppendProperties
    <3>6. Left(r, n + 1)
      BY <2>2, <2>4, <2>6, <3>4, <3>5
    <3> QED BY <2>1, <3>1, <3>2, <3>6
  <2> QED BY <2>5, <2>6
<1>4. Len(s) \in Nat /\ Len(s) \in 0 .. Len(s)
  OBVIOUS
<1>5. Len(s) \in T
  <2> HIDE DEF T
  <2> QED BY <1>2, <1>3, <1>4, UpTo
<1>6. First(Len(s)) = ToSet(s)
  BY DEF ToSet
<1> QED BY <1>1, <1>5, <1>6

(***************************************************************************)
(* Upstreams and what they are called                                      *)
(***************************************************************************)
ConfigRecord == [name : Names, prefix : Seq(Words), enabled : BOOLEAN]

EnabledNames == {c.name : c \in ToSet(Enabled)}

\* An item of a kind as its upstream offers it.
OfferedBy(u, kind) == {Item(kind, u, original) : original \in ToSet(Offers[u][kind])}
Offered(kind) == UNION {OfferedBy(u, kind) : u \in EnabledNames}

\* What is known of the configurations that are enabled.
LEMMA EnabledTyped ==
  ASSUME upstreams \in Configs
  PROVE  /\ Enabled \in Seq(ConfigRecord) /\ DOMAIN Enabled = 1 .. Len(Enabled) /\ Len(Enabled) \in Nat
         /\ \A n \in 1 .. Len(Enabled) : Enabled[n] \in ConfigRecord /\ Enabled[n].name \in EnabledNames
         /\ \A u \in EnabledNames : u \in Names /\ \E n \in 1 .. Len(Enabled) : Enabled[n].name = u
<1>1. upstreams \in Seq(ConfigRecord)
  BY GatewayCatalogAssumption DEF ConfigRecord
<1>2. PICK e : e = Enabled
  OBVIOUS
<1>3. e \in Seq(ConfigRecord)
  BY <1>1, <1>2, WithoutTyped DEF Enabled
<1>4. DOMAIN e = 1 .. Len(e) /\ Len(e) \in Nat /\ \A n \in 1 .. Len(e) : e[n] \in ConfigRecord
  BY <1>3
<1>5. EnabledNames = {e[n].name : n \in 1 .. Len(e)}
  BY <1>2, <1>4 DEF EnabledNames, ToSet
<1>6. \A n \in 1 .. Len(e) : e[n].name \in Names
  BY <1>4 DEF ConfigRecord
<1> QED BY <1>2, <1>3, <1>4, <1>5, <1>6

\* A name is under the prefix of an enabled configuration of that name.
LEMMA PrefixIs ==
  ASSUME upstreams \in Configs, NEW u \in EnabledNames
  PROVE  /\ PrefixOf(u) \in Seq(Words)
         /\ \E n \in 1 .. Len(Enabled) : Enabled[n].name = u /\ Enabled[n].prefix = PrefixOf(u)
<1>1. PICK e : e = Enabled
  OBVIOUS
<1>2. /\ e \in Seq(ConfigRecord) /\ Len(e) \in Nat
      /\ \A n \in 1 .. Len(e) : e[n] \in ConfigRecord
      /\ \E n \in 1 .. Len(e) : e[n].name = u
  BY <1>1, EnabledTyped
<1> DEFINE I == {i \in 1 .. Len(e) : e[i].name = u}
<1>3. PrefixOf(u) = e[Max(I)].prefix
  <2>1. I # {}
    BY <1>2
  <2> QED BY <1>1, <2>1 DEF PrefixOf, SelectLastInSeq
<1>4. Max(I) \in I
  <2>1. I # {} /\ I \in SUBSET (1 .. Len(e))
    BY <1>2
  <2> HIDE DEF I
  <2> QED BY <1>2, <2>1, Greatest
<1>5. PICK n \in 1 .. Len(e) : n = Max(I) /\ e[n].name = u
  BY <1>4
<1>6. PrefixOf(u) = e[n].prefix
  <2> HIDE DEF I
  <2> QED BY <1>3, <1>5
<1>7. e[n].prefix \in Seq(Words)
  BY <1>2 DEF ConfigRecord
<1> QED BY <1>1, <1>5, <1>6, <1>7

\* Under a prefix, if every upstream has one.
LEMMA PrefixedIs ==
  ASSUME upstreams \in Configs, NEW u \in EnabledNames, Prefixed
  PROVE  PrefixOf(u) # <<>>
<1>1. PICK n \in 1 .. Len(Enabled) : Enabled[n].prefix = PrefixOf(u)
  BY PrefixIs
<1>2. n \in DOMAIN Enabled
  BY EnabledTyped
<1> QED BY <1>1, <1>2 DEF Prefixed

\* What is between a prefix and a name.
LEMMA SeparatorIs ==
  ASSUME NEW kind
  PROVE  Separator(kind) \in Words /\ Separator(kind) \in {"_", "://"}
BY GatewayCatalogAssumption DEF Separator

\* Under a prefix of its own a key is taken apart as it was put together, and no key
\* of another upstream starts with it.
LEMMA KeyIs ==
  ASSUME upstreams \in Configs, NEW kind \in Kinds, NEW u \in EnabledNames, NEW original \in Seq(Words)
  PROVE  /\ Prefixed => Key(kind, u, original) = (PrefixOf(u) \o <<Separator(kind)>>) \o original
         /\ Key(kind, u, original) \in Seq(Words)
         /\ Distinct(u) => /\ Contains(Key(kind, u, original), Separator(kind))
                           /\ Before(Key(kind, u, original), Separator(kind)) = PrefixOf(u)
                           /\ After(Key(kind, u, original), Separator(kind)) = original
<1>1. PICK p \in Seq(Words) : p = PrefixOf(u)
  BY PrefixIs
<1>2. PICK sep \in Words : sep = Separator(kind) /\ sep \in {"_", "://"}
  BY SeparatorIs
<1>3. PICK key : key = (p \o <<sep>>) \o original
  OBVIOUS
<1>4. Prefixed => Key(kind, u, original) = key
  BY <1>1, <1>2, <1>3, PrefixedIs DEF Key
<1>5. key \in Seq(Words)
  <2>1. <<sep>> \in Seq(Words)
    OBVIOUS
  <2> QED BY <1>3, <2>1, PartsAre
<1>7. Key(kind, u, original) \in Seq(Words)
  BY <1>1, <1>2, <1>3, <1>5 DEF Key
<1>6. ASSUME Distinct(u)
      PROVE  Contains(key, sep) /\ Before(key, sep) = p /\ After(key, sep) = original
  <2>1. sep \notin ToSet(p)
    BY <1>1, <1>2, <1>6 DEF Distinct
  <2> QED BY <1>3, <2>1, TakenApart
<1>8. Distinct(u) => Prefixed
  BY DEF Distinct
<1> QED BY <1>1, <1>2, <1>3, <1>4, <1>6, <1>7, <1>8

\* No other upstream has a key with such a prefix.
LEMMA OwnPrefix ==
  ASSUME upstreams \in Configs, NEW kind \in Kinds, NEW u \in EnabledNames, Distinct(u),
         NEW v \in EnabledNames, NEW original \in Seq(Words),
         Before(Key(kind, v, original), Separator(kind)) = PrefixOf(u)
  PROVE  v = u
<1>1. PICK n \in 1 .. Len(Enabled) : Enabled[n].name = v /\ Enabled[n].prefix = PrefixOf(v)
  BY PrefixIs
<1>2. PICK p \in Seq(Words) : p = PrefixOf(v)
  BY PrefixIs
<1>3. PICK sep \in Words : sep = Separator(kind) /\ sep \in {"_", "://"}
  BY SeparatorIs
<1>4. Key(kind, v, original) = (p \o <<sep>>) \o original
  <2>1. Prefixed
    BY DEF Distinct
  <2> QED BY <1>2, <1>3, <2>1, KeyIs
<1>5. Before(p, sep) = PrefixOf(u)
  <2>1. Before((p \o <<sep>>) \o original, sep) = PrefixOf(u)
    BY <1>3, <1>4
  <2> QED BY <2>1, BeforeJoin
<1>6. n \in DOMAIN Enabled
  BY EnabledTyped
<1>7. Enabled[n].name = u \/ Before(Enabled[n].prefix, sep) # PrefixOf(u)
  BY <1>3, <1>6 DEF Distinct
<1> QED BY <1>1, <1>2, <1>5, <1>7

\* What an upstream offers is a name.
LEMMA OriginalTyped ==
  ASSUME upstreams \in Configs, NEW kind \in Kinds, NEW u \in EnabledNames,
         NEW original \in ToSet(Offers[u][kind])
  PROVE  original \in Seq(Words)
<1>1. u \in Names
  BY EnabledTyped
<1>2. Offers[u] \in [Kinds -> Seq(Seq(Words))]
  BY <1>1, GatewayCatalogAssumption
<1>3. PICK s \in Seq(Seq(Words)) : s = Offers[u][kind]
  BY <1>2
<1>4. \A i \in DOMAIN s : s[i] \in Seq(Words)
  OBVIOUS
<1> QED BY <1>3, <1>4 DEF ToSet

\* A key tells of which upstream and which item it is.
LEMMA KeyTells ==
  ASSUME upstreams \in Configs, NEW kind \in Kinds, NEW i \in Offered(kind), NEW j \in Offered(kind),
         i.key = j.key, Distinct(i.upstream)
  PROVE  i = j
<1>1. PICK u \in EnabledNames : \E o \in ToSet(Offers[u][kind]) : i = Item(kind, u, o)
  BY DEF Offered, OfferedBy
<1>2. PICK v \in EnabledNames : \E p \in ToSet(Offers[v][kind]) : j = Item(kind, v, p)
  BY DEF Offered, OfferedBy
<1>a. PICK o \in ToSet(Offers[u][kind]) : i = Item(kind, u, o)
  BY <1>1
<1>b. PICK p \in ToSet(Offers[v][kind]) : j = Item(kind, v, p)
  BY <1>2
<1>3. o \in Seq(Words) /\ p \in Seq(Words)
  BY OriginalTyped
<1>4. Key(kind, u, o) = Key(kind, v, p) /\ Distinct(u)
  BY <1>a, <1>b DEF Item
<1>5. Before(Key(kind, v, p), Separator(kind)) = PrefixOf(u)
  <2>1. Before(Key(kind, u, o), Separator(kind)) = PrefixOf(u)
    BY <1>3, <1>4, KeyIs
  <2> QED BY <1>4, <2>1
<1>6. u = v
  BY <1>3, <1>4, <1>5, OwnPrefix
<1>7. o = p
  <2>1. /\ After(Key(kind, u, o), Separator(kind)) = o
        /\ After(Key(kind, v, p), Separator(kind)) = p
    BY <1>3, <1>4, <1>6, KeyIs
  <2> QED BY <1>4, <2>1
<1> QED BY <1>a, <1>b, <1>6, <1>7

\* A tool's name leads to the upstream it is of, under the name it has there.
LEMMA ResolvesHome ==
  ASSUME upstreams \in Configs, NEW u \in EnabledNames, Distinct(u), NEW original \in Seq(Words)
  PROVE  Resolve(Key("tool", u, original)) = [upstream |-> u, original |-> original]
<1>1. PICK name : name = Key("tool", u, original)
  OBVIOUS
<1>2. /\ Contains(name, "_") /\ Before(name, "_") = PrefixOf(u) /\ After(name, "_") = original
      /\ PrefixOf(u) \in Seq(Words)
  <2>1. PICK kind \in Kinds : kind = "tool" /\ Separator(kind) = "_"
    BY DEF Kinds, Separator
  <2>2. /\ Contains(Key(kind, u, original), Separator(kind))
        /\ Before(Key(kind, u, original), Separator(kind)) = PrefixOf(u)
        /\ After(Key(kind, u, original), Separator(kind)) = original
    BY KeyIs
  <2>3. PrefixOf(u) \in Seq(Words)
    BY PrefixIs
  <2> QED BY <1>1, <2>1, <2>2, <2>3
<1>3. PICK e : e = Enabled
  OBVIOUS
<1> DEFINE I == {i \in 1 .. Len(e) : e[i].prefix = PrefixOf(u)}
<1>4. PrefixToName(PrefixOf(u)) = IF I # {} THEN Max(I) ELSE 0
  BY <1>3 DEF PrefixToName, SelectLastInSeq
<1>5. I # {} /\ I \in SUBSET (1 .. Len(e)) /\ Len(e) \in Nat
  BY <1>3, PrefixIs, EnabledTyped
<1>6. Max(I) \in I
  <2> HIDE DEF I
  <2> QED BY <1>5, Greatest
<1>7. PICK n \in 1 .. Len(e) : n = Max(I) /\ e[n].prefix = PrefixOf(u)
  BY <1>6
<1>8. e[n].name = u
  <2>1. n \in DOMAIN Enabled
    BY <1>3, EnabledTyped
  <2>2. "_" \notin ToSet(PrefixOf(u))
    BY DEF Distinct
  <2>3. Before(e[n].prefix, "_") = PrefixOf(u)
    BY <1>2, <1>7, <2>2, BeforeNone
  <2> QED BY <1>3, <2>1, <2>3 DEF Distinct
<1>9. PrefixToName(Before(name, "_")) = n /\ n # 0
  <2>1. PrefixToName(PrefixOf(u)) = n
    <3> HIDE DEF I
    <3> QED BY <1>4, <1>5, <1>7
  <2>2. n # 0
    BY <1>5
  <2>3. Before(name, "_") = PrefixOf(u)
    BY <1>2
  <2> QED BY <2>1, <2>2, <2>3, Zenon
<1>10. Resolve(name) = [upstream |-> e[n].name, original |-> After(name, "_")]
  BY <1>2, <1>3, <1>9 DEF Resolve
<1> QED BY <1>1, <1>2, <1>8, <1>10

\* A task's id leads to its upstream.
LEMMA TaskHome ==
  ASSUME NEW u \in Names, NEW id \in Seq(Words), ~Contains(u, "::")
  PROVE  ParseTaskId(BuildTaskId(u, id)) = [upstream |-> u, original |-> id]
<1>1. u \in Seq(Words)
  BY GatewayCatalogAssumption
<1>2. "::" \notin ToSet(u)
  BY <1>1 DEF Contains, ToSet
<1>a. PICK sep \in Words : sep = "::"
  BY GatewayCatalogAssumption
<1>3. PICK text : text = (u \o <<"::">>) \o id
  OBVIOUS
<1>4. Contains(text, "::") /\ Before(text, "::") = u /\ After(text, "::") = id
  BY <1>a, <1>1, <1>2, <1>3, TakenApart
<1> QED BY <1>3, <1>4 DEF ParseTaskId, BuildTaskId

\* The parts of two sequences in a row.
Joined(w, s, t) ==
  /\ Len(w) = Len(s) + Len(t)
  /\ \A i \in 1 .. Len(s) : w[i] = s[i]
  /\ \A i \in 1 .. Len(t) : w[Len(s) + i] = t[i]

\* Two sequences in a row have these parts.
LEMMA ConcatIs ==
  ASSUME NEW S, NEW s \in Seq(S), NEW t \in Seq(S)
  PROVE  s \o t \in Seq(S) /\ Joined(s \o t, s, t)
<1>1. PICK w : w = s \o t
  OBVIOUS
<1>2. /\ w \in Seq(S) /\ Len(w) = Len(s) + Len(t)
      /\ \A i \in 1 .. Len(s) + Len(t) : w[i] = IF i <= Len(s) THEN s[i] ELSE t[i - Len(s)]
  BY <1>1, ConcatProperties
<1>3. Len(s) \in Nat /\ Len(t) \in Nat
  OBVIOUS
<1>4. \A i \in 1 .. Len(s) : i \in 1 .. Len(s) + Len(t) /\ i <= Len(s)
  BY <1>3
<1>5. \A i \in 1 .. Len(t) : /\ Len(s) + i \in 1 .. Len(s) + Len(t) /\ ~(Len(s) + i <= Len(s))
                             /\ (Len(s) + i) - Len(s) = i
  BY <1>3
<1>6. \A i \in 1 .. Len(t) : w[Len(s) + i] = t[i]
  BY <1>2, <1>5
<1>7. \A i \in 1 .. Len(s) : w[i] = s[i]
  BY <1>2, <1>4
<1> QED BY <1>1, <1>2, <1>6, <1>7 DEF Joined

\* What comes first and is not gone stays in front of what is left of the rest.
LEMMA WithoutAfter ==
  ASSUME NEW S, NEW s \in Seq(S), NEW t \in Seq(S), NEW gone, \A i \in 1 .. Len(s) : s[i] \notin gone
  PROVE  Without(s \o t, gone) = s \o Without(t, gone)
<1>a. PICK w : w = s \o t
  OBVIOUS
<1>1. /\ w \in Seq(S) /\ w = s \o t /\ Len(w) = Len(s) + Len(t)
      /\ \A i \in 1 .. Len(s) : w[i] = s[i]
      /\ \A i \in 1 .. Len(t) : w[Len(s) + i] = t[i]
  <2>1. s \o t \in Seq(S) /\ Joined(s \o t, s, t)
    BY ConcatIs
  <2> QED BY <1>a, <2>1 DEF Joined
<1>2. PICK f : /\ f[0] = <<>>
               /\ \A n \in 1 .. Len(w) :
                    f[n] = IF w[n] \in gone THEN f[n - 1] ELSE Append(f[n - 1], w[n])
               /\ Without(w, gone) = f[Len(w)]
  <2>1. w \in Seq(S)
    BY <1>1
  <2> QED BY <2>1, WithoutSteps
<1>3. PICK g : /\ g[0] = <<>>
               /\ \A n \in 1 .. Len(t) :
                    g[n] = IF t[n] \in gone THEN g[n - 1] ELSE Append(g[n - 1], t[n])
               /\ Without(t, gone) = g[Len(t)]
  BY WithoutSteps
<1>4. Len(s) \in Nat /\ Len(t) \in Nat
  OBVIOUS
<1> DEFINE Start(q, n) == q \in Seq(S) /\ Len(q) = n /\ \A i \in 1 .. n : q[i] = s[i]
           T == {n \in Nat : Start(f[n], n)}
           U == {n \in Nat : g[n] \in Seq(S) /\ f[Len(s) + n] = s \o g[n]}
<1>5. 0 \in T
  <2>1. Start(<<>>, 0)
    OBVIOUS
  <2> QED BY <1>2, <2>1
<1>6. ASSUME NEW n \in 0 .. Len(s) - 1, n \in T PROVE n + 1 \in T
  <2>1. /\ n + 1 \in 1 .. Len(w) /\ (n + 1) - 1 = n /\ n + 1 \in Nat /\ n \in Nat
        /\ n + 1 \in 1 .. Len(s) /\ s[n + 1] \in S
    BY <1>1, <1>4
  <2>2. PICK q : q = f[n]
    OBVIOUS
  <2>3. Start(q, n)
    BY <1>6, <2>2
  <2>4. w[n + 1] = s[n + 1] /\ w[n + 1] \notin gone
    BY <1>1, <1>4, <2>1
  <2>5. f[n + 1] = Append(q, s[n + 1])
    BY <1>2, <2>1, <2>2, <2>4
  <2>6. Start(Append(q, s[n + 1]), n + 1)
    <3>1. PICK x \in S : x = s[n + 1]
      BY <2>1
    <3>2. q \in Seq(S) /\ Len(q) = n
      BY <2>3
    <3>3. /\ Append(q, x) \in Seq(S) /\ Len(Append(q, x)) = n + 1 /\ Append(q, x)[n + 1] = x
          /\ \A j \in 1 .. n : Append(q, x)[j] = q[j]
      BY <3>2, AppendProperties
    <3>4. \A j \in 1 .. n + 1 : j \in 1 .. n \/ j = n + 1
      BY <2>1
    <3> QED BY <2>3, <3>1, <3>3, <3>4
  <2> QED BY <2>1, <2>5, <2>6
<1>7. f[Len(s)] = s
  <2>1. Len(s) \in T
    <3> HIDE DEF T
    <3>1. Len(s) \in 0 .. Len(s)
      BY <1>4
    <3> QED BY <1>4, <1>5, <1>6, <3>1, UpTo
  <2>2. PICK q : q = f[Len(s)]
    OBVIOUS
  <2>3. Start(q, Len(s))
    BY <2>1, <2>2
  <2>4. q = s
    BY <2>3
  <2> QED BY <2>2, <2>4
<1>8. 0 \in U
  <2>1. s \o <<>> = s /\ <<>> \in Seq(S) /\ Len(s) + 0 = Len(s)
    BY <1>4
  <2> QED BY <1>3, <1>7, <2>1
<1>9. ASSUME NEW n \in 0 .. Len(t) - 1, n \in U PROVE n + 1 \in U
  <2>1. /\ n + 1 \in 1 .. Len(t) /\ (n + 1) - 1 = n /\ n + 1 \in Nat /\ n \in Nat
        /\ Len(s) + (n + 1) \in 1 .. Len(w) /\ (Len(s) + (n + 1)) - 1 = Len(s) + n
        /\ t[n + 1] \in S
    BY <1>1, <1>4
  <2>2. w[Len(s) + (n + 1)] = t[n + 1]
    BY <1>1, <2>1
  <2>3. PICK q \in Seq(S) : q = g[n]
    BY <1>9
  <2>4. PICK x \in S : x = t[n + 1]
    BY <2>1
  <2>5. f[Len(s) + n] = s \o q
    BY <1>9, <2>3
  <2>6. g[n + 1] = IF x \in gone THEN q ELSE Append(q, x)
    BY <1>3, <2>1, <2>3, <2>4
  <2>7. f[Len(s) + (n + 1)] = IF x \in gone THEN s \o q ELSE Append(s \o q, x)
    BY <1>2, <2>1, <2>2, <2>4, <2>5
  <2>8. Append(s \o q, x) = s \o Append(q, x) /\ Append(q, x) \in Seq(S)
    <3>1. <<x>> \in Seq(S) /\ s \o q \in Seq(S) /\ Append(q, x) \in Seq(S)
      BY ConcatProperties
    <3>2. Append(s \o q, x) = (s \o q) \o <<x>> /\ Append(q, x) = q \o <<x>>
      BY <3>1, AppendIsConcat
    <3>3. (s \o q) \o <<x>> = s \o (q \o <<x>>)
      BY <3>1, ConcatAssociative
    <3> QED BY <3>1, <3>2, <3>3
  <2>9. g[n + 1] \in Seq(S) /\ f[Len(s) + (n + 1)] = s \o g[n + 1]
    BY <2>6, <2>7, <2>8
  <2> QED BY <2>1, <2>9
<1>10. Len(t) \in U
  <2> HIDE DEF U
  <2>1. Len(t) \in 0 .. Len(t)
    BY <1>4
  <2> QED BY <1>4, <1>8, <1>9, <2>1, UpTo
<1> QED BY <1>1, <1>2, <1>3, <1>10

\* Where a prefix holds no query, the path of a template starts with it.
LEMMA PathOfKey ==
  ASSUME upstreams \in Configs, NEW u \in EnabledNames, NEW original \in Seq(Words),
         ToSet(PrefixOf(u)) \intersect QueryParams = {}, Prefixed
  PROVE  /\ PathOf(original) \in Seq(Words)
         /\ PathOf(Key("template", u, original)) = (PrefixOf(u) \o <<"://">>) \o PathOf(original)
<1>1. PICK p \in Seq(Words) : p = PrefixOf(u)
  BY PrefixIs
<1>2. PICK sep \in Words : sep = "://" /\ sep \notin QueryParams
  BY GatewayCatalogAssumption
<1>3. PICK m \in Seq(Words) : m = <<sep>> /\ Len(m) = 1 /\ m[1] = sep
  <2>1. <<sep>> \in Seq(Words) /\ Len(<<sep>>) = 1 /\ <<sep>>[1] = sep
    OBVIOUS
  <2> QED BY <2>1
<1>a. PICK s : s = p \o m
  OBVIOUS
<1>b. s \in Seq(Words) /\ Joined(s, p, m)
  <2>1. p \o m \in Seq(Words) /\ Joined(p \o m, p, m)
    BY ConcatIs
  <2> QED BY <1>a, <2>1
<1>4. s \in Seq(Words) /\ s = p \o m /\ \A i \in 1 .. Len(s) : s[i] \notin QueryParams
  <2>2. \A i \in 1 .. Len(p) : p[i] \notin QueryParams
    BY <1>1 DEF ToSet
  <2>3. s[Len(p) + 1] = sep
    BY <1>3, <1>b DEF Joined
  <2>4. Len(s) = Len(p) + 1 /\ Len(p) \in Nat
    BY <1>3, <1>b DEF Joined
  <2>5. \A i \in 1 .. Len(s) : i \in 1 .. Len(p) \/ i = Len(p) + 1
    BY <2>4
  <2> QED BY <1>2, <1>a, <1>b, <2>2, <2>3, <2>5 DEF Joined
<1>5. Key("template", u, original) = s \o original
  <2>1. Separator("template") = "://" /\ "template" \in Kinds
    BY DEF Separator, Kinds
  <2>2. Key("template", u, original) = (PrefixOf(u) \o <<Separator("template")>>) \o original
    BY <2>1, KeyIs
  <2> QED BY <1>1, <1>2, <1>3, <1>4, <2>1, <2>2
<1>6. Without(s \o original, QueryParams) = s \o Without(original, QueryParams)
  <2>1. PICK gone : gone = QueryParams
    OBVIOUS
  <2>2. \A i \in 1 .. Len(s) : s[i] \notin gone
    BY <1>4, <2>1
  <2>3. s \in Seq(Words)
    BY <1>4
  <2>4. Without(s \o original, gone) = s \o Without(original, gone)
    BY <2>2, <2>3, WithoutAfter
  <2> QED BY <2>1, <2>4
<1>7. Without(original, QueryParams) \in Seq(Words)
  BY WithoutTyped
<1> QED BY <1>1, <1>2, <1>3, <1>4, <1>5, <1>6, <1>7 DEF PathOf

\* A sequence is one of its own elements.
LEMMA InItsOwn ==
  ASSUME NEW S, NEW s \in Seq(S)
  PROVE  s \in Seq(ToSet(s))
<1>1. \A i \in 1 .. Len(s) : s[i] \in ToSet(s)
  BY DEF ToSet
<1>2. PICK n \in Nat : n = Len(s)
  OBVIOUS
<1>3. s \in [1 .. n -> ToSet(s)]
  BY <1>1, <1>2
<1> QED BY <1>3

\* A word that is plain text matches itself only.
LEMMA MatchesItself ==
  ASSUME NEW word, word \notin Patterns, NEW given, Matches(word, given)
  PROVE  given = word
BY DEF Patterns, Matches

\* A prefix of the configuration is plain text if all are.
LEMMA PlainPrefix ==
  ASSUME upstreams \in Configs, NEW u \in EnabledNames, PlainPrefixes
  PROVE  ToSet(PrefixOf(u)) \intersect Patterns = {}
<1>1. PICK n \in 1 .. Len(Enabled) : Enabled[n].prefix = PrefixOf(u)
  BY PrefixIs
<1>2. n \in DOMAIN Enabled
  BY EnabledTyped
<1> QED BY <1>1, <1>2 DEF PlainPrefixes

\* A template's key that matches what is given starts as it does.
LEMMA MatchStarts ==
  ASSUME upstreams \in Configs, NEW u \in EnabledNames, NEW original \in Seq(Words),
         ToSet(PrefixOf(u)) \intersect (PathParams \union QueryParams) = {}, Prefixed,
         PlainPrefixes, NEW uri \in Seq(Words), MatchUriTemplate(Key("template", u, original), uri)
  PROVE  /\ Before(uri, "?") \in Seq(Words)
         /\ Len(Before(uri, "?")) = Len(PrefixOf(u)) + 1 + Len(PathOf(original))
         /\ \A i \in 1 .. Len(PrefixOf(u)) : Before(uri, "?")[i] = PrefixOf(u)[i]
         /\ Before(uri, "?")[Len(PrefixOf(u)) + 1] = "://"
         /\ \A i \in 1 .. Len(PathOf(original)) :
              \/ PathOf(original)[i] \in PathParams
              \/ Matches(PathOf(original)[i], Before(uri, "?")[Len(PrefixOf(u)) + 1 + i])
         /\ Before(Before(uri, "?"), "://") = Before(PrefixOf(u), "://")
<1>1. PICK p : p = PrefixOf(u)
  OBVIOUS
<1>2. PICK given : given = Before(uri, "?")
  OBVIOUS
<1>3. PICK rest : rest = PathOf(original)
  OBVIOUS
<1>4. PICK sep \in Words : sep = "://" /\ sep \notin PathParams /\ sep \notin Patterns
  BY GatewayCatalogAssumption
<1>5. PICK m \in Seq(Words) : m = <<sep>> /\ Len(m) = 1 /\ m[1] = sep
  <2>1. <<sep>> \in Seq(Words) /\ Len(<<sep>>) = 1 /\ <<sep>>[1] = sep
    OBVIOUS
  <2> QED BY <2>1
<1>6. PICK path : path = PathOf(Key("template", u, original))
  OBVIOUS
<1>7. p \in Seq(Words) /\ given \in Seq(Words) /\ rest \in Seq(Words)
  <2>1. p \in Seq(Words)
    BY <1>1, PrefixIs
  <2>2. given \in Seq(Words)
    BY <1>2, BeforeIs
  <2>3. rest \in Seq(Words)
    BY <1>3, PathOfKey
  <2> QED BY <2>1, <2>2, <2>3
<1>8. Parts(path, p, m, rest) /\ path \in Seq(Words)
  <2>1. path = (p \o m) \o rest
    BY <1>1, <1>3, <1>4, <1>5, <1>6, PathOfKey
  <2> QED BY <1>7, <2>1, PartsAre
<1>9. /\ Len(path) = Len(given)
      /\ \A n \in 1 .. Len(path) : path[n] \in PathParams \/ Matches(path[n], given[n])
  <2>1. DOMAIN path = 1 .. Len(path)
    BY <1>8
  <2> QED BY <1>2, <1>6, <2>1 DEF MatchUriTemplate
<1>10. Len(p) \in Nat /\ Len(rest) \in Nat /\ Len(given) = Len(p) + 1 + Len(rest)
  BY <1>5, <1>7, <1>8, <1>9 DEF Parts
<1>11. \A i \in 1 .. Len(p) : p[i] \notin PathParams /\ p[i] \notin Patterns
  <2>1. ToSet(p) \intersect Patterns = {}
    BY <1>1, PlainPrefix
  <2> QED BY <1>1, <1>7, <2>1 DEF ToSet
<1>12. \A i \in 1 .. Len(p) : given[i] = p[i]
  <2>1. \A i \in 1 .. Len(p) : i \in 1 .. Len(path)
    BY <1>9, <1>10
  <2> QED BY <1>8, <1>9, <1>11, <2>1, MatchesItself DEF Parts
<1>13. given[Len(p) + 1] = sep
  <2>1. Len(p) + 1 \in 1 .. Len(path) /\ 1 \in 1 .. Len(m)
    BY <1>5, <1>9, <1>10
  <2>2. path[Len(p) + 1] = sep
    BY <1>5, <1>8, <2>1 DEF Parts
  <2> QED BY <1>4, <1>9, <2>1, <2>2, MatchesItself
<1>14. \A i \in 1 .. Len(rest) : rest[i] \in PathParams \/ Matches(rest[i], given[Len(p) + 1 + i])
  <2> TAKE i \in 1 .. Len(rest)
  <2>1. Len(p) + 1 + i \in 1 .. Len(path)
    BY <1>9, <1>10
  <2>2. path[Len(p) + Len(m) + i] = rest[i]
    BY <1>8 DEF Parts
  <2>3. path[Len(p) + 1 + i] = rest[i]
    BY <1>5, <2>2
  <2> QED BY <1>9, <2>1, <2>3
<1>15. Before(given, sep) = Before(p, sep)
  <2>1. PICK b : b = Before(p, sep)
    OBVIOUS
  <2>2. /\ b \in Seq(Words) /\ Len(b) <= Len(p)
        /\ \A i \in 1 .. Len(b) : b[i] = p[i] /\ p[i] # sep
        /\ Len(b) < Len(p) => p[Len(b) + 1] = sep
    BY <1>7, <2>1, BeforeIs
  <2>3. Len(b) \in Nat /\ Len(b) <= Len(given)
    BY <1>10, <2>2
  <2>4. \A i \in 1 .. Len(b) : i \in 1 .. Len(p)
    BY <1>10, <2>2, <2>3
  <2>5. \A i \in 1 .. Len(b) : b[i] = given[i] /\ b[i] # sep
    BY <1>12, <2>2, <2>4
  <2>6. given[Len(b) + 1] = sep
    <3>1. CASE Len(b) < Len(p)
      <4>1. Len(b) + 1 \in 1 .. Len(p)
        BY <1>10, <2>3, <3>1
      <4> QED BY <1>12, <2>2, <3>1, <4>1
    <3>2. CASE Len(b) = Len(p)
      BY <1>13, <3>2
    <3> QED BY <1>10, <2>2, <2>3, <3>1, <3>2
  <2>7. given \in Seq(Words) /\ b \in Seq(Words)
    BY <1>7, <2>2
  <2>8. Before(given, sep) = b
    BY <2>3, <2>5, <2>6, <2>7, BeforeOnly
  <2> QED BY <2>1, <2>8
<1> QED BY <1>1, <1>2, <1>3, <1>4, <1>7, <1>10, <1>12, <1>13, <1>14, <1>15

\* The templates that match a URI under a prefix of its own are of one upstream.
LEMMA MatchOwn ==
  ASSUME upstreams \in Configs, NEW u \in EnabledNames, NEW v \in EnabledNames, Distinct(u),
         PlainPrefixes, NEW o \in Seq(Words), NEW o1 \in Seq(Words), NEW uri \in Seq(Words),
         MatchUriTemplate(Key("template", u, o), uri), MatchUriTemplate(Key("template", v, o1), uri)
  PROVE  v = u
<1> SUFFICES ASSUME v # u PROVE FALSE
  OBVIOUS
<1>1. PICK n \in 1 .. Len(Enabled) : Enabled[n].name = v /\ Enabled[n].prefix = PrefixOf(v)
  BY PrefixIs
<1>2. n \in DOMAIN Enabled
  BY EnabledTyped
<1>3. /\ ToSet(PrefixOf(v)) \intersect (PathParams \union QueryParams) = {}
      /\ Before(PrefixOf(v), "://") # PrefixOf(u)
  BY <1>1, <1>2 DEF Distinct
<1>4. /\ ToSet(PrefixOf(u)) \intersect (PathParams \union QueryParams) = {}
      /\ "://" \notin ToSet(PrefixOf(u)) /\ Prefixed
  BY DEF Distinct
<1>5. Before(Before(uri, "?"), "://") = Before(PrefixOf(u), "://")
  BY <1>4, MatchStarts
<1>6. Before(Before(uri, "?"), "://") = Before(PrefixOf(v), "://")
  BY <1>3, <1>4, MatchStarts
<1>7. Before(PrefixOf(u), "://") = PrefixOf(u)
  BY <1>4, PrefixIs, BeforeNone
<1> QED BY <1>3, <1>5, <1>6, <1>7

\* A template that is plain text, and has no parameter twice, gives back what it was
\* matched with, up to how its parts are encoded.
LEMMA ExpandsBack ==
  ASSUME upstreams \in Configs, NEW u \in EnabledNames, Distinct(u), PlainPrefixes,
         NEW o \in Seq(Words), ToSet(o) \intersect Patterns = {},
         \A m, n \in DOMAIN PathOf(o) :
           PathOf(o)[m] = PathOf(o)[n] /\ PathOf(o)[n] \in PathParams => m = n,
         NEW uri \in Seq(Words), MatchUriTemplate(Key("template", u, o), uri),
         ~Throws(Key("template", u, o), uri)
  PROVE  Decoded(Key("template", u, ExpandUriTemplate(o, Params(Key("template", u, o), uri))))
           = Decoded(Before(uri, "?"))
<1>1. PICK p : p = PrefixOf(u)
  OBVIOUS
<1>2. PICK given : given = Before(uri, "?")
  OBVIOUS
<1>3. PICK rest : rest = PathOf(o)
  OBVIOUS
<1>4. ToSet(p) \intersect (PathParams \union QueryParams) = {} /\ Prefixed
  BY <1>1 DEF Distinct
<1>5. PICK sep \in Words : sep = "://" /\ sep \notin PathParams
  BY GatewayCatalogAssumption
<1>6. /\ given \in Seq(Words) /\ Len(given) = Len(p) + 1 + Len(rest)
      /\ \A i \in 1 .. Len(p) : given[i] = p[i]
      /\ given[Len(p) + 1] = sep
      /\ \A i \in 1 .. Len(rest) : rest[i] \in PathParams \/ Matches(rest[i], given[Len(p) + 1 + i])
  <2>1. ToSet(PrefixOf(u)) \intersect (PathParams \union QueryParams) = {} /\ Prefixed
    BY <1>1, <1>4
  <2>2. /\ Before(uri, "?") \in Seq(Words)
        /\ Len(Before(uri, "?")) = Len(PrefixOf(u)) + 1 + Len(PathOf(o))
        /\ \A i \in 1 .. Len(PrefixOf(u)) : Before(uri, "?")[i] = PrefixOf(u)[i]
        /\ Before(uri, "?")[Len(PrefixOf(u)) + 1] = "://"
        /\ \A i \in 1 .. Len(PathOf(o)) :
             \/ PathOf(o)[i] \in PathParams
             \/ Matches(PathOf(o)[i], Before(uri, "?")[Len(PrefixOf(u)) + 1 + i])
    BY <2>1, MatchStarts
  <2> QED BY <1>1, <1>2, <1>3, <1>5, <2>2
<1>7. p \in Seq(Words) /\ rest \in Seq(Words)
  <2>1. p \in Seq(Words)
    BY <1>1, PrefixIs
  <2>2. rest \in Seq(Words)
    BY <1>1, <1>3, <1>4, PathOfKey
  <2> QED BY <2>1, <2>2
<1>8. PICK m \in Seq(Words) : m = <<sep>> /\ Len(m) = 1 /\ m[1] = sep
  <2>1. <<sep>> \in Seq(Words) /\ Len(<<sep>>) = 1 /\ <<sep>>[1] = sep
    OBVIOUS
  <2> QED BY <2>1
<1>9. PICK path : path = PathOf(Key("template", u, o))
  OBVIOUS
<1>10. Parts(path, p, m, rest) /\ path \in Seq(Words)
  <2>1. path = (p \o m) \o rest
    BY <1>1, <1>3, <1>4, <1>5, <1>8, <1>9, PathOfKey
  <2> QED BY <1>7, <2>1, PartsAre
<1>11. /\ Len(p) \in Nat /\ Len(rest) \in Nat /\ Len(path) = Len(p) + 1 + Len(rest)
       /\ DOMAIN rest = 1 .. Len(rest)
  BY <1>7, <1>8, <1>10 DEF Parts
<1>12. PICK params : params = Params(Key("template", u, o), uri)
  OBVIOUS
<1>13. params = [t \in PathParams \intersect ToSet(path) |->
                   DecodeURIComponent(given[SelectLastInSeq(path, LAMBDA e : e = t)])]
  BY <1>2, <1>9, <1>12 DEF Params
<1>14. ASSUME NEW i \in 1 .. Len(rest), rest[i] \in PathParams
       PROVE  /\ params[rest[i]] = DecodeURIComponent(given[Len(p) + 1 + i])
              /\ given[Len(p) + 1 + i] \in Words \ Malformed
  <2>1. PICK t : t = rest[i]
    OBVIOUS
  <2> DEFINE I == {j \in 1 .. Len(path) : path[j] = t}
  <2>2. Len(p) + 1 + i \in I
    <3>1. Len(p) + 1 + i \in 1 .. Len(path)
      BY <1>11
    <3>2. path[Len(p) + Len(m) + i] = t
      BY <1>10, <2>1 DEF Parts
    <3> QED BY <1>8, <3>1, <3>2
  <2>3. \A j \in I : j = Len(p) + 1 + i
    <3> SUFFICES ASSUME NEW j \in I PROVE j = Len(p) + 1 + i
      OBVIOUS
    <3>1. ~(j \in 1 .. Len(p))
      <4> SUFFICES ASSUME j \in 1 .. Len(p) PROVE FALSE
        OBVIOUS
      <4>1. path[j] = p[j]
        BY <1>10 DEF Parts
      <4>2. p[j] \in ToSet(p)
        BY <1>7 DEF ToSet
      <4> QED BY <1>4, <1>14, <2>1, <4>1, <4>2
    <3>2. j # Len(p) + 1
      <4> SUFFICES ASSUME j = Len(p) + 1 PROVE FALSE
        OBVIOUS
      <4>1. 1 \in 1 .. Len(m)
        BY <1>8
      <4>2. path[Len(p) + 1] = sep
        BY <1>8, <1>10, <4>1 DEF Parts
      <4> QED BY <1>5, <1>14, <2>1, <4>2
    <3>3. PICK k \in 1 .. Len(rest) : j = Len(p) + 1 + k
      <4>1. j - (Len(p) + 1) \in 1 .. Len(rest) /\ j = Len(p) + 1 + (j - (Len(p) + 1))
        BY <1>11, <3>1, <3>2
      <4> QED BY <4>1
    <3>4. rest[k] = t
      <4>1. path[Len(p) + Len(m) + k] = rest[k]
        BY <1>10 DEF Parts
      <4> QED BY <1>8, <3>3, <4>1
    <3>5. k = i
      BY <1>3, <1>11, <1>14, <2>1, <3>4
    <3> QED BY <3>3, <3>5
  <2>4. SelectLastInSeq(path, LAMBDA e : e = t) = Max(I)
    BY <2>2 DEF SelectLastInSeq
  <2>5. Max(I) \in I
    <3>1. I \in SUBSET (1 .. Len(path)) /\ I # {} /\ Len(path) \in Nat
      BY <1>10, <2>2
    <3> HIDE DEF I
    <3> QED BY <3>1, Greatest
  <2>6. Max(I) = Len(p) + 1 + i
    <3> HIDE DEF I
    <3> QED BY <2>3, <2>5
  <2>7. t \in PathParams \intersect ToSet(path)
    <3>1. Len(p) + 1 + i \in 1 .. Len(path) /\ path[Len(p) + 1 + i] = t
      BY <2>2
    <3>2. t \in ToSet(path)
      BY <1>10, <3>1 DEF ToSet
    <3> QED BY <1>14, <2>1, <3>2
  <2>8. params[t] = DecodeURIComponent(given[SelectLastInSeq(path, LAMBDA e : e = t)])
    <3> HIDE DEF I
    <3> QED BY <1>13, <2>7
  <2>9. given[Len(p) + 1 + i] \in Words \ Malformed
    <3>1. PICK j \in 1 .. Len(path) : j = Len(p) + 1 + i /\ path[j] \in PathParams
      BY <1>14, <2>1, <2>2
    <3>2. j \in DOMAIN path /\ j \in 1 .. Len(given)
      BY <1>6, <1>10, <1>11, <3>1
    <3>3. given[j] \notin Malformed
      BY <1>2, <1>9, <3>1, <3>2 DEF Throws
    <3> QED BY <1>6, <3>1, <3>2, <3>3
  <2> HIDE DEF I
  <2> QED BY <2>1, <2>4, <2>6, <2>8, <2>9
<1>15. PICK e : e = ExpandUriTemplate(o, params)
  OBVIOUS
<1>16. e = [n \in 1 .. Len(rest) |->
             IF rest[n] \in PathParams THEN EncodeURIComponent(params[rest[n]]) ELSE rest[n]]
  BY <1>3, <1>11, <1>15 DEF ExpandUriTemplate
<1>17. ASSUME NEW n \in 1 .. Len(rest)
       PROVE  /\ e[n] \in Words
              /\ DecodeURIComponent(e[n]) = DecodeURIComponent(given[Len(p) + 1 + n])
  <2>1. CASE rest[n] \in PathParams
    <3>1. PICK g \in Words \ Malformed :
            g = given[Len(p) + 1 + n] /\ params[rest[n]] = DecodeURIComponent(g)
      BY <1>14, <2>1
    <3>2. e[n] = EncodeURIComponent(DecodeURIComponent(g))
      BY <1>16, <2>1, <3>1
    <3> QED BY <3>1, <3>2, GatewayCatalogAssumption
  <2>2. CASE rest[n] \notin PathParams
    <3>1. e[n] = rest[n] /\ rest[n] \in Words
      BY <1>7, <1>11, <1>16, <2>2
    <3>2. rest[n] \notin Patterns
      <4>1. o \in Seq(ToSet(o))
        BY InItsOwn
      <4>2. rest \in Seq(ToSet(o))
        BY <1>3, <4>1, WithoutTyped DEF PathOf
      <4>3. rest[n] \in ToSet(o)
        BY <4>2
      <4> QED BY <4>3
    <3>3. given[Len(p) + 1 + n] = rest[n]
      BY <1>6, <2>2, <3>2, MatchesItself
    <3> QED BY <3>1, <3>3
  <2> QED BY <2>1, <2>2
<1>18. e \in Seq(Words) /\ Len(e) = Len(rest)
  <2>3. PICK n \in Nat : n = Len(rest)
    BY <1>11
  <2>4. e \in [1 .. n -> Words]
    BY <1>16, <1>17, <2>3
  <2>5. e \in Seq(Words) /\ Len(e) = n
    BY <2>4
  <2> QED BY <2>3, <2>5
<1>19. PICK key : key = (p \o m) \o e
  OBVIOUS
<1>20. key \in Seq(Words) /\ Parts(key, p, m, e)
  BY <1>7, <1>18, <1>19, PartsAre
<1>21. Key("template", u, e) = key
  <2>1. Separator("template") = "://" /\ "template" \in Kinds
    BY DEF Separator, Kinds
  <2>2. Key("template", u, e) = (PrefixOf(u) \o <<Separator("template")>>) \o e
    BY <1>4, <1>18, <2>1, KeyIs
  <2> QED BY <1>1, <1>5, <1>8, <1>19, <2>1, <2>2
<1>22. Decoded(key) = Decoded(given)
  <2>1. Len(key) = Len(given)
    BY <1>6, <1>8, <1>18, <1>20 DEF Parts
  <2>2. \A i \in 1 .. Len(given) :
          i \in 1 .. Len(p) \/ i = Len(p) + 1 \/ \E k \in 1 .. Len(rest) : i = Len(p) + 1 + k
    <3> SUFFICES ASSUME NEW i \in 1 .. Len(given), ~(i \in 1 .. Len(p)), i # Len(p) + 1
                 PROVE  \E k \in 1 .. Len(rest) : i = Len(p) + 1 + k
      OBVIOUS
    <3>1. i - (Len(p) + 1) \in 1 .. Len(rest) /\ i = Len(p) + 1 + (i - (Len(p) + 1))
      BY <1>6, <1>11
    <3> QED BY <3>1
  <2>3. \A i \in 1 .. Len(p) : key[i] = given[i]
    BY <1>6, <1>20 DEF Parts
  <2>4. key[Len(p) + 1] = given[Len(p) + 1]
    <3>1. 1 \in 1 .. Len(m)
      BY <1>8
    <3> QED BY <1>6, <1>8, <1>20, <3>1 DEF Parts
  <2>5. \A k \in 1 .. Len(rest) :
          DecodeURIComponent(key[Len(p) + 1 + k]) = DecodeURIComponent(given[Len(p) + 1 + k])
    <3>1. \A k \in 1 .. Len(rest) : key[Len(p) + 1 + k] = e[k]
      BY <1>8, <1>18, <1>20 DEF Parts
    <3> QED BY <1>17, <3>1
  <2>6. \A i \in 1 .. Len(given) : DecodeURIComponent(key[i]) = DecodeURIComponent(given[i])
    BY <2>2, <2>3, <2>4, <2>5
  <2>7. DOMAIN key = 1 .. Len(given) /\ DOMAIN given = 1 .. Len(given)
    BY <1>6, <1>20, <2>1
  <2> QED BY <2>6, <2>7 DEF Decoded
<1> QED BY <1>2, <1>12, <1>15, <1>21, <1>22

(***************************************************************************)
(* The configuration stays, and with it all that names are made of         *)
(***************************************************************************)
LEMMA EnabledStays ==
  ASSUME upstreams' = upstreams
  PROVE  Enabled' = Enabled /\ EnabledNames' = EnabledNames
<1>1. Enabled' = Enabled
  BY DEF Enabled
<1> QED BY <1>1 DEF EnabledNames

\* So does what a name is under.
LEMMA PrefixStays ==
  ASSUME upstreams' = upstreams, NEW u
  PROVE  PrefixOf(u)' = PrefixOf(u)
<1>1. PICK e : e = Enabled /\ e = Enabled'
  BY EnabledStays
<1> DEFINE I == {i \in 1 .. Len(e) : e[i].name = u}
           n == IF I # {} THEN Max(I) ELSE 0
<1>2. PrefixOf(u) = e[n].prefix
  BY <1>1 DEF PrefixOf, SelectLastInSeq
<1>3. PrefixOf(u)' = e[n].prefix
  BY <1>1 DEF PrefixOf, SelectLastInSeq
<1> QED BY <1>2, <1>3

\* So do keys.
LEMMA KeyStays ==
  ASSUME upstreams' = upstreams
  PROVE  /\ \A kind, u, o : Item(kind, u, o)' = Item(kind, u, o)
         /\ \A u : Distinct(u)' <=> Distinct(u)
         /\ \A kind, u, o : Key(kind, u, o)' = Key(kind, u, o)
<1>1. ASSUME NEW kind, NEW u, NEW o
      PROVE  Key(kind, u, o)' = Key(kind, u, o)
  <2>1. PrefixOf(u)' = PrefixOf(u)
    BY PrefixStays
  <2> QED BY <2>1 DEF Key, Separator
<1>2. ASSUME NEW kind, NEW u, NEW o
      PROVE  Item(kind, u, o)' = Item(kind, u, o)
  BY <1>1 DEF Item
<1>3. ASSUME NEW u
      PROVE  Distinct(u)' <=> Distinct(u)
  <2>1. PrefixOf(u)' = PrefixOf(u) /\ Enabled' = Enabled
    BY PrefixStays, EnabledStays
  <2> QED BY <2>1 DEF Distinct, Prefixed
<1> QED BY <1>1, <1>2, <1>3

\* So does what is offered.
LEMMA OfferedStays ==
  ASSUME upstreams' = upstreams
  PROVE  \A kind : Offered(kind)' = Offered(kind)
<1> SUFFICES ASSUME NEW kind PROVE Offered(kind)' = Offered(kind)
  OBVIOUS
<1>1. \A u : OfferedBy(u, kind)' = OfferedBy(u, kind)
  BY KeyStays DEF OfferedBy
<1> QED BY <1>1, EnabledStays DEF Offered

(***************************************************************************)
(* What is found in a list                                                 *)
(***************************************************************************)
\* An item of the list of that key, if there is one.
Finds(kind, key, list) ==
  \/ Find(kind, key) = Nowhere /\ \A n \in 1 .. Len(list) : list[n].key # key
  \/ \E n \in 1 .. Len(list) :
       /\ list[n].key = key
       /\ Find(kind, key) = [upstream |-> list[n].upstream, original |-> list[n].original]

\* cached.find answers so.
LEMMA FindIs ==
  ASSUME NEW kind, NEW S, NEW list \in Seq(S), list = cached[kind], NEW key
  PROVE  Finds(kind, key, list)
<1> DEFINE I == {i \in 1 .. Len(list) : list[i].key = key}
<1>1. CASE I = {}
  <2>1. SelectInSeq(cached[kind], LAMBDA i : i.key = key) = 0
    BY <1>1 DEF SelectInSeq
  <2>2. Find(kind, key) = Nowhere
    BY <2>1 DEF Find
  <2> QED BY <1>1, <2>2 DEF Finds
<1>2. CASE I # {}
  <2>1. SelectInSeq(cached[kind], LAMBDA i : i.key = key) = Min(I)
    BY <1>2 DEF SelectInSeq
  <2>2. Min(I) \in I
    <3>1. I \in SUBSET (1 .. Len(list)) /\ Len(list) \in Nat
      OBVIOUS
    <3> HIDE DEF I
    <3> QED BY <1>2, <3>1, Least
  <2>3. PICK n \in 1 .. Len(list) : n = Min(I) /\ list[n].key = key
    BY <2>2
  <2>4. SelectInSeq(cached[kind], LAMBDA i : i.key = key) = n
    <3> HIDE DEF I
    <3> QED BY <2>1, <2>3
  <2>5. n # 0
    OBVIOUS
  <2>6. Find(kind, key) = [upstream |-> list[n].upstream, original |-> list[n].original]
    BY <2>4, <2>5 DEF Find
  <2> QED BY <2>3, <2>6 DEF Finds
<1> QED BY <1>1, <1>2

\* The walk over the templates has come to nothing, or ends at one that matches or throws.
Walks(uri, list) ==
  \/ /\ Walked(uri) = 0
     /\ \A n \in 1 .. Len(list) : ~MatchUriTemplate(list[n].key, uri)
  \/ /\ Walked(uri) \in 1 .. Len(list)
     /\ \/ MatchUriTemplate(list[Walked(uri)].key, uri)
        \/ Throws(list[Walked(uri)].key, uri)

\* It does so.
LEMMA WalkedIs ==
  ASSUME NEW S, NEW list \in Seq(S), list = cached["template"], NEW uri
  PROVE  Walks(uri, list)
<1> DEFINE I == {i \in 1 .. Len(list) :
                   MatchUriTemplate(list[i].key, uri) \/ Throws(list[i].key, uri)}
<1>1. CASE I = {}
  <2>1. Walked(uri) = 0
    BY <1>1 DEF Walked, SelectInSeq
  <2> QED BY <1>1, <2>1 DEF Walks
<1>2. CASE I # {}
  <2>1. Walked(uri) = Min(I)
    BY <1>2 DEF Walked, SelectInSeq
  <2>2. Min(I) \in I
    <3>1. I \in SUBSET (1 .. Len(list)) /\ Len(list) \in Nat
      OBVIOUS
    <3> HIDE DEF I
    <3> QED BY <1>2, <3>1, Least
  <2> QED BY <2>1, <2>2 DEF Walks
<1> QED BY <1>1, <1>2

(***************************************************************************)
(* The order of upstreams, lists and the registry                          *)
(***************************************************************************)
\* The start-up manages each enabled name once.
LEMMA NamesOfIs ==
  ASSUME upstreams \in Configs
  PROVE  /\ NamesOf(Enabled) \in Seq(EnabledNames)
         /\ IsInjective(NamesOf(Enabled))
         /\ ToSet(NamesOf(Enabled)) = EnabledNames
<1>1. PICK e : e = Enabled
  OBVIOUS
<1>2. PICK A : A = EnabledNames
  OBVIOUS
<1>3. /\ e \in Seq(ConfigRecord) /\ DOMAIN e = 1 .. Len(e) /\ Len(e) \in Nat
      /\ A = {e[n].name : n \in 1 .. Len(e)}
  <2>1. \A n \in 1 .. Len(e) : e[n].name \in A
    BY <1>1, <1>2, EnabledTyped
  <2>2. \A u \in A : \E n \in 1 .. Len(e) : e[n].name = u
    BY <1>1, <1>2, EnabledTyped
  <2>3. A = {e[n].name : n \in 1 .. Len(e)}
    BY <2>1, <2>2
  <2> QED BY <1>1, <2>3, EnabledTyped
<1> DEFINE first == {n \in DOMAIN e : \A m \in 1 .. n - 1 : e[m].name # e[n].name}
           step(f, n) == IF n = 0 THEN <<>>
                         ELSE IF n \in first THEN Append(f[n - 1], e[n].name) ELSE f[n - 1]
           built(f, m) == f = [n \in 0 .. m |-> step(f, n)]
           T == {m \in Nat : \E f : built(f, m)}
<1>4. 0 \in T
  <2>1. built([n \in 0 .. 0 |-> <<>>], 0)
    OBVIOUS
  <2> QED BY <2>1
<1>5. ASSUME NEW m \in 0 .. Len(e) - 1, m \in T PROVE m + 1 \in T
  <2> HIDE DEF first
  <2>1. PICK f : built(f, m)
    BY <1>5
  <2> DEFINE g == [n \in 0 .. m + 1 |-> IF n = m + 1 THEN step(f, m + 1) ELSE f[n]]
  <2>2. \A n \in 0 .. m + 1 : g[n] = step(g, n)
    <3>1. \A n \in 0 .. m : f[n] = step(f, n)
      BY <2>1
    <3>2. \A n \in 0 .. m : g[n] = f[n]
      OBVIOUS
    <3>3. ASSUME NEW n \in 0 .. m PROVE step(g, n) = step(f, n)
      <4>1. n # 0 => n - 1 \in 0 .. m
        OBVIOUS
      <4> QED BY <3>2, <4>1
    <3>4. step(g, m + 1) = step(f, m + 1) /\ g[m + 1] = step(f, m + 1)
      <4>1. m + 1 # 0 /\ (m + 1) - 1 \in 0 .. m
        OBVIOUS
      <4> QED BY <3>2, <4>1
    <3>5. \A n \in 0 .. m + 1 : n \in 0 .. m \/ n = m + 1
      OBVIOUS
    <3> QED BY <3>1, <3>2, <3>3, <3>4, <3>5
  <2>3. \E f1 : built(f1, m + 1)
    BY <2>2
  <2>4. m + 1 \in Nat
    OBVIOUS
  <2> QED BY <2>3, <2>4
<1>6. \A m \in 0 .. Len(e) : m \in T
  <2> HIDE DEF T
  <2> QED BY <1>3, <1>4, <1>5, UpTo
<1>7. \E f : built(f, Len(e))
  <2>1. Len(e) \in 0 .. Len(e)
    BY <1>3
  <2> QED BY <1>6, <2>1
<1> DEFINE F == CHOOSE f : built(f, Len(e))
<1>8. built(F, Len(e))
  BY <1>7
<1>9. NamesOf(e) = F[Len(e)]
  BY DEF NamesOf
<1> HIDE DEF F
<1>10. \A n \in 0 .. Len(e) : F[n] = step(F, n)
  BY <1>8
<1> DEFINE Upto(n) == {e[j].name : j \in 1 .. n}
           Left(q, n) == q \in Seq(A) /\ IsInjective(q) /\ ToSet(q) = Upto(n)
           U == {n \in Nat : Left(F[n], n)}
<1>11. 0 \in U
  <2>1. Left(<<>>, 0)
    BY DEF IsInjective, ToSet
  <2>2. F[0] = <<>>
    BY <1>3, <1>10
  <2> QED BY <2>1, <2>2
<1>12. ASSUME NEW n \in 0 .. Len(e) - 1, n \in U PROVE n + 1 \in U
  <2>1. n + 1 \in 0 .. Len(e) /\ n + 1 # 0 /\ (n + 1) - 1 = n /\ n + 1 \in Nat /\ n + 1 \in 1 .. Len(e)
    BY <1>3
  <2>2. PICK q : q = F[n]
    OBVIOUS
  <2>3. Left(q, n)
    BY <1>12, <2>2
  <2>4. PICK x : x = e[n + 1].name
    OBVIOUS
  <2>5. x \in A
    BY <1>3, <2>1, <2>4
  <2>6. F[n + 1] = IF n + 1 \in first THEN Append(q, x) ELSE q
    <3> HIDE DEF first
    <3> QED BY <1>10, <2>1, <2>2, <2>4
  <2>7. n + 1 \in first <=> x \notin Upto(n)
    BY <1>3, <2>1, <2>4
  <2>8. Upto(n + 1) = Upto(n) \union {x}
    <3>1. \A j \in 1 .. n + 1 : j \in 1 .. n \/ j = n + 1
      BY <2>1
    <3>2. \A j \in 1 .. n : j \in 1 .. n + 1
      BY <2>1
    <3> QED BY <2>1, <2>4, <3>1, <3>2
  <2> HIDE DEF first, Upto
  <2>9. CASE n + 1 \in first
    <3>1. x \notin ToSet(q)
      BY <2>3, <2>7, <2>9
    <3>2. /\ Append(q, x) \in Seq(A) /\ IsInjective(Append(q, x))
          /\ ToSet(Append(q, x)) = ToSet(q) \union {x}
      BY <2>3, <2>5, <3>1, AppendedOnce
    <3>3. Left(Append(q, x), n + 1)
      BY <2>3, <2>8, <3>2
    <3> QED BY <2>1, <2>6, <2>9, <3>3
  <2>10. CASE n + 1 \notin first
    <3>1. Left(q, n + 1)
      BY <2>3, <2>7, <2>8, <2>10
    <3> QED BY <2>1, <2>6, <2>10, <3>1
  <2> QED BY <2>9, <2>10
<1>13. Len(e) \in U
  <2>1. Len(e) \in 0 .. Len(e)
    BY <1>3
  <2> HIDE DEF U
  <2> QED BY <1>3, <1>11, <1>12, <2>1, UpTo
<1>14. Left(NamesOf(e), Len(e))
  <2> HIDE DEF Left
  <2> QED BY <1>9, <1>13
<1>15. NamesOf(e) \in Seq(A) /\ IsInjective(NamesOf(e)) /\ ToSet(NamesOf(e)) = A
  BY <1>3, <1>14
<1> QED BY <1>1, <1>2, <1>15

\* What an upstream answers is what it offers.
LEMMA FetchOfIs ==
  ASSUME upstreams \in Configs, NEW a, a.kind \in Kinds, NEW u \in EnabledNames
  PROVE  FetchOf(a, u) \in Seq(Offered(a.kind))
<1>1. PICK kind \in Kinds : kind = a.kind
  OBVIOUS
<1>2. Offers[u] \in [Kinds -> Seq(Seq(Words))]
  BY EnabledTyped, GatewayCatalogAssumption
<1>3. PICK s \in Seq(Seq(Words)) : s = Offers[u][kind]
  BY <1>2
<1>4. PICK f : f = FetchOf(a, u)
  OBVIOUS
<1>5. f = [n \in DOMAIN s |-> Item(kind, u, s[n])]
  BY <1>1, <1>3, <1>4 DEF FetchOf
<1>6. PICK O : O = Offered(kind)
  OBVIOUS
<1>7. \A n \in DOMAIN s : Item(kind, u, s[n]) \in O
  <2> TAKE n \in DOMAIN s
  <2>1. s[n] \in ToSet(Offers[u][kind])
    BY <1>3 DEF ToSet
  <2>2. Item(kind, u, s[n]) \in OfferedBy(u, kind)
    BY <2>1 DEF OfferedBy
  <2> QED BY <1>6, <2>2 DEF Offered
<1>8. PICK l \in Nat : l = Len(s) /\ DOMAIN s = 1 .. l
  OBVIOUS
<1>9. f \in [1 .. l -> O]
  BY <1>5, <1>7, <1>8
<1>10. f \in Seq(O)
  BY <1>9
<1> QED BY <1>1, <1>4, <1>6, <1>10

\* All items of a list are what upstreams offer.
LEMMA AllItemsIs ==
  ASSUME NEW a, NEW S, NEW N, a.names \in Seq(N), a.got \in [ToSet(a.names) -> Seq(S)]
  PROVE  AllItems(a) \in Seq(S)
<1>1. PICK ns \in Seq(N) : ns = a.names
  OBVIOUS
<1>2. PICK got : got = a.got
  OBVIOUS
<1>3. \A n \in 1 .. Len(ns) : got[ns[n]] \in Seq(S)
  BY <1>1, <1>2 DEF ToSet
<1>4. Len(ns) \in Nat
  OBVIOUS
<1> DEFINE step(f, n) == IF n = 0 THEN <<>> ELSE f[n - 1] \o got[ns[n]]
           built(f, m) == f = [n \in 0 .. m |-> step(f, n)]
           T == {m \in Nat : \E f : built(f, m)}
<1>5. 0 \in T
  <2>1. built([n \in 0 .. 0 |-> <<>>], 0)
    OBVIOUS
  <2> QED BY <2>1
<1>6. ASSUME NEW m \in 0 .. Len(ns) - 1, m \in T PROVE m + 1 \in T
  <2>1. PICK f : built(f, m)
    BY <1>6
  <2> DEFINE g == [n \in 0 .. m + 1 |-> IF n = m + 1 THEN step(f, m + 1) ELSE f[n]]
  <2>2. \A n \in 0 .. m + 1 : g[n] = step(g, n)
    <3>1. \A n \in 0 .. m : f[n] = step(f, n)
      BY <2>1
    <3>2. \A n \in 0 .. m : g[n] = f[n]
      OBVIOUS
    <3>3. ASSUME NEW n \in 0 .. m PROVE step(g, n) = step(f, n)
      <4>1. n # 0 => n - 1 \in 0 .. m
        OBVIOUS
      <4> QED BY <3>2, <4>1
    <3>4. step(g, m + 1) = step(f, m + 1) /\ g[m + 1] = step(f, m + 1)
      <4>1. m + 1 # 0 /\ (m + 1) - 1 \in 0 .. m /\ m + 1 \in 0 .. m + 1
        OBVIOUS
      <4>2. g[(m + 1) - 1] = f[(m + 1) - 1]
        BY <3>2, <4>1
      <4>3. step(g, m + 1) = step(f, m + 1)
        <5> HIDE DEF g
        <5> QED BY <4>2
      <4>4. g[m + 1] = step(f, m + 1)
        <5> HIDE DEF step
        <5> QED BY <4>1
      <4> QED BY <4>3, <4>4
    <3>5. \A n \in 0 .. m + 1 : n \in 0 .. m \/ n = m + 1
      OBVIOUS
    <3> QED BY <3>1, <3>2, <3>3, <3>4, <3>5
  <2>3. \E f1 : built(f1, m + 1)
    BY <2>2
  <2>4. m + 1 \in Nat
    OBVIOUS
  <2> QED BY <2>3, <2>4
<1>7. Len(ns) \in 0 .. Len(ns)
  BY <1>4
<1>8. \E f : built(f, Len(ns))
  <2>1. Len(ns) \in T
    <3> HIDE DEF T
    <3> QED BY <1>4, <1>5, <1>6, <1>7, UpTo
  <2> QED BY <2>1
<1> DEFINE F == CHOOSE f : built(f, Len(ns))
<1>9. built(F, Len(ns))
  BY <1>8
<1>10. AllItems(a) = F[Len(ns)]
  BY <1>1, <1>2 DEF AllItems
<1> HIDE DEF F
<1>11. \A n \in 0 .. Len(ns) : F[n] = step(F, n)
  BY <1>9
<1> DEFINE U == {n \in Nat : F[n] \in Seq(S)}
<1>12. 0 \in U
  <2>1. F[0] = <<>>
    BY <1>4, <1>11
  <2>2. <<>> \in Seq(S)
    OBVIOUS
  <2> QED BY <2>1, <2>2
<1>13. ASSUME NEW n \in 0 .. Len(ns) - 1, n \in U PROVE n + 1 \in U
  <2>1. n + 1 \in 0 .. Len(ns) /\ n + 1 # 0 /\ (n + 1) - 1 = n /\ n + 1 \in Nat /\ n + 1 \in 1 .. Len(ns)
    BY <1>4
  <2>2. F[n + 1] = F[n] \o got[ns[n + 1]]
    BY <1>11, <2>1
  <2>3. PICK q \in Seq(S) : q = F[n]
    BY <1>13
  <2>4. PICK r \in Seq(S) : r = got[ns[n + 1]]
    BY <1>3, <2>1
  <2>5. q \o r \in Seq(S)
    BY ConcatProperties
  <2> QED BY <2>1, <2>2, <2>3, <2>4, <2>5
<1>14. Len(ns) \in U
  <2> HIDE DEF U
  <2> QED BY <1>4, <1>7, <1>12, <1>13, UpTo
<1> QED BY <1>10, <1>14

\* The registry has one entry for each name, the last one of a list.
LEMMA RegisteringIs ==
  ASSUME NEW known, IsFiniteSet(known), \A i, j \in known : SameEntry(i, j) => i = j,
         NEW S, NEW items \in Seq(S)
  PROVE  /\ IsFiniteSet(Registering(known, items))
         /\ Registering(known, items) \subseteq known \union ToSet(items)
         /\ \A i, j \in Registering(known, items) : SameEntry(i, j) => i = j
         /\ \A i \in known \union ToSet(items) : \E r \in Registering(known, items) : SameEntry(r, i)
<1> DEFINE last == {n \in DOMAIN items : \A m \in n + 1 .. Len(items) : ~SameEntry(items[m], items[n])}
           kept == {i \in known : \A n \in DOMAIN items : ~SameEntry(items[n], i)}
           new == {items[n] : n \in last}
<1>1. Registering(known, items) = kept \union new
  BY DEF Registering
<1>2. DOMAIN items = 1 .. Len(items) /\ Len(items) \in Nat
  OBVIOUS
<1>3. IsFiniteSet(kept)
  BY FS_Subset
<1>4. IsFiniteSet(new)
  <2>1. IsFiniteSet(1 .. Len(items))
    BY <1>2, FS_Interval
  <2>2. new \subseteq {items[n] : n \in 1 .. Len(items)}
    BY <1>2
  <2>3. IsFiniteSet({items[n] : n \in 1 .. Len(items)})
    <3> DEFINE R == {items[n] : n \in 1 .. Len(items)}
    <3>1. items \in Surjection(1 .. Len(items), R)
      <4>1. items \in [1 .. Len(items) -> R]
        BY <1>2
      <4> QED BY <4>1 DEF Surjection
    <3> HIDE DEF R
    <3>2. IsFiniteSet(R)
      BY <2>1, <3>1, FS_Surjection
    <3> QED BY <3>2 DEF R
  <2> QED BY <2>2, <2>3, FS_Subset
<1>5. IsFiniteSet(kept \union new)
  <2> HIDE DEF kept, new
  <2> QED BY <1>3, <1>4, FS_Union
<1>6. new \subseteq ToSet(items) /\ kept \subseteq known
  BY DEF ToSet
<1>7. \A i, j : SameEntry(i, j) => SameEntry(j, i)
  BY DEF SameEntry
<1>8. \A i, j, k : SameEntry(i, j) /\ SameEntry(j, k) => SameEntry(i, k)
  BY DEF SameEntry
<1>9. \A i, j \in new : SameEntry(i, j) => i = j
  <2> SUFFICES ASSUME NEW n \in last, NEW m \in last, SameEntry(items[n], items[m])
               PROVE  items[n] = items[m]
    OBVIOUS
  <2>1. ~(n \in m + 1 .. Len(items))
    BY <1>2
  <2>2. ~(m \in n + 1 .. Len(items))
    BY <1>2, <1>7
  <2>3. n = m
    BY <1>2, <2>1, <2>2
  <2> QED BY <2>3
<1>10. \A i \in kept, j \in new : ~SameEntry(i, j) /\ ~SameEntry(j, i)
  BY <1>7
<1>11. \A i, j \in kept \union new : SameEntry(i, j) => i = j
  <2>1. \A i, j \in kept : SameEntry(i, j) => i = j
    OBVIOUS
  <2> HIDE DEF kept, new
  <2> QED BY <1>9, <1>10, <2>1
<1>12. ASSUME NEW n \in 1 .. Len(items)
       PROVE  \E r \in new : SameEntry(r, items[n])
  <2> DEFINE I == {m \in 1 .. Len(items) : SameEntry(items[m], items[n])}
  <2>1. n \in I
    BY DEF SameEntry
  <2>2. Max(I) \in I /\ \A i \in I : i <= Max(I)
    <3>1. I \in SUBSET (1 .. Len(items)) /\ I # {}
      BY <2>1
    <3> HIDE DEF I
    <3> QED BY <1>2, <3>1, Greatest
  <2>3. PICK m \in 1 .. Len(items) : m = Max(I) /\ SameEntry(items[m], items[n])
    BY <2>2
  <2>4. m \in last
    <3> SUFFICES ASSUME NEW k \in m + 1 .. Len(items), SameEntry(items[k], items[m]) PROVE FALSE
      BY <1>2
    <3>1. k \in 1 .. Len(items) /\ ~(k <= m)
      BY <1>2
    <3>2. k \in I
      BY <1>8, <2>3, <3>1
    <3> HIDE DEF I
    <3> QED BY <2>2, <2>3, <3>1, <3>2
  <2> QED BY <2>3, <2>4
<1>13. \A i \in known \union ToSet(items) : \E r \in kept \union new : SameEntry(r, i)
  <2>1. ASSUME NEW i \in ToSet(items) PROVE \E r \in new : SameEntry(r, i)
    <3>1. PICK n \in 1 .. Len(items) : i = items[n]
      BY <1>2 DEF ToSet
    <3> HIDE DEF new
    <3> QED BY <1>12, <3>1
  <2>2. ASSUME NEW i \in known PROVE \E r \in kept \union new : SameEntry(r, i)
    <3>1. CASE \E n \in 1 .. Len(items) : SameEntry(items[n], i)
      <4>1. PICK n \in 1 .. Len(items) : SameEntry(items[n], i)
        BY <3>1
      <4>2. PICK r \in new : SameEntry(r, items[n])
        <5> HIDE DEF new
        <5> QED BY <1>12
      <4> HIDE DEF new, kept
      <4> QED BY <1>8, <4>1, <4>2
    <3>2. CASE \A n \in 1 .. Len(items) : ~SameEntry(items[n], i)
      <4>1. i \in kept
        BY <1>2, <3>2
      <4>2. SameEntry(i, i)
        BY DEF SameEntry
      <4> QED BY <4>1, <4>2
    <3> QED BY <3>1, <3>2
  <2> HIDE DEF new, kept
  <2> QED BY <2>1, <2>2
<1> HIDE DEF new, kept
<1> QED BY <1>1, <1>5, <1>6, <1>11, <1>13

(***************************************************************************)
(* The inductive invariant                                                 *)
(***************************************************************************)
\* The kinds the start-up is done with, for better or worse.
Passed(kind) ==
  \/ phase \in {"up", "failed"}
  \/ kind = "tool" /\ phase \in {"resource", "prompt", "template"}
  \/ kind = "resource" /\ phase \in {"prompt", "template"}
  \/ kind = "prompt" /\ phase = "template"

\* Where an upstream stands.
Statuses == {"absent", "connecting", "healthy", "unhealthy", "failed"}

\* The manager's entries, each once and of the configuration.
OrderKept ==
  /\ order \in Seq(EnabledNames) /\ IsInjective(order)
  /\ ToSet(order) = {u \in Names : status[u] # "absent"}

\* What the variables hold.
Basics ==
  /\ upstreams \in Configs
  /\ phase \in {"new", "connecting", "up", "failed"} \union Kinds
  /\ phase = "failed" => stdio
  /\ status \in [Names -> Statuses]
  /\ faults \in 0 .. MaxFaults
  /\ OrderKept

\* A list under way holds what upstreams of the configuration offer.
ListTyped(a) ==
  /\ a.kind \in Kinds
  /\ a.names \in Seq(EnabledNames)
  /\ a.pending \subseteq ToSet(a.names)
  /\ a.got \in [ToSet(a.names) -> Seq(Offered(a.kind))]
  /\ a.done \in BOOLEAN
  /\ a.done => a.pending = {}

\* The start-up has one, of the kind it has come to, and only kinds that are listed
\* again have another.
ListPlaced(a) ==
  /\ a.by \in {"boot", "again"}
  /\ a.by = "boot" => a.kind = phase
  /\ a.by = "again" => a.kind \in Again
  /\ a.by = "boot" /\ a.done /\ a.kind \notin Again => cached[a.kind] = AllItems(a)

ListShaped(a) ==
  a = [by |-> a.by, kind |-> a.kind, names |-> a.names, pending |-> a.pending,
       got |-> a.got, done |-> a.done]

ListsKept ==
  /\ \A a \in lists : ListShaped(a) /\ ListTyped(a) /\ ListPlaced(a)
  /\ \A a, b \in lists : a.by = "boot" /\ b.by = "boot" => a = b

\* What the aggregators keep is what upstreams offer.
CachedKept ==
  /\ cached = [k \in Kinds |-> cached[k]]
  /\ \A k \in Kinds : cached[k] \in Seq(Offered(k))

\* What is registered is of kinds that are through, and still listed unless its kind
\* was listed again.
RegisteredKept ==
  /\ IsFiniteSet(registered)
  /\ \A i \in registered : i.kind \in Kinds /\ i \in Offered(i.kind) /\ Passed(i.kind)
  /\ \A i, j \in registered : SameEntry(i, j) => i = j
  /\ \A i \in registered : i.kind \notin Again => i \in ToSet(cached[i.kind])

\* What was fetched has an entry.
FetchedKept ==
  \A i \in fetched :
    /\ i.kind \in Kinds /\ i \in Offered(i.kind)
    /\ \E r \in registered : SameEntry(r, i)

\* All of it.
GCInv ==
  /\ Basics /\ ListsKept /\ CachedKept /\ RegisteredKept /\ FetchedKept
  /\ RoutesHome

(***************************************************************************)
(* It is enough                                                            *)
(***************************************************************************)
\* One entry for a name makes as many entries as names.
LEMMA EntriesOnce ==
  ASSUME IsFiniteSet(registered), \A i, j \in registered : SameEntry(i, j) => i = j
  PROVE  Cardinality({<<i.kind, i.key>> : i \in registered}) = Cardinality(registered)
<1> DEFINE T == {<<i.kind, i.key>> : i \in registered}
           f == [i \in registered |-> <<i.kind, i.key>>]
<1>1. f \in Surjection(registered, T)
  BY DEF Surjection
<1>2. f \in Injection(registered, T)
  <2>1. f \in [registered -> T]
    OBVIOUS
  <2>2. \A i, j \in registered : f[i] = f[j] => i = j
    BY DEF SameEntry
  <2> HIDE DEF f
  <2> QED BY <2>1, <2>2 DEF Injection, IsInjective
<1> HIDE DEF T, f
<1>3. Cardinality(T) = Cardinality(registered)
  BY <1>1, <1>2, FS_Surjection
<1> QED BY <1>3 DEF T

\* An item is told by its kind and key.
LEMMA EntryTells ==
  ASSUME upstreams \in Configs, NEW i, NEW r, i.kind \in Kinds, i \in Offered(i.kind),
         r \in Offered(r.kind), SameEntry(r, i), Distinct(i.upstream)
  PROVE  r = i
<1>1. PICK kind \in Kinds : kind = i.kind /\ kind = r.kind /\ i.key = r.key
  BY DEF SameEntry
<1> QED BY <1>1, KeyTells

\* The invariant is enough for both properties.
LEMMA InvEnough == GCInv => BootRegistersAll /\ RoutesHome
<1> SUFFICES ASSUME GCInv PROVE BootRegistersAll
  BY DEF GCInv
<1> USE DEF GCInv
<1>1. GCTypeOK
  <2>1. Cardinality({<<i.kind, i.key>> : i \in registered}) = Cardinality(registered)
    BY EntriesOnce DEF RegisteredKept
  <2>2. ToSet(order) = {u \in Names : Managed(u)}
    BY DEF Basics, OrderKept, Managed
  <2> QED BY <2>1, <2>2 DEF GCTypeOK, Basics, OrderKept, Statuses
<1>2. ASSUME NEW i \in fetched
      PROVE  \E r \in registered : r = i \/ (SameEntry(r, i) /\ ~Distinct(i.upstream))
  <2>1. PICK r \in registered : SameEntry(r, i)
    BY DEF FetchedKept
  <2>2. Distinct(i.upstream) => r = i
    BY <2>1, EntryTells DEF Basics, FetchedKept, RegisteredKept
  <2> QED BY <2>1, <2>2
<1>3. phase = "failed" => stdio
  BY DEF Basics
<1> QED BY <1>1, <1>2, <1>3 DEF BootRegistersAll

\* It holds before the start-up.
LEMMA InvInit == GCInit => GCInv
<1> SUFFICES ASSUME GCInit PROVE GCInv
  OBVIOUS
<1> USE DEF GCInit
<1>1. Basics
  <2>1. OrderKept
    BY DEF OrderKept, IsInjective, ToSet
  <2>2. status \in [Names -> Statuses]
    BY DEF Statuses
  <2>3. faults \in 0 .. MaxFaults
    <3>1. MaxFaults \in Nat
      BY GatewayCatalogAssumption
    <3> QED BY <3>1
  <2>4. upstreams \in Configs
    BY DEF Configs
  <2> QED BY <2>1, <2>2, <2>3, <2>4 DEF Basics
<1>2. CachedKept
  <2>1. \A S : <<>> \in Seq(S)
    OBVIOUS
  <2> QED BY <2>1 DEF CachedKept
<1>3. RegisteredKept
  BY FS_EmptySet DEF RegisteredKept
<1>4. ListsKept /\ FetchedKept
  BY DEF ListsKept, FetchedKept
<1>5. RoutesHome
  BY DEF RoutesHome
<1> QED BY <1>1, <1>2, <1>3, <1>4, <1>5 DEF GCInv

(***************************************************************************)
(* What a step leaves alone                                                *)
(***************************************************************************)
LEMMA TypedStays ==
  ASSUME upstreams' = upstreams, NEW a, ListTyped(a)
  PROVE  ListTyped(a)'
BY EnabledStays, OfferedStays DEF ListTyped

\* Lists that nothing touches.
LEMMA ListsStay ==
  ASSUME upstreams' = upstreams, lists' = lists, ListsKept, \A a \in lists : ListPlaced(a)'
  PROVE  ListsKept'
<1>1. \A a \in lists : ListTyped(a)'
  BY TypedStays DEF ListsKept
<1>2. \A a \in lists : ListShaped(a)'
  BY DEF ListsKept, ListShaped
<1> QED BY <1>1, <1>2 DEF ListsKept

\* A list stays placed as long as the start-up and what is kept stay.
LEMMA PlacedStays ==
  ASSUME NEW a, ListPlaced(a), phase' = phase, cached' = cached
  PROVE  ListPlaced(a)'
<1>1. AllItems(a)' = AllItems(a)
  BY DEF AllItems
<1> QED BY <1>1 DEF ListPlaced

\* Likewise what the aggregators keep.
LEMMA CachedStays ==
  ASSUME upstreams' = upstreams, cached' = cached, CachedKept
  PROVE  CachedKept'
BY OfferedStays DEF CachedKept

\* The registry, while no kind that is through is listed anew.
LEMMA RegisteredStays ==
  ASSUME upstreams' = upstreams, registered' = registered, RegisteredKept,
         \A k \in Kinds : Passed(k) => Passed(k)',
         \A k \in Kinds : k \notin Again /\ Passed(k) => cached'[k] = cached[k]
  PROVE  RegisteredKept'
BY OfferedStays DEF RegisteredKept, SameEntry

\* What was fetched.
LEMMA FetchedStays ==
  ASSUME upstreams' = upstreams, fetched' = fetched, registered' = registered, FetchedKept
  PROVE  FetchedKept'
BY OfferedStays DEF FetchedKept, SameEntry

\* What is said of reading through a template.
LEMMA ReadStays ==
  ASSUME upstreams' = upstreams
  PROVE  /\ PlainPrefixes' <=> PlainPrefixes
         /\ SomeBroken' <=> SomeBroken
         /\ \A u : Plain(u)' <=> Plain(u)
         /\ request' = request => \A u : ReadHome(u)' <=> ReadHome(u)
<1>1. Enabled' = Enabled
  BY EnabledStays
<1>2. /\ PlainPrefixes' <=> PlainPrefixes
      /\ SomeBroken' <=> SomeBroken
      /\ \A u : Plain(u)' <=> Plain(u)
  BY <1>1 DEF PlainPrefixes, SomeBroken, Plain
<1>3. ASSUME NEW u, request' = request
      PROVE  ReadHome(u)' <=> ReadHome(u)
  <2>1. PICK q : q = request /\ q = request'
    BY <1>3
  <2>2. PICK o : o = q.to.original
    OBVIOUS
  <2>3. Key("template", u, o)' = Key("template", u, o)
    BY KeyStays
  <2> QED BY <1>2, <2>1, <2>2, <2>3 DEF ReadHome, Decoded
<1> QED BY <1>2, <1>3

\* And the request under way.
LEMMA RoutesStay ==
  ASSUME upstreams' = upstreams, request' = request, RoutesHome
  PROVE  RoutesHome'
<1>1. /\ \A u : ReadHome(u)' <=> ReadHome(u)
      /\ PlainPrefixes' <=> PlainPrefixes
  BY ReadStays
<1>2. NoRequest' = NoRequest
  BY DEF NoRequest
<1>3. PICK r : r = request /\ r = request'
  OBVIOUS
<1>4. /\ \A u : Distinct(u)' <=> Distinct(u)
      /\ \A kind, u, o : Key(kind, u, o)' = Key(kind, u, o)
  BY KeyStays
<1> QED BY <1>1, <1>2, <1>3, <1>4 DEF RoutesHome

(***************************************************************************)
(* Upstreams come and go                                                   *)
(***************************************************************************)
\* What the steps of upstreams leave alone.
UpstreamsOnly ==
  UNCHANGED <<upstreams, stdio, phase, lists, cached, registered, completions, request, fetched>>

\* They keep all but what the variables hold.
LEMMA RestStays ==
  ASSUME GCInv, UpstreamsOnly, Basics'
  PROVE  GCInv'
<1> USE DEF GCInv, UpstreamsOnly
<1>1. ListsKept'
  BY PlacedStays, ListsStay DEF ListsKept
<1>2. CachedKept'
  BY CachedStays
<1>3. RegisteredKept'
  BY RegisteredStays DEF Passed
<1>4. FetchedKept'
  BY FetchedStays
<1>5. RoutesHome'
  BY RoutesStay
<1> QED BY <1>1, <1>2, <1>3, <1>4, <1>5

\* A status that stays one of a managed upstream changes nothing of the order.
LEMMA StatusChanges ==
  ASSUME Basics, UpstreamsOnly, NEW u \in Names, status[u] # "absent", order' = order,
         NEW s \in Statuses \ {"absent"}, status' = [status EXCEPT ![u] = s],
         faults' \in 0 .. MaxFaults
  PROVE  Basics'
<1> USE DEF Basics, UpstreamsOnly
<1>1. status' \in [Names -> Statuses]
  OBVIOUS
<1>2. \A v \in Names : status'[v] # "absent" <=> status[v] # "absent"
  OBVIOUS
<1>3. EnabledNames' = EnabledNames
  BY EnabledStays
<1>4. OrderKept'
  BY <1>2, <1>3 DEF OrderKept
<1>5. Kinds' = Kinds /\ Statuses' = Statuses
  BY DEF Kinds, Statuses
<1> QED BY <1>1, <1>4, <1>5

\* The bound on faults leaves room for one.
LEMMA MoreFaults ==
  ASSUME Basics, faults < MaxFaults
  PROVE  faults + 1 \in 0 .. MaxFaults
<1>1. MaxFaults \in Nat
  BY GatewayCatalogAssumption
<1>2. faults \in 0 .. MaxFaults
  BY DEF Basics
<1> QED BY <1>1, <1>2

\* A connection attempt ends.
LEMMA ConnectEndsKeeps ==
  ASSUME GCInv, NEW u \in Names, ConnectEnds(u)
  PROVE  GCInv'
<1> USE DEF ConnectEnds
<1>1. UpstreamsOnly /\ order' = order /\ Basics /\ status[u] # "absent"
  BY DEF UpstreamsOnly, GCInv
<1>2. PICK s \in {"healthy", "failed"} : status' = [status EXCEPT ![u] = s]
  OBVIOUS
<1>3. s \in Statuses \ {"absent"}
  BY DEF Statuses
<1>4. faults' \in 0 .. MaxFaults
  BY <1>1, MoreFaults DEF Basics
<1>5. Basics'
  BY <1>1, <1>2, <1>3, <1>4, StatusChanges
<1> QED BY <1>1, <1>5, RestStays

\* A health check comes back.
LEMMA HealthKeeps ==
  ASSUME GCInv, NEW u \in Names, Health(u)
  PROVE  GCInv'
<1> USE DEF Health
<1>1. UpstreamsOnly /\ order' = order /\ Basics /\ status[u] # "absent"
  BY DEF UpstreamsOnly, GCInv
<1>2. PICK s \in {"healthy", "unhealthy"} : status' = [status EXCEPT ![u] = s]
  OBVIOUS
<1>3. s \in Statuses \ {"absent"}
  BY DEF Statuses
<1>4. faults' \in 0 .. MaxFaults
  BY <1>1, MoreFaults DEF Basics
<1>5. Basics'
  BY <1>1, <1>2, <1>3, <1>4, StatusChanges
<1> QED BY <1>1, <1>5, RestStays

\* An upstream leaves.
LEMMA DisconnectKeeps ==
  ASSUME GCInv, NEW u \in Names, Disconnect(u)
  PROVE  GCInv'
<1> USE DEF Disconnect
<1>1. UpstreamsOnly /\ Basics
  BY DEF UpstreamsOnly, GCInv
<1>2. faults' \in 0 .. MaxFaults
  BY <1>1, MoreFaults
<1>3. /\ status' \in [Names -> Statuses]
      /\ \A v \in Names : status'[v] = IF v = u THEN "absent" ELSE status[v]
  BY <1>1 DEF Basics, Statuses
<1>4. OrderKept'
  <2>1. PICK N : N = EnabledNames /\ N = EnabledNames'
    BY <1>1, EnabledStays DEF UpstreamsOnly
  <2>2. order \in Seq(N) /\ IsInjective(order) /\ ToSet(order) = {v \in Names : status[v] # "absent"}
    BY <1>1, <2>1 DEF Basics, OrderKept
  <2>3. order' \in Seq(N) /\ IsInjective(order') /\ ToSet(order') = ToSet(order) \ {u}
    BY <2>2, WithoutOnce
  <2>4. ToSet(order') = {v \in Names : status'[v] # "absent"}
    BY <1>3, <2>2, <2>3
  <2> QED BY <2>1, <2>3, <2>4 DEF OrderKept
<1>5. Basics'
  BY <1>1, <1>2, <1>3, <1>4 DEF Basics, UpstreamsOnly
<1> QED BY <1>1, <1>5, RestStays

\* And comes back.
LEMMA ConnectKeeps ==
  ASSUME GCInv, NEW u \in Names, Connect(u)
  PROVE  GCInv'
<1> USE DEF Connect
<1>1. UpstreamsOnly /\ Basics /\ status[u] = "absent"
  BY DEF UpstreamsOnly, GCInv, Managed
<1>3. /\ status' \in [Names -> Statuses]
      /\ \A v \in Names : status'[v] = IF v = u THEN "connecting" ELSE status[v]
  BY <1>1 DEF Basics, Statuses
<1>4. OrderKept'
  <2>1. PICK N : N = EnabledNames /\ N = EnabledNames'
    BY <1>1, EnabledStays DEF UpstreamsOnly
  <2>2. order \in Seq(N) /\ IsInjective(order) /\ ToSet(order) = {v \in Names : status[v] # "absent"}
    BY <1>1, <2>1 DEF Basics, OrderKept
  <2>3. u \in N
    BY <1>1, <2>1, EnabledTyped DEF Basics
  <2>4. u \notin ToSet(order)
    BY <1>1, <2>2
  <2>5. order' \in Seq(N) /\ IsInjective(order') /\ ToSet(order') = ToSet(order) \union {u}
    BY <2>2, <2>3, <2>4, AppendedOnce
  <2>6. ToSet(order') = {v \in Names : status'[v] # "absent"}
    BY <1>3, <2>2, <2>5
  <2> QED BY <2>1, <2>5, <2>6 DEF OrderKept
<1>5. Basics'
  BY <1>1, <1>3, <1>4 DEF Basics, UpstreamsOnly
<1> QED BY <1>1, <1>5, RestStays

\* The start-up manages what is enabled.
LEMMA BootstrapKeeps ==
  ASSUME GCInv, Bootstrap
  PROVE  GCInv'
<1> USE DEF Bootstrap
<1>1. Basics /\ phase = "new" /\ phase' = "connecting" /\ upstreams' = upstreams
  BY DEF GCInv
<1>2. PICK all : all = NamesOf(Enabled)
  OBVIOUS
<1>3. PICK N : N = EnabledNames /\ N = EnabledNames'
  BY <1>1, EnabledStays
<1>4. all \in Seq(N) /\ IsInjective(all) /\ ToSet(all) = N
  BY <1>1, <1>2, <1>3, NamesOfIs DEF Basics
<1>5. N \subseteq Names
  BY <1>1, <1>3, EnabledTyped DEF Basics
<1>6. order' = all /\ status' = [u \in Names |-> IF u \in ToSet(all) THEN "connecting" ELSE "absent"]
  BY <1>2
<1>7. OrderKept'
  <2>1. ToSet(all) = {v \in Names : status'[v] # "absent"}
    BY <1>4, <1>5, <1>6
  <2> QED BY <1>3, <1>4, <1>6, <2>1 DEF OrderKept
<1>8. Basics'
  <2>1. status' \in [Names -> Statuses]
    BY <1>6 DEF Statuses
  <2> QED BY <1>1, <1>7, <2>1 DEF Basics
<1>9. ListsKept'
  <2>1. \A a \in lists : ListPlaced(a)'
    <3> SUFFICES ASSUME NEW a \in lists PROVE ListPlaced(a)'
      OBVIOUS
    <3>1. a.by = "again" /\ a.kind \in Again
      BY <1>1 DEF GCInv, ListsKept, ListPlaced, ListTyped, Kinds
    <3> QED BY <3>1 DEF ListPlaced
  <2> QED BY <1>1, <2>1, ListsStay DEF GCInv
<1>10. CachedKept'
  BY CachedStays DEF GCInv
<1>11. RegisteredKept'
  <2>1. \A k \in Kinds : ~Passed(k)
    BY <1>1 DEF Passed
  <2> QED BY <2>1, RegisteredStays DEF GCInv
<1>12. FetchedKept'
  BY FetchedStays DEF GCInv
<1>13. RoutesHome'
  BY RoutesStay DEF GCInv
<1> QED BY <1>8, <1>9, <1>10, <1>11, <1>12, <1>13 DEF GCInv

(***************************************************************************)
(* Lists                                                                   *)
(***************************************************************************)
\* A list starts with nothing, for the upstreams of the moment.
LEMMA ListStarts ==
  ASSUME Basics, NEW by, NEW kind \in Kinds
  PROVE  /\ ListShaped(Aggregation(by, kind)) /\ ListTyped(Aggregation(by, kind))
         /\ Aggregation(by, kind).by = by /\ Aggregation(by, kind).kind = kind
         /\ Aggregation(by, kind).done = FALSE
<1>1. PICK a : a = Aggregation(by, kind)
  OBVIOUS
<1>2. a = [by |-> by, kind |-> kind, names |-> order, pending |-> {u \in ToSet(order) : Healthy(u)},
           got |-> [u \in ToSet(order) |-> <<>>], done |-> FALSE]
  BY <1>1 DEF Aggregation
<1>3. ListShaped(a)
  BY <1>2 DEF ListShaped
<1>4. <<>> \in Seq(Offered(kind))
  OBVIOUS
<1>5. ListTyped(a)
  BY <1>2, <1>4 DEF ListTyped, Basics, OrderKept
<1> QED BY <1>1, <1>2, <1>3, <1>5

\* One more list, or one instead of another.
LEMMA ListsChange ==
  ASSUME upstreams' = upstreams, ListsKept, NEW gone, NEW b, lists' = (lists \ gone) \union {b},
         ListShaped(b), ListTyped(b), ListPlaced(b)',
         \A a \in lists \ gone : ListPlaced(a)',
         b.by = "boot" => \A a \in lists \ gone : a.by # "boot"
  PROVE  ListsKept'
<1>1. \A a \in lists : ListTyped(a)' /\ ListShaped(a)'
  BY TypedStays DEF ListsKept, ListShaped
<1>2. ListTyped(b)' /\ ListShaped(b)'
  BY TypedStays DEF ListShaped
<1> QED BY <1>1, <1>2 DEF ListsKept

\* Or one less.
LEMMA ListsShrink ==
  ASSUME upstreams' = upstreams, ListsKept, NEW gone, lists' = lists \ gone,
         \A a \in lists \ gone : ListPlaced(a)'
  PROVE  ListsKept'
<1>1. \A a \in lists : ListTyped(a)' /\ ListShaped(a)'
  BY TypedStays DEF ListsKept, ListShaped
<1> QED BY <1>1 DEF ListsKept

\* All items of lists with the same answers.
LEMMA SameItems ==
  ASSUME NEW a, NEW b, b.names = a.names, b.got = a.got
  PROVE  AllItems(b) = AllItems(a)
BY DEF AllItems

\* They are what upstreams offer.
LEMMA ItemsTyped ==
  ASSUME NEW a, ListTyped(a)
  PROVE  AllItems(a) \in Seq(Offered(a.kind))
BY AllItemsIs DEF ListTyped

\* They do not depend on the state.
LEMMA ItemsStay ==
  ASSUME NEW a
  PROVE  AllItems(a)' = AllItems(a)
BY DEF AllItems

\* A list that is done.
LEMMA ListDone ==
  ASSUME NEW by, NEW kind, NEW names, NEW pending, NEW got, NEW done,
         NEW a, a = [by |-> by, kind |-> kind, names |-> names, pending |-> pending, got |-> got,
                     done |-> done]
  PROVE  [a EXCEPT !.done = TRUE] =
           [by |-> by, kind |-> kind, names |-> names, pending |-> pending, got |-> got,
            done |-> TRUE]
<1>1. PICK t : t = TRUE
  BY Zenon
<1>2. [a EXCEPT !.done = t] = [by |-> by, kind |-> kind, names |-> names, pending |-> pending,
                               got |-> got, done |-> t]
  OBVIOUS
<1> QED BY <1>1, <1>2, Zenon

\* And one that has an answer more.
LEMMA AnsweredIs ==
  ASSUME NEW by, NEW kind, NEW names, NEW pending, NEW got, NEW done, NEW u,
         NEW a, a = [by |-> by, kind |-> kind, names |-> names, pending |-> pending, got |-> got,
                     done |-> done]
  PROVE  Answered(a, u) =
           [by |-> by, kind |-> kind, names |-> names, pending |-> pending \ {u},
            got |-> [got EXCEPT ![u] = FetchOf(a, u)], done |-> done]
<1>1. PICK p : p = pending \ {u}
  OBVIOUS
<1>2. PICK g : g = [got EXCEPT ![u] = FetchOf(a, u)]
  OBVIOUS
<1>3. PICK b : b = [a EXCEPT !.pending = p]
  OBVIOUS
<1>4. b = [by |-> by, kind |-> kind, names |-> names, pending |-> p, got |-> got, done |-> done]
  BY <1>3
<1>5. [b EXCEPT !.got = g] =
        [by |-> by, kind |-> kind, names |-> names, pending |-> p, got |-> g, done |-> done]
  BY <1>4
<1>6. a.pending = pending /\ a.got = got
  OBVIOUS
<1>7. Answered(a, u) = [a EXCEPT !.pending = p, !.got = g]
  <2>1. Answered(a, u) = [a EXCEPT !.pending = a.pending \ {u}, !.got = [a.got EXCEPT ![u] = FetchOf(a, u)]]
    BY DEF Answered
  <2> QED BY <1>1, <1>2, <1>6, <2>1, Zenon
<1>8. [a EXCEPT !.pending = p, !.got = g] = [b EXCEPT !.got = g]
  BY <1>3
<1> QED BY <1>1, <1>2, <1>5, <1>7, <1>8

\* An upstream answers, or fails.
LEMMA FetchedKeeps ==
  ASSUME GCInv, NEW a \in lists, NEW u \in a.pending, Fetched(a, u)
  PROVE  GCInv'
<1> USE DEF Fetched
<1>1. ListShaped(a) /\ ListTyped(a) /\ ListPlaced(a) /\ Basics
  BY DEF GCInv, ListsKept
<1>2. u \in ToSet(a.names) /\ ~a.done
  BY <1>1 DEF ListTyped
<1>3. u \in EnabledNames
  BY <1>1, <1>2 DEF ListTyped, ToSet
<1>4. PICK items : items = FetchOf(a, u)
  OBVIOUS
<1>5. items \in Seq(Offered(a.kind))
  BY <1>1, <1>3, <1>4, FetchOfIs DEF Basics, ListTyped
<1>6. PICK got \in [ToSet(a.names) -> Seq(Offered(a.kind))] :
        lists' = (lists \ {a}) \union
                   {[by |-> a.by, kind |-> a.kind, names |-> a.names, pending |-> a.pending \ {u},
                     got |-> got, done |-> a.done]}
  <2>1. a = [by |-> a.by, kind |-> a.kind, names |-> a.names, pending |-> a.pending,
             got |-> a.got, done |-> a.done]
    BY <1>1 DEF ListShaped
  <2>2. a.got \in [ToSet(a.names) -> Seq(Offered(a.kind))]
    BY <1>1 DEF ListTyped
  <2>3. CASE lists' = (lists \ {a}) \union {Answered(a, u)}
    <3>1. Answered(a, u) =
            [by |-> a.by, kind |-> a.kind, names |-> a.names, pending |-> a.pending \ {u},
             got |-> [a.got EXCEPT ![u] = items], done |-> a.done]
      BY <1>4, <2>1, AnsweredIs
    <3>2. [a.got EXCEPT ![u] = items] \in [ToSet(a.names) -> Seq(Offered(a.kind))]
      BY <1>5, <2>2
    <3> QED BY <2>3, <3>1, <3>2
  <2>4. CASE lists' = (lists \ {a}) \union {[a EXCEPT !.pending = @ \ {u}]}
    <3>1. [a EXCEPT !.pending = @ \ {u}] =
            [by |-> a.by, kind |-> a.kind, names |-> a.names, pending |-> a.pending \ {u},
             got |-> a.got, done |-> a.done]
      BY <2>1
    <3> QED BY <2>2, <2>4, <3>1
  <2> QED BY <2>3, <2>4
<1>7. PICK b : b = [by |-> a.by, kind |-> a.kind, names |-> a.names, pending |-> a.pending \ {u},
                    got |-> got, done |-> a.done]
  OBVIOUS
<1>8. ListShaped(b)
  BY <1>7 DEF ListShaped
<1>9. ListTyped(b)
  BY <1>1, <1>2, <1>7 DEF ListTyped
<1>10. ListPlaced(b)'
  BY <1>1, <1>2, <1>7 DEF ListPlaced
<1>11. \A c \in lists \ {a} : ListPlaced(c)'
  BY PlacedStays DEF GCInv, ListsKept
<1>12. b.by = "boot" => \A c \in lists \ {a} : c.by # "boot"
  BY <1>7 DEF GCInv, ListsKept
<1>13. ListsKept'
  <2>1. lists' = (lists \ {a}) \union {b}
    BY <1>6, <1>7
  <2> QED BY <1>8, <1>9, <1>10, <1>11, <1>12, <2>1, ListsChange DEF GCInv
<1>14. Basics'
  <2>1. faults' \in 0 .. MaxFaults
    <3>1. faults \in 0 .. MaxFaults
      BY <1>1 DEF Basics
    <3> QED BY <1>1, <3>1, MoreFaults
  <2>2. EnabledNames' = EnabledNames
    BY EnabledStays
  <2>3. OrderKept'
    BY <1>1, <2>2 DEF Basics, OrderKept
  <2> QED BY <1>1, <2>1, <2>3 DEF Basics
<1>15. CachedKept' /\ FetchedKept' /\ RoutesHome'
  BY CachedStays, FetchedStays, RoutesStay DEF GCInv
<1>16. RegisteredKept'
  BY RegisteredStays DEF GCInv, Passed
<1> QED BY <1>13, <1>14, <1>15, <1>16 DEF GCInv

\* What the steps of lists and requests leave alone.
LEMMA BasicsStay ==
  ASSUME Basics, UNCHANGED <<upstreams, stdio, phase, order, status, faults>>
  PROVE  Basics'
<1>1. EnabledNames' = EnabledNames
  BY EnabledStays
<1>2. OrderKept'
  BY <1>1 DEF Basics, OrderKept
<1> QED BY <1>2 DEF Basics

\* A list is kept: one of the start-up is of a kind of which nothing is registered yet.
LEMMA AggregatedKeeps ==
  ASSUME GCInv, NEW a \in lists, Aggregated(a)
  PROVE  GCInv'
<1> USE DEF Aggregated
<1>1. ListShaped(a) /\ ListTyped(a) /\ ListPlaced(a) /\ Basics /\ CachedKept
  BY DEF GCInv, ListsKept
<1>2. Basics'
  BY <1>1, BasicsStay
<1>3. AllItems(a) \in Seq(Offered(a.kind)) /\ a.kind \in Kinds
  BY <1>1, ItemsTyped DEF ListTyped
<1>4. /\ cached' = [k \in Kinds |-> cached'[k]]
      /\ \A k \in Kinds : cached'[k] = IF k = a.kind THEN AllItems(a) ELSE cached[k]
  <2>1. PICK items : items = AllItems(a)
    OBVIOUS
  <2>2. cached' = [cached EXCEPT ![a.kind] = items]
    BY <2>1
  <2> QED BY <1>1, <1>3, <2>1, <2>2 DEF CachedKept
<1>5. CachedKept'
  BY <1>1, <1>3, <1>4, OfferedStays DEF CachedKept
<1>6. a.kind \notin Again => a.by = "boot" /\ a.kind = phase /\ ~Passed(a.kind)
  BY <1>1 DEF ListPlaced, Passed, ListTyped, Kinds
<1>7. RegisteredKept'
  <2>1. \A k \in Kinds : Passed(k) => Passed(k)'
    BY DEF Passed
  <2>2. \A k \in Kinds : k \notin Again /\ Passed(k) => cached'[k] = cached[k]
    BY <1>4, <1>6
  <2> QED BY <2>1, <2>2, RegisteredStays DEF GCInv
<1>8. ASSUME NEW c \in lists \ {a} PROVE ListPlaced(c)'
  <2>1. ListPlaced(c) /\ c.kind \in Kinds /\ (c.by = "boot" => a.by # "boot")
    BY DEF GCInv, ListsKept, ListTyped
  <2>2. c.by = "boot" /\ c.kind \notin Again => c.kind # a.kind
    BY <1>6, <2>1
  <2> QED BY <1>4, <2>1, <2>2, ItemsStay DEF ListPlaced
<1>9. ListsKept'
  <2>1. CASE a.by = "boot"
    <3>1. PICK b : b = [by |-> a.by, kind |-> a.kind, names |-> a.names, pending |-> a.pending,
                        got |-> a.got, done |-> TRUE]
      OBVIOUS
    <3>2. lists' = (lists \ {a}) \union {b}
      <4>1. [a EXCEPT !.done = TRUE] = b
        <5>1. a = [by |-> a.by, kind |-> a.kind, names |-> a.names, pending |-> a.pending,
                   got |-> a.got, done |-> a.done]
          BY <1>1 DEF ListShaped
        <5>2. [a EXCEPT !.done = TRUE] =
                [by |-> a.by, kind |-> a.kind, names |-> a.names, pending |-> a.pending,
                 got |-> a.got, done |-> TRUE]
          BY <5>1, ListDone
        <5> QED BY <3>1, <5>2
      <4> QED BY <2>1, <4>1
    <3>3. ListShaped(b)
      BY <3>1 DEF ListShaped
    <3>4. ListTyped(b)
      BY <1>1, <3>1 DEF ListTyped
    <3>5. AllItems(b) = AllItems(a)
      BY <3>1, SameItems
    <3>6. AllItems(b)' = AllItems(b)
      BY ItemsStay
    <3>7. cached'[a.kind] = AllItems(b)
      BY <1>3, <1>4, <3>5
    <3>8. ListPlaced(b)'
      BY <1>1, <3>1, <3>6, <3>7 DEF ListPlaced
    <3>9. b.by = "boot" => \A c \in lists \ {a} : c.by # "boot"
      BY <2>1 DEF GCInv, ListsKept
    <3> QED BY <1>8, <3>2, <3>3, <3>4, <3>8, <3>9, ListsChange DEF GCInv
  <2>2. CASE a.by # "boot"
    <3>1. lists' = lists \ {a}
      BY <2>2
    <3> QED BY <1>8, <3>1, ListsShrink DEF GCInv
  <2> QED BY <2>1, <2>2
<1>10. FetchedKept' /\ RoutesHome'
  BY FetchedStays, RoutesStay DEF GCInv
<1> QED BY <1>2, <1>5, <1>7, <1>9, <1>10 DEF GCInv

\* Another caller lists.
LEMMA ListAgainKeeps ==
  ASSUME GCInv, NEW kind \in Again, ListAgain(kind)
  PROVE  GCInv'
<1> USE DEF ListAgain
<1>1. Basics /\ kind \in Kinds
  BY GatewayCatalogAssumption DEF GCInv
<1>2. Basics'
  BY <1>1, BasicsStay
<1>3. PICK b : b = Aggregation("again", kind)
  OBVIOUS
<1>4. ListShaped(b) /\ ListTyped(b) /\ b.by = "again" /\ b.kind = kind /\ b.done = FALSE
  BY <1>1, <1>3, ListStarts
<1>5. ListsKept'
  <2>1. lists' = (lists \ {}) \union {b}
    BY <1>3
  <2>2. ListPlaced(b)'
    BY <1>4 DEF ListPlaced
  <2>3. \A a \in lists \ {} : ListPlaced(a)'
    BY PlacedStays DEF GCInv, ListsKept
  <2> QED BY <1>4, <2>1, <2>2, <2>3, ListsChange DEF GCInv
<1>6. CachedKept' /\ FetchedKept' /\ RoutesHome'
  BY CachedStays, FetchedStays, RoutesStay DEF GCInv
<1>7. RegisteredKept'
  BY RegisteredStays DEF GCInv, Passed
<1> QED BY <1>2, <1>5, <1>6, <1>7 DEF GCInv

\* The start-up begins with the tools.
LEMMA AllConnectedKeeps ==
  ASSUME GCInv, AllConnected
  PROVE  GCInv'
<1> USE DEF AllConnected
<1>1. Basics /\ phase = "connecting" /\ phase' = "tool" /\ upstreams' = upstreams
  BY DEF GCInv
<1>2. Basics'
  <2>1. EnabledNames' = EnabledNames
    BY EnabledStays
  <2>2. OrderKept'
    BY <1>1, <2>1 DEF Basics, OrderKept
  <2> QED BY <1>1, <2>2 DEF Basics, Kinds
<1>3. PICK b : b = Aggregation("boot", "tool")
  OBVIOUS
<1>4. ListShaped(b) /\ ListTyped(b) /\ b.by = "boot" /\ b.kind = "tool" /\ b.done = FALSE
  <2>1. "tool" \in Kinds
    BY DEF Kinds
  <2> QED BY <1>1, <1>3, <2>1, ListStarts
<1>5. \A a \in lists : a.by = "again" /\ a.kind \in Again
  BY <1>1 DEF GCInv, ListsKept, ListPlaced, ListTyped, Kinds
<1>6. ListsKept'
  <2>1. lists' = (lists \ {}) \union {b}
    BY <1>3
  <2>2. ListPlaced(b)'
    BY <1>1, <1>4 DEF ListPlaced
  <2>3. \A a \in lists \ {} : ListPlaced(a)'
    BY <1>5 DEF ListPlaced
  <2>4. \A a \in lists \ {} : a.by # "boot"
    BY <1>5
  <2> QED BY <1>1, <1>4, <2>1, <2>2, <2>3, <2>4, ListsChange DEF GCInv
<1>7. CachedKept' /\ FetchedKept' /\ RoutesHome'
  BY CachedStays, FetchedStays, RoutesStay DEF GCInv
<1>8. RegisteredKept'
  BY <1>1, RegisteredStays DEF GCInv, Passed
<1> QED BY <1>2, <1>6, <1>7, <1>8 DEF GCInv

\* The start-up registers what it fetched and goes on to the next kind.
LEMMA RegisterFetchedKeeps ==
  ASSUME GCInv, NEW a \in lists, RegisterFetched(a)
  PROVE  GCInv'
<1> USE DEF RegisterFetched
<1>1. /\ ListShaped(a) /\ ListTyped(a) /\ ListPlaced(a) /\ Basics /\ RegisteredKept /\ FetchedKept
      /\ a.by = "boot" /\ a.kind = phase /\ a.kind \in Kinds /\ a.done
      /\ upstreams' = upstreams /\ cached' = cached
  BY DEF GCInv, ListsKept, ListTyped, Registers
<1>2. PICK items : items = AllItems(a)
  OBVIOUS
<1>3. PICK O : O = Offered(a.kind)
  OBVIOUS
<1>4. items \in Seq(O)
  BY <1>1, <1>2, <1>3, ItemsTyped
<1>5. \A i \in O : i.kind = a.kind
  BY <1>3 DEF Offered, OfferedBy, Item
<1>6. ToSet(items) \subseteq O
  BY <1>4 DEF ToSet
<1>7. phase' \in {"resource", "prompt", "template", "up"} /\ phase' # phase /\ phase' = Following[a.kind]
  BY <1>1 DEF Kinds, Following
<1>8. /\ \A k \in Kinds : Passed(k) => Passed(k)'
      /\ Passed(a.kind)'
  BY <1>1 DEF Kinds, Following, Passed
<1>9. Basics'
  <2>1. EnabledNames' = EnabledNames
    BY <1>1, EnabledStays
  <2>2. OrderKept'
    BY <1>1, <2>1 DEF Basics, OrderKept
  <2>3. phase' \in {"new", "connecting", "up", "failed"} \union Kinds /\ phase' # "failed"
    BY <1>7 DEF Kinds
  <2> QED BY <1>1, <2>2, <2>3 DEF Basics
<1>10. ASSUME NEW c \in lists \ {a} PROVE c.by # "boot" /\ ListPlaced(c)'
  <2>1. c.by = "again" /\ c.kind \in Again
    BY <1>1 DEF GCInv, ListsKept, ListPlaced
  <2> QED BY <2>1 DEF ListPlaced
<1>11. ListsKept'
  <2>1. CASE phase' = "up"
    <3>1. lists' = lists \ {a}
      BY <2>1
    <3> QED BY <1>1, <1>10, <3>1, ListsShrink DEF GCInv
  <2>2. CASE phase' # "up"
    <3>1. PICK k \in Kinds : k = phase'
      BY <1>7, <2>2 DEF Kinds
    <3>2. PICK b : b = Aggregation("boot", k)
      OBVIOUS
    <3>3. ListShaped(b) /\ ListTyped(b) /\ b.by = "boot" /\ b.kind = k /\ b.done = FALSE
      <4>1. Basics
        BY <1>1
      <4> QED BY <3>2, <4>1, ListStarts
    <3>4. ListPlaced(b)'
      BY <3>1, <3>3 DEF ListPlaced
    <3>5. lists' = (lists \ {a}) \union {b}
      BY <2>2, <3>1, <3>2
    <3> QED BY <1>1, <1>10, <3>3, <3>4, <3>5, ListsChange DEF GCInv
  <2> QED BY <2>1, <2>2
<1>12. CachedKept'
  BY CachedStays DEF GCInv
<1>13. /\ IsFiniteSet(registered')
       /\ registered' \subseteq registered \union ToSet(items)
       /\ \A i, j \in registered' : SameEntry(i, j) => i = j
       /\ \A i \in registered \union ToSet(items) : \E r \in registered' : SameEntry(r, i)
  <2>1. registered' = Registering(registered, items)
    BY <1>2 DEF ToRegister
  <2>2. IsFiniteSet(registered) /\ \A i, j \in registered : SameEntry(i, j) => i = j
    BY <1>1 DEF RegisteredKept
  <2> QED BY <1>4, <2>1, <2>2, RegisteringIs
<1>14. RegisteredKept'
  <2>1. ASSUME NEW i \in registered'
        PROVE  i.kind \in Kinds /\ i \in Offered(i.kind) /\ Passed(i.kind)'
    <3>1. CASE i \in registered
      BY <1>1, <1>8, <3>1 DEF RegisteredKept
    <3>2. CASE i \in ToSet(items)
      <4>1. i \in O /\ i.kind = a.kind
        BY <1>5, <1>6, <3>2
      <4> QED BY <1>1, <1>3, <1>8, <4>1
    <3> QED BY <1>13, <3>1, <3>2
  <2>2. ASSUME NEW i \in registered', i.kind \notin Again
        PROVE  i \in ToSet(cached[i.kind])
    <3>1. CASE i \in registered
      BY <1>1, <2>2, <3>1 DEF RegisteredKept
    <3>2. CASE i \in ToSet(items)
      <4>1. i.kind = a.kind
        BY <1>5, <1>6, <3>2
      <4>2. cached[a.kind] = items
        BY <1>1, <1>2, <2>2, <4>1 DEF ListPlaced
      <4> QED BY <3>2, <4>1, <4>2
    <3> QED BY <1>13, <3>1, <3>2
  <2>3. \A i \in registered' : i \in Offered(i.kind)'
    BY <1>1, <2>1, OfferedStays
  <2>4. \A i, j \in registered' : SameEntry(i, j)' => i = j
    BY <1>13 DEF SameEntry
  <2> QED BY <1>1, <1>13, <2>1, <2>2, <2>3, <2>4 DEF RegisteredKept
<1>15. FetchedKept'
  <2> SUFFICES ASSUME NEW i \in fetched'
               PROVE  /\ i.kind \in Kinds /\ i \in Offered(i.kind)
                      /\ \E r \in registered' : SameEntry(r, i)
    BY <1>1, OfferedStays DEF FetchedKept, SameEntry
  <2>1. CASE i \in fetched
    <3>1. PICK q \in registered : SameEntry(q, i)
      BY <1>1, <2>1 DEF FetchedKept
    <3>2. PICK r \in registered' : SameEntry(r, q)
      BY <1>13
    <3>3. SameEntry(r, i)
      BY <3>1, <3>2 DEF SameEntry
    <3> QED BY <1>1, <2>1, <3>3 DEF FetchedKept
  <2>2. CASE i \in ToSet(items)
    <3>1. i \in O /\ i.kind = a.kind
      BY <1>5, <1>6, <2>2
    <3> QED BY <1>1, <1>3, <1>13, <2>2, <3>1
  <2> QED BY <1>2, <2>1, <2>2
<1>16. RoutesHome'
  BY <1>1, RoutesStay DEF GCInv
<1> QED BY <1>9, <1>11, <1>12, <1>14, <1>15, <1>16 DEF GCInv

\* The start-up fails where a listener throws: part of what it fetched is registered.
LEMMA RegistrationThrowsKeeps ==
  ASSUME GCInv, NEW a \in lists, RegistrationThrows(a)
  PROVE  GCInv'
<1> USE DEF RegistrationThrows
<1>1. /\ ListShaped(a) /\ ListTyped(a) /\ ListPlaced(a) /\ Basics /\ RegisteredKept /\ FetchedKept
      /\ a.by = "boot" /\ a.kind = phase /\ a.kind \in Kinds /\ a.done /\ stdio
      /\ upstreams' = upstreams /\ cached' = cached /\ phase' = "failed" /\ lists' = lists \ {a}
  BY DEF GCInv, ListsKept, ListTyped, Registers
<1>2. PICK items : items = AllItems(a)
  OBVIOUS
<1>3. PICK O : O = Offered(a.kind)
  OBVIOUS
<1>4. items \in Seq(O)
  BY <1>1, <1>2, <1>3, ItemsTyped
<1>5. PICK some \in Seq(O) : registered' = Registering(registered, some)
                           /\ ToSet(some) \subseteq ToSet(items)
  <2>1. PICK n \in DOMAIN items : registered' = Registering(registered, SubSeq(items, 1, n))
    BY <1>2 DEF ToRegister
  <2>2. n \in 1 .. Len(items)
    BY <1>4, <2>1
  <2>3. PICK some : some = SubSeq(items, 1, n)
    OBVIOUS
  <2>4. some \in Seq(O) /\ Len(some) = n /\ \A i \in 1 .. n : some[i] = items[i]
    BY <1>4, <2>2, <2>3
  <2>5. ToSet(some) \subseteq ToSet(items)
    BY <1>4, <2>2, <2>4 DEF ToSet
  <2> QED BY <2>1, <2>3, <2>4, <2>5
<1>6. \A i \in ToSet(items) : i \in O /\ i.kind = a.kind
  BY <1>3, <1>4 DEF ToSet, Offered, OfferedBy, Item
<1>7. \A k \in Kinds : Passed(k)'
  BY <1>1 DEF Passed
<1>8. Basics'
  <2>1. EnabledNames' = EnabledNames
    BY <1>1, EnabledStays
  <2>2. OrderKept'
    BY <1>1, <2>1 DEF Basics, OrderKept
  <2> QED BY <1>1, <2>2 DEF Basics
<1>9. ListsKept'
  <2>1. ASSUME NEW c \in lists \ {a} PROVE ListPlaced(c)'
    <3>1. c.by = "again" /\ c.kind \in Again
      BY <1>1 DEF GCInv, ListsKept, ListPlaced
    <3> QED BY <3>1 DEF ListPlaced
  <2> QED BY <1>1, <2>1, ListsShrink DEF GCInv
<1>10. CachedKept'
  BY CachedStays DEF GCInv
<1>11. /\ IsFiniteSet(registered')
       /\ registered' \subseteq registered \union ToSet(items)
       /\ \A i, j \in registered' : SameEntry(i, j) => i = j
       /\ \A i \in registered : \E r \in registered' : SameEntry(r, i)
  <2>1. IsFiniteSet(registered) /\ \A i, j \in registered : SameEntry(i, j) => i = j
    BY <1>1 DEF RegisteredKept
  <2> QED BY <1>5, <2>1, RegisteringIs
<1>12. RegisteredKept'
  <2>1. ASSUME NEW i \in registered'
        PROVE  i.kind \in Kinds /\ i \in Offered(i.kind)
    BY <1>1, <1>3, <1>6, <1>11 DEF RegisteredKept
  <2>2. ASSUME NEW i \in registered', i.kind \notin Again
        PROVE  i \in ToSet(cached[i.kind])
    <3>1. CASE i \in registered
      BY <1>1, <2>2, <3>1 DEF RegisteredKept
    <3>2. CASE i \in ToSet(items)
      BY <1>1, <1>2, <1>6, <2>2, <3>2 DEF ListPlaced
    <3> QED BY <1>11, <3>1, <3>2
  <2>3. \A i \in registered' : i \in Offered(i.kind)'
    BY <1>1, <2>1, OfferedStays
  <2>4. \A i, j \in registered' : SameEntry(i, j)' => i = j
    BY <1>11 DEF SameEntry
  <2> QED BY <1>1, <1>7, <1>11, <2>1, <2>2, <2>3, <2>4 DEF RegisteredKept
<1>13. FetchedKept'
  <2> SUFFICES ASSUME NEW i \in fetched
               PROVE  /\ i.kind \in Kinds /\ i \in Offered(i.kind)
                      /\ \E r \in registered' : SameEntry(r, i)
    BY <1>1, OfferedStays DEF FetchedKept, SameEntry
  <2>1. PICK q \in registered : SameEntry(q, i)
    BY <1>1 DEF FetchedKept
  <2>2. PICK r \in registered' : SameEntry(r, q)
    BY <1>11
  <2>3. SameEntry(r, i)
    BY <2>1, <2>2 DEF SameEntry
  <2> QED BY <1>1, <2>3 DEF FetchedKept
<1>14. RoutesHome'
  BY <1>1, RoutesStay DEF GCInv
<1> QED BY <1>8, <1>9, <1>10, <1>12, <1>13, <1>14 DEF GCInv

(***************************************************************************)
(* Requests                                                                *)
(***************************************************************************)
\* What the steps of requests leave alone.
RequestsOnly ==
  UNCHANGED <<upstreams, stdio, phase, order, status, lists, cached, registered, completions,
              fetched, faults>>

\* They keep all but where the request goes.
LEMMA RequestOnly ==
  ASSUME GCInv, RequestsOnly, RoutesHome'
  PROVE  GCInv'
<1> USE DEF RequestsOnly
<1>1. Basics'
  BY BasicsStay DEF GCInv
<1>2. ListsKept'
  BY PlacedStays, ListsStay DEF GCInv, ListsKept
<1>3. CachedKept' /\ FetchedKept'
  BY CachedStays, FetchedStays DEF GCInv
<1>4. RegisteredKept'
  BY RegisteredStays DEF GCInv, Passed
<1> QED BY <1>1, <1>2, <1>3, <1>4 DEF GCInv

\* A forwarded request has one destination, and is unknown only without one.
LEMMA ForwardedIs ==
  ASSUME NEW kind, NEW key, NEW to, NEW item, Forwarded(kind, key, to, item)
  PROVE  /\ RequestsOnly
         /\ \E s \in {"unknown", "sent"} :
              /\ s = "unknown" <=> to.upstream \notin Names
              /\ request' = [state |-> s, kind |-> kind, key |-> key, to |-> to, item |-> item]
<1> USE DEF Forwarded
<1>1. CASE to.upstream \notin Names
  <2>1. request' = [[state |-> "sent", kind |-> kind, key |-> key, to |-> to, item |-> item]
                      EXCEPT !.state = "unknown"]
    BY <1>1
  <2>2. request' = [state |-> "unknown", kind |-> kind, key |-> key, to |-> to, item |-> item]
    BY <2>1
  <2> QED BY <1>1, <2>2 DEF RequestsOnly
<1>2. CASE to.upstream \in Names
  <2>1. request' = [state |-> "sent", kind |-> kind, key |-> key, to |-> to, item |-> item]
    BY <1>2
  <2> QED BY <1>2, <2>1 DEF RequestsOnly
<1> QED BY <1>1, <1>2

\* What there is to show of a request for an item, or for a URI under its template.
LEMMA AskedHome ==
  ASSUME upstreams' = upstreams, NEW kind \in Kinds, NEW key, NEW to, NEW item,
         NEW s \in {"unknown", "sent", "rejected"},
         request' = [state |-> s, kind |-> kind, key |-> key, to |-> to, item |-> item],
         Distinct(item.upstream) /\ s = "unknown" => item.kind \in Again,
         Distinct(item.upstream) /\ s # "unknown" /\ kind # "template" =>
           to = [upstream |-> item.upstream, original |-> item.original],
         Distinct(item.upstream) /\ PlainPrefixes /\ s = "rejected" =>
           ToSet(key) \intersect Malformed # {} \/ SomeBroken,
         Distinct(item.upstream) /\ PlainPrefixes /\ s = "sent" /\ kind = "template" =>
           /\ to.upstream = item.upstream
           /\ Plain(item.upstream) =>
                Decoded(Key("template", item.upstream, to.original)) = Decoded(Before(key, "?"))
  PROVE  RoutesHome'
<1>1. kind # "task" /\ kind # "completion"
  BY DEF Kinds
<1>2. PICK r : r = request' /\ r.state = s /\ r.kind = kind /\ r.key = key /\ r.to = to /\ r.item = item
  OBVIOUS
<1>3. Distinct(item.upstream)' <=> Distinct(item.upstream)
  BY KeyStays
<1>4. Key("template", item.upstream, to.original)' = Key("template", item.upstream, to.original)
  BY KeyStays
<1>5. /\ PlainPrefixes' <=> PlainPrefixes
      /\ SomeBroken' <=> SomeBroken
      /\ Plain(item.upstream)' <=> Plain(item.upstream)
  BY ReadStays
<1>6. ASSUME Distinct(item.upstream), PlainPrefixes, s # "unknown", kind = "template"
      PROVE  ReadHome(item.upstream)'
  <2>1. CASE s = "rejected"
    BY <1>2, <1>5, <1>6, <2>1 DEF ReadHome
  <2>2. CASE s = "sent"
    <3>1. PICK k : k = Key("template", item.upstream, to.original)
                   /\ k = Key("template", item.upstream, to.original)'
      BY <1>4
    <3> QED BY <1>2, <1>5, <1>6, <2>2, <3>1 DEF ReadHome, Decoded
  <2> QED BY <1>6, <2>1, <2>2
<1> QED BY <1>1, <1>2, <1>3, <1>5, <1>6 DEF RoutesHome

\* An item that is registered is of an upstream of the configuration.
LEMMA ItemIs ==
  ASSUME upstreams \in Configs, NEW kind \in Kinds, NEW i \in Offered(kind)
  PROVE  /\ i.upstream \in EnabledNames /\ i.upstream \in Names /\ i.kind = kind
         /\ i.original \in ToSet(Offers[i.upstream][kind]) /\ i.original \in Seq(Words)
         /\ i.key = Key(kind, i.upstream, i.original)
         /\ i = Item(kind, i.upstream, i.original)
<1>1. PICK u \in EnabledNames : i \in OfferedBy(u, kind)
  BY DEF Offered
<1>2. PICK o \in ToSet(Offers[u][kind]) : i = Item(kind, u, o)
  BY <1>1 DEF OfferedBy
<1>3. i.upstream = u /\ i.kind = kind /\ i.original = o /\ i.key = Key(kind, u, o)
  BY <1>2 DEF Item
<1>4. o \in Seq(Words) /\ u \in Names
  BY OriginalTyped, EnabledTyped
<1> QED BY <1>2, <1>3, <1>4

\* The missing upstream is none.
LEMMA NowhereIs ==
  Nowhere.upstream = NoUpstream /\ NoUpstream \notin Names
BY GatewayCatalogAssumption DEF Nowhere

\* A registered item is asked for: its name resolves, or its key is found in what the
\* aggregators keep, where no other item has it.
LEMMA RequestKeeps ==
  ASSUME GCInv, NEW item \in registered, Request(item)
  PROVE  GCInv'
<1>1. PICK kind \in Kinds : kind = item.kind /\ kind # "template" /\ item \in Offered(kind)
  BY DEF GCInv, RegisteredKept, Request
<1>2. PICK to : to = Destination(kind, item.key)
  OBVIOUS
<1>3. Forwarded(kind, item.key, to, item)
  BY <1>1, <1>2 DEF Request
<1>4. PICK s \in {"unknown", "sent"} :
        /\ s = "unknown" <=> to.upstream \notin Names
        /\ request' = [state |-> s, kind |-> kind, key |-> item.key, to |-> to, item |-> item]
  BY <1>3, ForwardedIs
<1>5. RequestsOnly /\ upstreams' = upstreams
  <2>1. RequestsOnly
    BY <1>3, ForwardedIs
  <2> QED BY <2>1 DEF RequestsOnly
<1>6. upstreams \in Configs
  BY DEF GCInv, Basics
<1>7. PICK u \in EnabledNames : u = item.upstream /\ u \in Names
  BY <1>1, <1>6, ItemIs
<1>8. PICK o \in Seq(Words) : o = item.original
  BY <1>1, <1>6, ItemIs
<1>9. item.key = Key(kind, u, o)
  BY <1>1, <1>6, <1>7, <1>8, ItemIs
<1>10. ASSUME Distinct(u)
       PROVE  /\ s = "unknown" => kind \in Again
              /\ s # "unknown" => to = [upstream |-> u, original |-> o]
  <2>1. CASE kind = "tool"
    <3>1. to = Resolve(Key("tool", u, o))
      BY <1>2, <1>9, <2>1 DEF Destination
    <3>2. to = [upstream |-> u, original |-> o]
      BY <1>6, <1>10, <3>1, ResolvesHome
    <3> QED BY <1>4, <1>7, <3>2
  <2>2. CASE kind # "tool"
    <3>1. to = Find(kind, item.key)
      BY <1>1, <1>2, <2>2 DEF Destination, Kinds
    <3>2. PICK list \in Seq(Offered(kind)) : list = cached[kind]
      BY DEF GCInv, CachedKept
    <3>3. CASE to = Nowhere /\ \A n \in 1 .. Len(list) : list[n].key # item.key
      <4>1. s = "unknown"
        BY <1>4, <3>3, NowhereIs
      <4>2. item \notin ToSet(list)
        BY <3>3 DEF ToSet
      <4>3. kind \in Again
        BY <1>1, <3>2, <4>2 DEF GCInv, RegisteredKept
      <4> QED BY <4>1, <4>3
    <3>4. CASE \E n \in 1 .. Len(list) :
                 /\ list[n].key = item.key
                 /\ to = [upstream |-> list[n].upstream, original |-> list[n].original]
      <4>1. PICK n \in 1 .. Len(list) :
                 /\ list[n].key = item.key
                 /\ to = [upstream |-> list[n].upstream, original |-> list[n].original]
        BY <3>4
      <4>2. PICK j \in Offered(kind) : j = list[n]
        BY <4>1
      <4>3. item = j
        <5>1. item.key = j.key /\ Distinct(item.upstream) /\ item \in Offered(kind)
          BY <1>1, <1>7, <1>10, <4>1, <4>2
        <5> QED BY <1>6, <5>1, KeyTells
      <4>4. to = [upstream |-> u, original |-> o]
        BY <1>7, <1>8, <4>1, <4>2, <4>3
      <4> QED BY <1>4, <1>7, <4>4
    <3>5. \/ to = Nowhere /\ \A n \in 1 .. Len(list) : list[n].key # item.key
          \/ \E n \in 1 .. Len(list) :
                 /\ list[n].key = item.key
                 /\ to = [upstream |-> list[n].upstream, original |-> list[n].original]
      <4>1. Finds(kind, item.key, list)
        BY <3>2, FindIs
      <4> QED BY <3>1, <4>1 DEF Finds
    <3> QED BY <3>3, <3>4, <3>5
  <2> QED BY <2>1, <2>2
<1>11. RoutesHome'
  BY <1>1, <1>4, <1>5, <1>7, <1>8, <1>10, AskedHome
<1> QED BY <1>5, <1>11, RequestOnly

\* A URI is read: the first template that matches is of the same upstream, and gives
\* back the URI.
LEMMA ReadKeeps ==
  ASSUME GCInv, NEW item \in registered, NEW uri \in Uris, Read(item, uri)
  PROVE  GCInv'
<1>1. /\ item.kind = "template" /\ "template" \in Kinds /\ item \in Offered("template")
      /\ MatchUriTemplate(item.key, uri)
  BY DEF GCInv, RegisteredKept, Read, Serves, Kinds
<1>2. PICK to : to = FindTemplate(uri)
  OBVIOUS
<1>3. Forwarded("template", uri, to, item) /\ ~WalkThrows(uri)
  BY <1>2 DEF Read, Destination
<1>4. PICK s \in {"unknown", "sent"} :
        /\ s = "unknown" <=> to.upstream \notin Names
        /\ request' = [state |-> s, kind |-> "template", key |-> uri, to |-> to, item |-> item]
  BY <1>3, ForwardedIs
<1>5. RequestsOnly /\ upstreams' = upstreams
  <2>1. RequestsOnly
    BY <1>3, ForwardedIs
  <2> QED BY <2>1 DEF RequestsOnly
<1>6. upstreams \in Configs /\ uri \in Seq(Words)
  BY GatewayCatalogAssumption DEF GCInv, Basics
<1>7. PICK u \in EnabledNames : u = item.upstream /\ u \in Names
  BY <1>1, <1>6, ItemIs
<1>8. PICK o \in Seq(Words) : o = item.original
  BY <1>1, <1>6, ItemIs
<1>9. item.key = Key("template", u, o)
  BY <1>1, <1>6, <1>7, <1>8, ItemIs
<1>10. PICK list \in Seq(Offered("template")) : list = cached["template"]
  BY <1>1 DEF GCInv, CachedKept
<1>11. ASSUME Walked(uri) = 0 /\ \A n \in 1 .. Len(list) : ~MatchUriTemplate(list[n].key, uri)
       PROVE  RoutesHome'
  <2>1. s = "unknown"
    <3>1. to = Nowhere
      BY <1>2, <1>11 DEF FindTemplate
    <3> QED BY <1>4, <3>1, NowhereIs
  <2>2. item \notin ToSet(list)
    BY <1>1, <1>11 DEF ToSet
  <2>3. item.kind \in Again
    BY <1>1, <1>10, <2>2 DEF GCInv, RegisteredKept
  <2> QED BY <1>1, <1>4, <1>5, <2>1, <2>3, AskedHome
<1>12. ASSUME \E n \in 1 .. Len(list) :
                /\ Walked(uri) = n
                /\ MatchUriTemplate(list[n].key, uri) \/ Throws(list[n].key, uri)
       PROVE  RoutesHome'
  <2>1. PICK n \in 1 .. Len(list) :
              /\ Walked(uri) = n
              /\ MatchUriTemplate(list[n].key, uri) \/ Throws(list[n].key, uri)
    BY <1>12
  <2>2. PICK j \in Offered("template") : j = list[n]
    OBVIOUS
  <2>3. n # 0 /\ cached["template"][n] = j
    BY <1>10, <2>2
  <2>4. MatchUriTemplate(j.key, uri) /\ ~Throws(j.key, uri)
    BY <1>3, <2>1, <2>2, <2>3 DEF WalkThrows
  <2>5. PICK v \in EnabledNames : v = j.upstream /\ v \in Names
    BY <1>1, <1>6, ItemIs
  <2>6. PICK p \in Seq(Words) : p = j.original /\ p \in ToSet(Offers[v]["template"])
    BY <1>1, <1>6, <2>5, ItemIs
  <2>7. j.key = Key("template", v, p)
    BY <1>1, <1>6, <2>5, <2>6, ItemIs
  <2>8. to = [upstream |-> v, original |-> ExpandUriTemplate(p, Params(Key("template", v, p), uri))]
    BY <1>2, <2>1, <2>3, <2>5, <2>6, <2>7 DEF FindTemplate
  <2>9. s = "sent"
    BY <1>4, <2>5, <2>8
  <2>10. ASSUME Distinct(u), PlainPrefixes
         PROVE  /\ to.upstream = u
                /\ Plain(u) => Decoded(Key("template", u, to.original)) = Decoded(Before(uri, "?"))
    <3>1. /\ MatchUriTemplate(Key("template", u, o), uri)
          /\ MatchUriTemplate(Key("template", v, p), uri)
      BY <1>1, <1>9, <2>4, <2>7
    <3>2. v = u
      BY <1>6, <2>10, <3>1, MatchOwn
    <3>3. ASSUME Plain(u)
          PROVE  Decoded(Key("template", u, to.original)) = Decoded(Before(uri, "?"))
      <4>1. /\ ToSet(p) \intersect Patterns = {}
            /\ \A m, n1 \in DOMAIN PathOf(p) :
                 PathOf(p)[m] = PathOf(p)[n1] /\ PathOf(p)[n1] \in PathParams => m = n1
        BY <2>6, <3>2, <3>3 DEF Plain
      <4>2. MatchUriTemplate(Key("template", u, p), uri) /\ ~Throws(Key("template", u, p), uri)
        BY <2>4, <2>7, <3>2
      <4>3. Decoded(Key("template", u, ExpandUriTemplate(p, Params(Key("template", u, p), uri))))
              = Decoded(Before(uri, "?"))
        BY <1>6, <2>10, <4>1, <4>2, ExpandsBack
      <4> QED BY <2>8, <3>2, <4>3
    <3> QED BY <2>8, <3>2, <3>3
  <2> QED BY <1>1, <1>4, <1>5, <1>7, <2>9, <2>10, AskedHome
<1>13. RoutesHome'
  <2>1. Walks(uri, list)
    BY <1>10, WalkedIs
  <2> QED BY <1>11, <1>12, <2>1 DEF Walks
<1> QED BY <1>5, <1>13, RequestOnly

\* A template that makes no expression is one of an upstream's own, if prefixes are plain.
LEMMA BrokenIs ==
  ASSUME upstreams \in Configs, NEW v \in EnabledNames, Prefixed, PlainPrefixes,
         NEW p \in Seq(Words), p \in ToSet(Offers[v]["template"]),
         NEW word \in Broken, word \in ToSet(PathOf(Key("template", v, p)))
  PROVE  SomeBroken
<1>1. PICK x \in Seq(Words) : x = PrefixOf(v)
  BY PrefixIs
<1>2. PICK sep \in Words : sep = "://" /\ sep \notin Patterns
  BY GatewayCatalogAssumption
<1>3. PICK m \in Seq(Words) : m = <<sep>> /\ Len(m) = 1 /\ m[1] = sep
  <2>1. <<sep>> \in Seq(Words) /\ Len(<<sep>>) = 1 /\ <<sep>>[1] = sep
    OBVIOUS
  <2> QED BY <2>1
<1>4. PICK key : key = (x \o m) \o p /\ key = Key("template", v, p)
  <2>1. Separator("template") = "://" /\ "template" \in Kinds
    BY DEF Separator, Kinds
  <2>2. Key("template", v, p) = (PrefixOf(v) \o <<Separator("template")>>) \o p
    BY <2>1, KeyIs
  <2> QED BY <1>1, <1>2, <1>3, <2>1, <2>2
<1>5. key \in Seq(Words) /\ Parts(key, x, m, p)
  BY <1>4, PartsAre
<1>6. word \in ToSet(key)
  <2>1. key \in Seq(ToSet(key))
    BY <1>5, InItsOwn
  <2>2. PathOf(key) \in Seq(ToSet(key))
    BY <2>1, WithoutTyped DEF PathOf
  <2>3. PICK path \in Seq(ToSet(key)) : path = PathOf(key)
    BY <2>2
  <2>4. word \in ToSet(path)
    BY <1>4, <2>3
  <2> QED BY <2>4 DEF ToSet
<1>7. PICK i \in 1 .. Len(key) : key[i] = word
  BY <1>5, <1>6 DEF ToSet
<1>8. word \in Patterns
  BY DEF Patterns
<1>9. ~(i \in 1 .. Len(x))
  <2> SUFFICES ASSUME i \in 1 .. Len(x) PROVE FALSE
    OBVIOUS
  <2>1. x[i] = word
    BY <1>5, <1>7 DEF Parts
  <2>2. word \in ToSet(x)
    BY <1>1, <2>1 DEF ToSet
  <2> QED BY <1>1, <1>8, <2>2, PlainPrefix
<1>10. i # Len(x) + 1
  <2>1. 1 \in 1 .. Len(m)
    BY <1>3
  <2>2. key[Len(x) + 1] = sep
    BY <1>3, <1>5, <2>1 DEF Parts
  <2> QED BY <1>2, <1>7, <1>8, <2>2
<1>11. word \in ToSet(p)
  <2>1. Len(x) \in Nat /\ Len(p) \in Nat /\ Len(key) = Len(x) + 1 + Len(p)
    BY <1>1, <1>3, <1>5 DEF Parts
  <2>2. PICK k \in 1 .. Len(p) : i = Len(x) + 1 + k
    <3>1. i - (Len(x) + 1) \in 1 .. Len(p) /\ i = Len(x) + 1 + (i - (Len(x) + 1))
      BY <1>9, <1>10, <2>1
    <3> QED BY <3>1
  <2>3. p[k] = word
    BY <1>3, <1>5, <1>7, <2>2 DEF Parts
  <2> QED BY <2>3 DEF ToSet
<1>12. PICK n \in 1 .. Len(Enabled) : Enabled[n].name = v
  BY PrefixIs
<1>13. n \in DOMAIN Enabled
  BY EnabledTyped
<1> QED BY <1>11, <1>12, <1>13 DEF SomeBroken

\* A read is rejected: part of the URI cannot be decoded, or some template makes no
\* expression.
LEMMA ReadRejectedKeeps ==
  ASSUME GCInv, NEW item \in registered, NEW uri \in Uris, ReadRejected(item, uri)
  PROVE  GCInv'
<1>1. /\ item.kind = "template" /\ "template" \in Kinds
      /\ request' = [state |-> "rejected", kind |-> "template", key |-> uri, to |-> Nowhere,
                     item |-> item]
  BY DEF ReadRejected, Serves, Kinds
<1>2. RequestsOnly /\ upstreams' = upstreams
  BY DEF ReadRejected, RequestsOnly
<1>3. upstreams \in Configs /\ uri \in Seq(Words)
  BY GatewayCatalogAssumption DEF GCInv, Basics
<1>4. PICK list \in Seq(Offered("template")) : list = cached["template"]
  BY <1>1 DEF GCInv, CachedKept
<1>5. PICK n \in 1 .. Len(list) : Throws(list[n].key, uri)
  <2>1. Walked(uri) # 0 /\ Throws(cached["template"][Walked(uri)].key, uri)
    BY DEF ReadRejected, WalkThrows
  <2>2. Walks(uri, list)
    BY <1>4, WalkedIs
  <2> QED BY <1>4, <2>1, <2>2 DEF Walks
<1>6. PICK j \in Offered("template") : j = list[n]
  OBVIOUS
<1>7. PICK v \in EnabledNames : v = j.upstream
  BY <1>1, <1>3, ItemIs
<1>8. PICK p \in Seq(Words) : p = j.original /\ p \in ToSet(Offers[v]["template"])
  BY <1>1, <1>3, <1>7, ItemIs
<1>9. j.key = Key("template", v, p) /\ j.key \in Seq(Words)
  <2>1. j.key = Key("template", v, p)
    BY <1>1, <1>3, <1>7, <1>8, ItemIs
  <2>2. Key("template", v, p) \in Seq(Words)
    BY <1>1, <1>3, KeyIs
  <2> QED BY <2>1, <2>2
<1>10. ASSUME Prefixed, PlainPrefixes
       PROVE  ToSet(uri) \intersect Malformed # {} \/ SomeBroken
  <2>1. PICK path : path = PathOf(j.key)
    OBVIOUS
  <2>2. PICK given : given = Before(uri, "?")
    OBVIOUS
  <2>3. CASE \E i \in DOMAIN path : path[i] \in Broken
    <3>1. PICK i \in DOMAIN path : path[i] \in Broken
      BY <2>3
    <3>2. path[i] \in ToSet(path)
      BY <3>1 DEF ToSet
    <3> QED BY <1>3, <1>8, <1>9, <1>10, <2>1, <3>1, <3>2, BrokenIs
  <2>4. CASE Len(path) = Len(given) /\ \E i \in DOMAIN path : given[i] \in Malformed
    <3>1. uri \in Seq(ToSet(uri))
      BY <1>3, InItsOwn
    <3>2. given \in Seq(ToSet(uri))
      BY <2>2, <3>1, BeforeIs
    <3>3. path \in Seq(Words)
      BY <1>9, <2>1, WithoutTyped DEF PathOf
    <3>4. PICK i \in 1 .. Len(given) : given[i] \in Malformed
      BY <2>4, <3>3
    <3>5. given[i] \in ToSet(uri)
      BY <3>2
    <3> QED BY <3>4, <3>5
  <2> QED BY <1>5, <1>6, <2>1, <2>2, <2>3, <2>4 DEF Throws, MatchUriTemplate
<1>11. RoutesHome'
  <2>1. Distinct(item.upstream) => Prefixed
    BY DEF Distinct
  <2> QED BY <1>1, <1>2, <1>10, <2>1, AskedHome
<1> QED BY <1>2, <1>11, RequestOnly

\* A completion says nothing of where it goes.
LEMMA CompleteRegisteredKeeps ==
  ASSUME GCInv, NEW kind, NEW key, CompleteRegistered(kind, key)
  PROVE  GCInv'
<1>1. PICK to : to = Find(kind, key)
  OBVIOUS
<1>2. PICK item : item = [kind |-> kind, key |-> key]
  OBVIOUS
<1>3. Forwarded("completion", key, to, item)
  BY <1>1, <1>2 DEF CompleteRegistered
<1>4. PICK s \in {"unknown", "sent"} :
        request' = [state |-> s, kind |-> "completion", key |-> key, to |-> to, item |-> item]
  BY <1>3, ForwardedIs
<1>5. RequestsOnly
  BY <1>3, ForwardedIs
<1>6. PICK r : r = request' /\ r.kind = "completion"
  BY <1>4
<1>7. RoutesHome'
  BY <1>6 DEF RoutesHome, Kinds
<1> QED BY <1>5, <1>7, RequestOnly

\* The id of a task holds its upstream.
LEMMA TaskKeeps ==
  ASSUME GCInv, NEW u \in Names, NEW id \in Tasks, Task(u, id)
  PROVE  GCInv'
<1>1. PICK key : key = BuildTaskId(u, id)
  OBVIOUS
<1>2. PICK to : to = ParseTaskId(key)
  OBVIOUS
<1>3. PICK item : item = [kind |-> "task", upstream |-> u, original |-> id]
  OBVIOUS
<1>4. Forwarded("task", key, to, item)
  BY <1>1, <1>2, <1>3 DEF Task, Destination
<1>5. PICK s \in {"unknown", "sent"} :
        request' = [state |-> s, kind |-> "task", key |-> key, to |-> to, item |-> item]
  BY <1>4, ForwardedIs
<1>6. RequestsOnly
  BY <1>4, ForwardedIs
<1>7. id \in Seq(Words)
  BY GatewayCatalogAssumption
<1>8. Contains(u, "::") \/ to = [upstream |-> u, original |-> id]
  BY <1>1, <1>2, <1>7, TaskHome
<1>9. PICK r : /\ r = request' /\ r.kind = "task" /\ r.to = to
               /\ r.item.upstream = u /\ r.item.original = id
  BY <1>3, <1>5
<1>10. RoutesHome'
  BY <1>8, <1>9 DEF RoutesHome, Kinds
<1> QED BY <1>6, <1>10, RequestOnly

\* The request is over.
LEMMA RequestEndsKeeps ==
  ASSUME GCInv, RequestEnds
  PROVE  GCInv'
<1>1. RequestsOnly /\ request' = NoRequest'
  BY DEF RequestEnds, RequestsOnly, NoRequest
<1>2. RoutesHome'
  BY <1>1 DEF RoutesHome
<1> QED BY <1>1, <1>2, RequestOnly

(***************************************************************************)
(* All steps                                                               *)
(***************************************************************************)
LEMMA InvStep == GCInv /\ [GCNext]_gcVars => GCInv'
<1> SUFFICES ASSUME GCInv, [GCNext]_gcVars PROVE GCInv'
  OBVIOUS
<1>1. CASE Bootstrap
  BY <1>1, BootstrapKeeps
<1>2. CASE AllConnected
  BY <1>2, AllConnectedKeeps
<1>3. CASE RequestEnds
  BY <1>3, RequestEndsKeeps
<1>4. ASSUME NEW u \in Names, ConnectEnds(u) \/ Health(u) \/ Disconnect(u) \/ Connect(u)
      PROVE  GCInv'
  BY <1>4, ConnectEndsKeeps, HealthKeeps, DisconnectKeeps, ConnectKeeps
<1>5. ASSUME NEW a \in lists,
             \/ Aggregated(a) \/ RegisterFetched(a) \/ RegistrationThrows(a)
             \/ \E u \in a.pending : Fetched(a, u)
      PROVE  GCInv'
  BY <1>5, AggregatedKeeps, RegisterFetchedKeeps, RegistrationThrowsKeeps, FetchedKeeps
<1>6. ASSUME NEW kind \in Again, ListAgain(kind)
      PROVE  GCInv'
  BY <1>6, ListAgainKeeps
<1>7. ASSUME NEW item \in registered,
             Request(item) \/ \E uri \in Uris : Read(item, uri) \/ ReadRejected(item, uri)
      PROVE  GCInv'
  BY <1>7, RequestKeeps, ReadKeeps, ReadRejectedKeeps
<1>8. ASSUME NEW c \in completions, CompleteRegistered(c[1], c[2])
      PROVE  GCInv'
  BY <1>8, CompleteRegisteredKeeps
<1>9. ASSUME NEW u \in Names, NEW id \in Tasks, Task(u, id)
      PROVE  GCInv'
  BY <1>9, TaskKeeps
<1>10. CASE UNCHANGED gcVars
  <2>1. RequestsOnly /\ request' = request /\ upstreams' = upstreams
    BY <1>10 DEF gcVars, RequestsOnly
  <2>2. RoutesHome'
    BY <2>1, RoutesStay DEF GCInv
  <2> QED BY <2>1, <2>2, RequestOnly
<1> QED BY <1>1, <1>2, <1>3, <1>4, <1>5, <1>6, <1>7, <1>8, <1>9, <1>10 DEF GCNext

\* The invariant holds in every state.
LEMMA GCInvHolds == GCSpec => []GCInv
<1>1. GCInit /\ [][GCNext]_gcVars => []GCInv
  BY InvInit, InvStep, PTL
<1> QED BY <1>1, PTL DEF GCSpec

\* The start-up registers all it fetched (mcp-gateway.module.ts), for every
\* configuration and offer, whoever else lists meanwhile, unless the listener of the
\* stdio transport throws: then it fails, and nothing else makes it fail.
THEOREM BootsWhole == GCSpec => []BootRegistersAll
BY GCInvHolds, InvEnough, PTL

\* And requests go home (router.service.ts, gateway.service.ts), for every
\* configuration, offer and URI; what is read through a template goes as the URI its
\* upstream knows, up to the encoding of its segments, or is rejected with a cause.
THEOREM RequestsGoHome == GCSpec => []RoutesHome
BY GCInvHolds, InvEnough, PTL
================================================================================
