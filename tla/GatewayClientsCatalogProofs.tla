--------------------- MODULE GatewayClientsCatalogProofs ---------------------
(***************************************************************************)
(* Proofs about Gateway, ClientSet and ServerCatalog, which share the      *)
(* lemmas on sequences below.  Of the gateway: an upstream's sampling      *)
(* requests reach only a client it is serving, and the response cache      *)
(* holds what some call was given without error, within its bounds.  Of    *)
(* the clients of McpClientModule: each name keeps one client, none is     *)
(* left connected behind but by its own loop, and a walk over the array    *)
(* reaches all.  Of a server's catalog: what it lists and what it runs     *)
(* stay one, no tool gets out of a client's reach, and a listing read page *)
(* by page loses no more than what changed under it.                       *)
(***************************************************************************)
EXTENDS Gateway, ClientSet, ServerCatalog, FiniteSetTheorems, SequenceTheorems, WellFoundedInduction, NaturalsInduction, TLAPS

Phases == {"idle", "refused", "served", "requesting", "thrown", "forwarded",
           "responding", "ok", "error"}

\* What the argument needs of the types.
CallsTyped ==
  /\ call \in [Calls -> Phases]
  /\ key \in [Calls -> Keys \union {None}]
  /\ forwarder \in [Upstreams -> Calls \union {None}]

\* A call that is past the routing was routed somewhere.
Routed == \A c \in Calls : call[c] = "requesting" => key[c] \in Keys /\ Route[key[c]] # None

\* Calls whose client cannot sample install no forwarder, and remove none.
OnlySampling == \A u \in Upstreams : forwarder[u] # None => forwarder[u] \in Sampling

IInv == CallsTyped /\ Routed /\ OnlySampling /\ ForwarderServes

\* The invariant holds at the start.
LEMMA InitKeeps == Init => IInv
BY GatewayAssumption
DEF Init, IInv, CallsTyped, Phases, Routed, OnlySampling, ForwarderServes

\* A call that leaves the running phases has taken its forwarder with it: what is
\* left leads to another call, which is running still.
LEMMA DeactivateKeeps ==
  ASSUME IInv, NEW c \in Calls, call[c] \in Running, NEW end \in Phases \ {"requesting"},
         call' = [call EXCEPT ![c] = end], forwarder' = Deactivate(c), key' = key
  PROVE  IInv'
<1> USE GatewayAssumption
<1>1. CallsTyped'
  BY DEF IInv, CallsTyped, Deactivate
<1>2. Routed'
  BY DEF IInv, CallsTyped, Routed, Phases
<1>3. ASSUME NEW u \in Upstreams, forwarder'[u] # None
      PROVE  forwarder'[u] = forwarder[u] /\ forwarder[u] # c
  <2>1. CASE c \in Sampling
    BY <1>3, <2>1 DEF IInv, CallsTyped, ForwarderServes, Deactivate
  <2>2. CASE c \notin Sampling
    BY <1>3, <2>2 DEF IInv, OnlySampling, Deactivate
  <2> QED
    BY <2>1, <2>2
<1>4. OnlySampling'
  BY <1>3 DEF IInv, OnlySampling
<1>5. ForwarderServes'
  BY <1>3 DEF IInv, CallsTyped, ForwarderServes, Server
<1> QED
  BY <1>1, <1>2, <1>4, <1>5 DEF IInv

\* Every step of the gateway keeps it.
LEMMA NextKeeps == IInv /\ [Next]_vars => IInv'
<1> SUFFICES ASSUME IInv, [Next]_vars PROVE IInv'
  OBVIOUS
<1> USE GatewayAssumption
<1>0. CallsTyped /\ Routed /\ OnlySampling /\ ForwarderServes
  BY DEF IInv
<1>same. ASSUME UNCHANGED <<call, key, forwarder>> PROVE IInv'
  BY <1>0, <1>same
  DEF IInv, CallsTyped, Routed, OnlySampling, ForwarderServes, Server
<1>1. ASSUME NEW u \in Upstreams,
             \/ Connect(u) \/ ConnectEnds(u) \/ Disconnect(u) \/ Disconnected(u)
             \/ Network(u) \/ Ping(u) \/ Checked(u)
      PROVE  IInv'
  BY <1>1, <1>same
  DEF Connect, ConnectEnds, Disconnect, Disconnected, Network, Ping, Checked
<1>2. ASSUME NEW k \in Keys, Age(k) \/ Invalidate(k) PROVE IInv'
  BY <1>2, <1>same DEF Age, Invalidate
<1>3. CASE EvictExpired
  BY <1>3, <1>same DEF EvictExpired
<1>4. ASSUME NEW c \in Calls, NEW k \in Keys, Deny(c, k) \/ CallTool(c, k) PROVE IInv'
  <2>1. /\ call[c] = "idle"
        /\ key' = [key EXCEPT ![c] = k]
        /\ UNCHANGED forwarder
        /\ \E to \in {"refused", "served", "requesting"} :
             /\ call' = [call EXCEPT ![c] = to]
             /\ to = "requesting" => Route[k] # None
    BY <1>4 DEF Deny, CallTool
  <2>2. CallsTyped' /\ Routed'
    BY <1>0, <2>1 DEF CallsTyped, Routed, Phases
  <2>3. \A u \in Upstreams : forwarder[u] # c
    BY <1>0, <2>1 DEF ForwarderServes, Running
  <2> QED
    BY <1>0, <2>1, <2>2, <2>3
    DEF IInv, CallsTyped, OnlySampling, ForwarderServes, Server
<1>5. ASSUME NEW c \in Calls, TransformThrows(c) PROVE IInv'
  BY <1>0, <1>5
  DEF TransformThrows, IInv, CallsTyped, Phases, Routed, OnlySampling, ForwarderServes,
      Running, Server
<1>6. ASSUME NEW c \in Calls, Forward(c) PROVE IInv'
  <2>1. Server(c) \in Upstreams
    BY <1>0, <1>6 DEF Forward, Routed, Server
  <2> QED
    BY <1>0, <1>6, <2>1
    DEF Forward, IInv, CallsTyped, Phases, Routed, OnlySampling, ForwarderServes,
        Running, Server
<1>7. ASSUME NEW c \in Calls, Answered(c) PROVE IInv'
  BY <1>0, <1>7
  DEF Answered, IInv, CallsTyped, Phases, Routed, OnlySampling, ForwarderServes,
      Running, Server
<1>8. ASSUME NEW c \in Calls, Respond(c) \/ Breaks(c) \/ TimesOut(c) PROVE IInv'
  <2>1. /\ call[c] \in Running
        /\ \E end \in {"ok", "error"} : call' = [call EXCEPT ![c] = end]
        /\ forwarder' = Deactivate(c)
        /\ key' = key
    BY <1>8
    DEF Respond, Succeeds, RespondsInError, Breaks, TimesOut, Fails, Running
  <2> QED
    BY <2>1, DeactivateKeeps DEF Phases
<1>9. CASE UNCHANGED vars
  BY <1>9, <1>same DEF vars
<1> QED
  BY <1>1, <1>2, <1>3, <1>4, <1>5, <1>6, <1>7, <1>8, <1>9 DEF Next, Prepare

\* However calls on one upstream overwrite and delete each other's forwarder, one
\* that is there leads to a call now running on that upstream (callTool,
\* activateSamplingForwarder and its finally).
THEOREM ForwardersServe == Spec => []ForwarderServes
<1>1. IInv => ForwarderServes
  BY DEF IInv
<1> QED
  BY InitKeeps, NextKeeps, <1>1, PTL DEF Spec

-----------------------------------------------------------------------------
(* Sequences, and what Without leaves of them. *)

\* Induction over the numbers up to n, for a set of them.
LEMMA UpTo ==
  ASSUME NEW n \in Nat, NEW T, 0 \in T, \A k \in 0 .. n - 1 : k \in T => k + 1 \in T
  PROVE  \A k \in 0 .. n : k \in T
<1> DEFINE Rest == {k \in 0 .. n : k \notin T}
<1> SUFFICES ASSUME Rest # {} PROVE FALSE
  OBVIOUS
<1>0. Rest \subseteq Nat
  OBVIOUS
<1> HIDE DEF Rest
<1>1. PICK m \in Rest : \A k \in Rest : ~(<<k, m>> \in OpToRel(<, Nat))
  BY <1>0, NatLessThanWellFounded, WFMin
<1>2. \A k \in Rest : ~(k < m)
  BY <1>0, <1>1 DEF OpToRel
<1> USE DEF Rest
<1>3. m # 0 /\ m - 1 \in 0 .. n - 1 /\ m - 1 \notin Rest /\ (m - 1) + 1 = m
  BY <1>2
<1> QED BY <1>3

\* What is left of the first n elements.
LEMMA WithoutSteps ==
  ASSUME NEW S, NEW s \in Seq(S), NEW gone
  PROVE  \E f : /\ f[0] = <<>>
                /\ \A n \in 1 .. Len(s) :
                     f[n] = IF s[n] \in gone THEN f[n - 1] ELSE Append(f[n - 1], s[n])
                /\ Without(s, gone) = f[Len(s)]
<1> DEFINE step(f, n) == IF n = 0 THEN <<>>
                         ELSE IF s[n] \in gone THEN f[n - 1] ELSE Append(f[n - 1], s[n])
           built(f, m) == f = [n \in 0 .. m |-> step(f, n)]
           T == {m \in Nat : \E f : built(f, m)}
<1>1. 0 \in T
  <2>1. built([n \in 0 .. 0 |-> <<>>], 0)
    OBVIOUS
  <2> QED BY <2>1
<1>2. ASSUME NEW m \in 0 .. Len(s) - 1, m \in T PROVE m + 1 \in T
  <2>1. PICK f : built(f, m)
    BY <1>2
  <2> DEFINE g == [n \in 0 .. m + 1 |-> IF n = m + 1 THEN step(f, m + 1) ELSE f[n]]
  <2>2. \A n \in 0 .. m + 1 : g[n] = step(g, n)
    <3>1. \A n \in 0 .. m : f[n] = step(f, n)
      BY <2>1
    <3>2. \A n \in 0 .. m : g[n] = f[n]
      OBVIOUS
    <3>3. ASSUME NEW n \in 0 .. m PROVE step(g, n) = step(f, n)
      <4>1. n # 0 => n - 1 \in 0 .. m
        OBVIOUS
      <4> QED BY <3>2, <4>1
    <3>4. step(g, m + 1) = step(f, m + 1) /\ g[m + 1] = step(f, m + 1)
      <4>1. m + 1 # 0 /\ (m + 1) - 1 \in 0 .. m
        OBVIOUS
      <4> QED BY <3>2, <4>1
    <3>5. \A n \in 0 .. m + 1 : n \in 0 .. m \/ n = m + 1
      OBVIOUS
    <3> QED BY <3>1, <3>2, <3>3, <3>4, <3>5
  <2>3. \E f1 : built(f1, m + 1)
    BY <2>2
  <2>4. m + 1 \in Nat
    OBVIOUS
  <2> QED BY <2>3, <2>4
<1>3. \A m \in 0 .. Len(s) : m \in T
  <2> HIDE DEF T
  <2>1. Len(s) \in Nat
    OBVIOUS
  <2> QED BY <1>1, <1>2, <2>1, UpTo
<1>4. \E f : built(f, Len(s))
  BY <1>3
<1> DEFINE F == CHOOSE f : built(f, Len(s))
<1>5. built(F, Len(s))
  BY <1>4
<1>6. Without(s, gone) = F[Len(s)]
  BY DEF Without
<1> HIDE DEF F
<1>7. \A n \in 0 .. Len(s) : F[n] = step(F, n)
  BY <1>5
<1> QED BY <1>6, <1>7

\* A sequence without repetitions gets a new element.
LEMMA AppendedOnce ==
  ASSUME NEW S, NEW q \in Seq(S), IsInjective(q), NEW x \in S, x \notin ToSet(q)
  PROVE  /\ Append(q, x) \in Seq(S)
         /\ IsInjective(Append(q, x))
         /\ ToSet(Append(q, x)) = ToSet(q) \union {x}
<1> PICK r : r = Append(q, x)
  OBVIOUS
<1>1. /\ r \in Seq(S) /\ Len(r) = Len(q) + 1 /\ r[Len(q) + 1] = x
      /\ \A j \in 1..Len(q) : r[j] = q[j]
  BY AppendProperties
<1>2. \A a, b \in 1..Len(q) : q[a] = q[b] => a = b
  BY DEF IsInjective
<1>3. \A a \in 1..Len(q) : q[a] # x
  BY DEF ToSet
<1>4. IsInjective(r)
  BY <1>1, <1>2, <1>3 DEF IsInjective
<1>5. ToSet(r) = ToSet(q) \union {x}
  BY <1>1 DEF ToSet
<1> QED BY <1>1, <1>4, <1>5

\* Of elements that occur once, those that are not gone are left, and once.
LEMMA WithoutOnce ==
  ASSUME NEW S, NEW s \in Seq(S), IsInjective(s), NEW gone
  PROVE  /\ Without(s, gone) \in Seq(S)
         /\ Len(Without(s, gone)) <= Len(s)
         /\ IsInjective(Without(s, gone))
         /\ ToSet(Without(s, gone)) = ToSet(s) \ gone
<1>1. PICK f : /\ f[0] = <<>>
               /\ \A n \in 1 .. Len(s) :
                    f[n] = IF s[n] \in gone THEN f[n - 1] ELSE Append(f[n - 1], s[n])
               /\ Without(s, gone) = f[Len(s)]
  BY WithoutSteps
<1> DEFINE First(n) == {s[j] : j \in 1 .. n}
           Left(q, n) == /\ q \in Seq(S) /\ Len(q) <= n /\ IsInjective(q)
                         /\ ToSet(q) = First(n) \ gone
           T == {n \in Nat : Left(f[n], n)}
<1>2. 0 \in T
  <2>1. Left(<<>>, 0)
    BY DEF IsInjective, ToSet
  <2> QED BY <1>1, <2>1
<1>3. ASSUME NEW n \in 0 .. Len(s) - 1, n \in T PROVE n + 1 \in T
  <2>1. /\ n + 1 \in 1 .. Len(s) /\ (n + 1) - 1 = n /\ n + 1 \in Nat /\ n \in Nat
        /\ s[n + 1] \in S
    OBVIOUS
  <2>2. First(n + 1) = First(n) \union {s[n + 1]} /\ s[n + 1] \notin First(n)
    BY <2>1 DEF IsInjective
  <2>3. PICK q : q = f[n]
    OBVIOUS
  <2>4. Left(q, n)
    BY <1>3, <2>3
  <2> HIDE DEF First
  <2>5. CASE s[n + 1] \in gone
    <3>1. f[n + 1] = q
      BY <1>1, <2>1, <2>3, <2>5
    <3>2. Left(q, n + 1)
      BY <2>1, <2>2, <2>4, <2>5
    <3> QED BY <2>1, <3>1, <3>2
  <2>6. CASE s[n + 1] \notin gone
    <3>1. f[n + 1] = Append(q, s[n + 1])
      BY <1>1, <2>1, <2>3, <2>6
    <3>2. PICK r : r = Append(q, s[n + 1])
      OBVIOUS
    <3>3. s[n + 1] \notin ToSet(q)
      BY <2>2, <2>4
    <3>4. r \in Seq(S) /\ IsInjective(r) /\ ToSet(r) = ToSet(q) \union {s[n + 1]}
      BY <2>1, <2>4, <3>2, <3>3, AppendedOnce
    <3>5. Len(r) <= n + 1
      BY <2>1, <2>4, <3>2, AppendProperties
    <3>6. Left(r, n + 1)
      BY <2>2, <2>4, <2>6, <3>4, <3>5
    <3> QED BY <2>1, <3>1, <3>2, <3>6
  <2> QED BY <2>5, <2>6
<1>4. Len(s) \in Nat /\ Len(s) \in 0 .. Len(s)
  OBVIOUS
<1>5. Len(s) \in T
  <2> HIDE DEF T
  <2> QED BY <1>2, <1>3, <1>4, UpTo
<1>6. First(Len(s)) = ToSet(s)
  BY DEF ToSet
<1> QED BY <1>1, <1>5, <1>6

\* Elements before the first that is gone stay where they are.
LEMMA WithoutBefore ==
  ASSUME NEW S, NEW s \in Seq(S), NEW gone, NEW m \in 0 .. Len(s),
         \A i \in 1 .. m : s[i] \notin gone
  PROVE  m <= Len(Without(s, gone)) /\ \A i \in 1 .. m : Without(s, gone)[i] = s[i]
<1>1. PICK f : /\ f[0] = <<>>
               /\ \A n \in 1 .. Len(s) :
                    f[n] = IF s[n] \in gone THEN f[n - 1] ELSE Append(f[n - 1], s[n])
               /\ Without(s, gone) = f[Len(s)]
  BY WithoutSteps
<1> DEFINE Starts(q, n) == /\ q \in Seq(S)
                           /\ n <= m => Len(q) = n
                           /\ m <= n => m <= Len(q)
                           /\ \A i \in 1 .. m : i <= n => q[i] = s[i]
           T == {n \in Nat : Starts(f[n], n)}
<1>2. 0 \in T
  <2>1. Starts(<<>>, 0)
    OBVIOUS
  <2> QED BY <1>1, <2>1
<1>3. ASSUME NEW n \in 0 .. Len(s) - 1, n \in T PROVE n + 1 \in T
  <2>1. /\ n + 1 \in 1 .. Len(s) /\ (n + 1) - 1 = n /\ n + 1 \in Nat /\ n \in Nat
        /\ s[n + 1] \in S
    OBVIOUS
  <2>2. PICK q : q = f[n]
    OBVIOUS
  <2>3. Starts(q, n)
    BY <1>3, <2>2
  <2>4. CASE s[n + 1] \in gone
    <3>1. f[n + 1] = q
      BY <1>1, <2>1, <2>2, <2>4
    <3>2. m <= n
      BY <2>1, <2>4
    <3>3. Starts(q, n + 1)
      BY <2>1, <2>3, <3>2
    <3> QED BY <2>1, <3>1, <3>3
  <2>5. CASE s[n + 1] \notin gone
    <3>1. f[n + 1] = Append(q, s[n + 1])
      BY <1>1, <2>1, <2>2, <2>5
    <3>2. PICK r : r = Append(q, s[n + 1])
      OBVIOUS
    <3>3. /\ r \in Seq(S) /\ Len(r) = Len(q) + 1 /\ r[Len(q) + 1] = s[n + 1]
          /\ \A i \in 1 .. Len(q) : r[i] = q[i]
      BY <2>1, <2>3, <3>2, AppendProperties
    <3>4. ASSUME NEW i \in 1 .. m, i <= n + 1 PROVE r[i] = s[i]
      <4>1. CASE i <= n
        <5>1. i \in 1 .. Len(q)
          BY <2>1, <2>3, <4>1
        <5> QED BY <2>3, <3>3, <4>1, <5>1
      <4>2. CASE i = n + 1
        <5>1. Len(q) = n
          BY <2>1, <2>3, <4>2
        <5> QED BY <3>3, <4>2, <5>1
      <4> QED BY <2>1, <3>4, <4>1, <4>2
    <3>5. Starts(r, n + 1)
      BY <2>1, <2>3, <3>3, <3>4
    <3> QED BY <2>1, <3>1, <3>2, <3>5
  <2> QED BY <2>4, <2>5
<1>4. Len(s) \in Nat /\ Len(s) \in 0 .. Len(s)
  OBVIOUS
<1>5. Len(s) \in T
  <2> HIDE DEF T
  <2> QED BY <1>2, <1>3, <1>4, UpTo
<1>6. \A i \in 1 .. m : i <= Len(s)
  OBVIOUS
<1> QED BY <1>1, <1>5, <1>6

-----------------------------------------------------------------------------
(* The response cache. *)

UpstreamsTyped ==
  /\ status \in [Upstreams -> {"absent", "connecting", "connected", "failed"}]
  /\ healthy \in [Upstreams -> BOOLEAN]
  /\ closing \subseteq Upstreams
  /\ answers \subseteq Upstreams
  /\ \A u \in Upstreams : healthy[u] \/ u \in closing => status[u] # "absent"
  /\ pings \in [Upstreams -> 0 .. MaxPings]

\* What is to be stored for a call on its way is stored under a key.
Keyed == \A c \in Calls : call[c] \in {"requesting", "forwarded", "responding"} => key[c] \in Keys

Entries ==
  /\ cache \in Seq(Keys) /\ Len(cache) <= MaxSize /\ IsInjective(cache)
  /\ stale \subseteq ToSet(cache)

Earned == \A k \in ToSet(cache) : \E c \in Calls : key[c] = k /\ call[c] = "ok"

CInv == UpstreamsTyped /\ CallsTyped /\ Keyed /\ Entries /\ Earned

\* The cache invariant holds at the start.
LEMMA CacheInit == Init => CInv
<1> SUFFICES ASSUME Init PROVE CInv
  OBVIOUS
<1>1. /\ <<>> \in Seq(Keys) /\ Len(<<>>) = 0 /\ ToSet(<<>>) = {} /\ IsInjective(<<>>)
  BY DEF ToSet, IsInjective
<1>2. UpstreamsTyped
  BY GatewayAssumption DEF Init, UpstreamsTyped
<1>3. CallsTyped /\ Keyed
  BY DEF Init, CallsTyped, Keyed, Phases
<1> QED BY <1>1, <1>2, <1>3, GatewayAssumption DEF Init, CInv, Entries, Earned

\* Dropping the oldest of a queue without repeats.
LEMMA TailOnce ==
  ASSUME NEW S, NEW q \in Seq(S), IsInjective(q), q # <<>>
  PROVE  /\ Tail(q) \in Seq(S) /\ IsInjective(Tail(q)) /\ Len(Tail(q)) = Len(q) - 1
         /\ ToSet(Tail(q)) \subseteq ToSet(q)
<1>1. PICK r : r = Tail(q)
  OBVIOUS
<1>2. /\ r \in Seq(S) /\ Len(r) = Len(q) - 1 /\ Len(q) \in Nat
      /\ \A n \in 1 .. Len(q) - 1 : r[n] = q[n + 1]
  BY <1>1
<1>3. \A n \in 1 .. Len(q) - 1 : n + 1 \in 1 .. Len(q)
  BY <1>2
<1>4. \A a, b \in 1 .. Len(q) : q[a] = q[b] => a = b
  BY DEF IsInjective
<1>5. ASSUME NEW a \in 1 .. Len(q) - 1, NEW b \in 1 .. Len(q) - 1, r[a] = r[b]
      PROVE  a = b
  <2>1. q[a + 1] = q[b + 1]
    BY <1>2, <1>5
  <2>2. a + 1 = b + 1
    BY <1>3, <1>4, <2>1
  <2> QED BY <2>2
<1>6. IsInjective(r)
  BY <1>2, <1>5 DEF IsInjective
<1>7. ToSet(r) \subseteq ToSet(q)
  BY <1>2, <1>3 DEF ToSet
<1> QED BY <1>1, <1>2, <1>6, <1>7

\* What is left when room was made, and what is there when k is stored in it.
WithRoom(q) == IF Len(q) >= MaxSize THEN Tail(q) ELSE q
Storing(q, k) == IF k \in ToSet(WithRoom(q)) THEN WithRoom(q) ELSE Append(WithRoom(q), k)

\* Storing keeps the cache a bounded queue without repeats.
LEMMA StoreKeeps ==
  ASSUME NEW q \in Seq(Keys), IsInjective(q), Len(q) <= MaxSize, NEW k \in Keys
  PROVE  /\ Storing(q, k) \in Seq(Keys) /\ IsInjective(Storing(q, k))
         /\ Len(Storing(q, k)) <= MaxSize
         /\ ToSet(Storing(q, k)) \subseteq ToSet(q) \union {k}
         /\ ToSet(WithRoom(q)) \subseteq ToSet(Storing(q, k))
<1> USE GatewayAssumption
<1> PICK kept, r : kept = WithRoom(q) /\ r = Storing(q, k)
  OBVIOUS
<1>0. /\ kept = IF Len(q) >= MaxSize THEN Tail(q) ELSE q
      /\ r = IF k \in ToSet(kept) THEN kept ELSE Append(kept, k)
  BY DEF WithRoom, Storing
<1>1. /\ kept \in Seq(Keys) /\ IsInjective(kept) /\ Len(kept) < MaxSize
      /\ ToSet(kept) \subseteq ToSet(q)
  <2>1. CASE Len(q) < MaxSize
    BY <1>0, <2>1
  <2>2. CASE Len(q) >= MaxSize
    <3>1. kept = Tail(q) /\ q # <<>> /\ Len(q) \in Nat
      BY <1>0, <2>2
    <3> QED BY <2>2, <3>1, TailOnce
  <2> QED BY <2>1, <2>2
<1>2. CASE k \in ToSet(kept)
  BY <1>0, <1>1, <1>2
<1>3. CASE k \notin ToSet(kept)
  <2>1. r = Append(kept, k)
    BY <1>0, <1>3
  <2>3. /\ r \in Seq(Keys) /\ IsInjective(r) /\ ToSet(r) = ToSet(kept) \union {k}
    <3>1. /\ Append(kept, k) \in Seq(Keys) /\ IsInjective(Append(kept, k))
          /\ ToSet(Append(kept, k)) = ToSet(kept) \union {k}
      BY ONLY <1>1, <1>3, k \in Keys, AppendedOnce
    <3> QED BY <2>1, <3>1
  <2>2. Len(r) = Len(kept) + 1
    BY <1>1, <2>1
  <2> QED BY <1>1, <2>2, <2>3
<1> QED BY <1>2, <1>3

\* Every step of the gateway keeps the cache invariant.
LEMMA CacheNext == CInv /\ [Next]_vars => CInv'
<1> SUFFICES ASSUME CInv, [Next]_vars PROVE CInv'
  OBVIOUS
<1> USE GatewayAssumption
<1>0. UpstreamsTyped /\ CallsTyped /\ Keyed /\ Entries /\ Earned
  BY DEF CInv
<1>1. ASSUME UNCHANGED <<cached, call, key, forwarder>>, UpstreamsTyped' PROVE CInv'
  BY <1>0, <1>1 DEF CInv, CallsTyped, Keyed, Entries, Earned, cached
<1>2. ASSUME NEW u \in Upstreams,
             \/ Connect(u) \/ ConnectEnds(u) \/ Disconnect(u) \/ Disconnected(u)
             \/ Network(u) \/ Ping(u) \/ Checked(u)
      PROVE  CInv'
  <2>1. CASE Connect(u) \/ ConnectEnds(u)
    BY <1>0, <1>1, <2>1 DEF Connect, ConnectEnds, Managed, UpstreamsTyped
  <2>2. CASE Disconnect(u) \/ Disconnected(u)
    BY <1>0, <1>1, <2>2 DEF Disconnect, Disconnected, Managed, UpstreamsTyped
  <2>3. CASE Network(u)
    BY <1>0, <1>1, <2>3 DEF Network, UpstreamsTyped
  <2>4. CASE Ping(u)
    <3>1. pings' \in [Upstreams -> 0 .. MaxPings]
      BY <1>0, <2>4 DEF Ping, UpstreamsTyped
    <3> QED BY <1>0, <1>1, <2>4, <3>1 DEF Ping, UpstreamsTyped, upstream
  <2>5. CASE Checked(u)
    <3>1. pings' \in [Upstreams -> 0 .. MaxPings]
      BY <1>0, <2>5 DEF Checked, UpstreamsTyped
    <3>2. PICK value \in BOOLEAN : SetHealthy(u, value)
      BY <2>5 DEF Checked, PingEnds
    <3>3. /\ healthy' \in [Upstreams -> BOOLEAN]
          /\ \A v \in Upstreams : healthy'[v] => healthy[v] \/ status[v] # "absent"
      BY <1>0, <3>2 DEF SetHealthy, Managed, UpstreamsTyped
    <3> QED BY <1>0, <1>1, <2>5, <3>1, <3>3 DEF Checked, UpstreamsTyped
  <2> QED BY <1>2, <2>1, <2>2, <2>3, <2>4, <2>5
<1>3. ASSUME UNCHANGED <<upstream, pings, call, key, forwarder>>, Entries',
             ToSet(cache') \subseteq ToSet(cache)
      PROVE  CInv'
  BY <1>0, <1>3 DEF CInv, CallsTyped, Keyed, UpstreamsTyped, Earned, upstream
<1>4. ASSUME NEW gone \in SUBSET Keys, cache' = Without(cache, gone), stale' = stale \ gone
      PROVE  Entries' /\ ToSet(cache') \subseteq ToSet(cache)
  <2>1. /\ cache' \in Seq(Keys) /\ Len(cache') <= Len(cache) /\ IsInjective(cache')
        /\ ToSet(cache') = ToSet(cache) \ gone
    BY <1>0, <1>4, WithoutOnce DEF Entries
  <2> QED BY <1>0, <1>4, <2>1 DEF Entries
<1>5. ASSUME NEW k \in Keys, Uncache(k)
      PROVE  Entries' /\ ToSet(cache') \subseteq ToSet(cache)
  BY <1>4, <1>5 DEF Uncache
<1>6. ASSUME NEW k \in Keys, Age(k) \/ Invalidate(k) PROVE CInv'
  <2>1. CASE Age(k)
    <3>1. Entries' /\ cache' = cache
      BY <1>0, <2>1 DEF Age, Entries
    <3> QED BY <1>3, <2>1, <3>1 DEF Age
  <2>2. CASE Invalidate(k)
    BY <1>3, <1>5, <2>2 DEF Invalidate
  <2> QED BY <1>6, <2>1, <2>2
<1>7. CASE EvictExpired
  <2>1. stale \subseteq Keys /\ stale \ stale = {}
    BY <1>0 DEF Entries, ToSet
  <2> QED BY <1>3, <1>4, <1>7, <2>1 DEF EvictExpired
<1>8. ASSUME NEW c \in Calls, NEW k \in Keys, Deny(c, k) \/ CallTool(c, k) PROVE CInv'
  <2>1. /\ call[c] = "idle"
        /\ key' = [key EXCEPT ![c] = k]
        /\ UNCHANGED <<upstream, pings, forwarder>>
        /\ \E to \in {"refused", "served", "requesting"} : call' = [call EXCEPT ![c] = to]
    BY <1>8 DEF Deny, CallTool
  <2>2. Entries' /\ ToSet(cache') \subseteq ToSet(cache)
    BY <1>0, <1>5, <1>8 DEF Deny, CallTool, cached, Entries
  <2>3. CallsTyped' /\ Keyed'
    BY <1>0, <2>1 DEF CallsTyped, Keyed, Phases
  <2>4. Earned'
    BY <1>0, <2>1, <2>2 DEF CallsTyped, Earned
  <2> QED BY <1>0, <2>1, <2>2, <2>3, <2>4 DEF CInv, UpstreamsTyped, upstream
<1>9. ASSUME NEW c \in Calls, call[c] \in {"requesting", "forwarded", "responding"},
             NEW to \in Phases \ {"ok"}, call' = [call EXCEPT ![c] = to],
             UNCHANGED <<upstream, pings, cached, key>>,
             forwarder' \in [Upstreams -> Calls \union {None}]
      PROVE  CInv'
  <2>1. CallsTyped' /\ Keyed'
    BY <1>0, <1>9 DEF CallsTyped, Keyed
  <2>2. Earned'
    BY <1>0, <1>9 DEF CallsTyped, Earned, cached
  <2> QED BY <1>0, <1>9, <2>1, <2>2 DEF CInv, Entries, UpstreamsTyped, upstream, cached
<1>10. ASSUME NEW c \in Calls, forwarder' \in {forwarder, Deactivate(c), [forwarder EXCEPT ![Server(c)] = c]}
       PROVE  forwarder' \in [Upstreams -> Calls \union {None}]
  BY <1>0, <1>10 DEF CallsTyped, Deactivate
<1>11. ASSUME NEW c \in Calls,
              TransformThrows(c) \/ Forward(c) \/ Answered(c) \/ RespondsInError(c) \/ Breaks(c) \/ TimesOut(c)
       PROVE  CInv'
  <2>1. /\ call[c] \in {"requesting", "forwarded", "responding"}
        /\ \E to \in Phases \ {"ok"} : call' = [call EXCEPT ![c] = to]
        /\ UNCHANGED <<upstream, pings, cached, key>>
        /\ forwarder' \in {forwarder, Deactivate(c), [forwarder EXCEPT ![Server(c)] = c]}
    BY <1>11 DEF TransformThrows, Forward, Answered, RespondsInError, Breaks, TimesOut, Fails, Phases
  <2> QED BY <1>9, <1>10, <2>1
<1>12. ASSUME NEW c \in Calls, Succeeds(c) PROVE CInv'
  <2>1. /\ call[c] = "responding" /\ key[c] \in Keys
        /\ call' = [call EXCEPT ![c] = "ok"] /\ Store(key[c]) /\ forwarder' = Deactivate(c)
        /\ UNCHANGED <<upstream, pings, key>>
    BY <1>0, <1>12 DEF Succeeds, Keyed
  <2>2. /\ cache' = Storing(cache, key[c])
        /\ stale' = (stale \intersect ToSet(WithRoom(cache))) \ {key[c]}
    BY <2>1 DEF Store, Full, WithRoom, Storing
  <2>3. /\ cache' \in Seq(Keys) /\ IsInjective(cache') /\ Len(cache') <= MaxSize
        /\ ToSet(cache') \subseteq ToSet(cache) \union {key[c]}
        /\ ToSet(WithRoom(cache)) \subseteq ToSet(cache')
    BY <1>0, <2>1, <2>2, StoreKeeps DEF Entries
  <2>4. Entries'
    BY <2>2, <2>3 DEF Entries
  <2>5. Earned'
    BY <1>0, <2>1, <2>3 DEF CallsTyped, Earned
  <2>6. CallsTyped' /\ Keyed'
    BY <1>0, <1>10, <2>1 DEF CallsTyped, Keyed, Phases
  <2> QED BY <1>0, <2>1, <2>4, <2>5, <2>6 DEF CInv, UpstreamsTyped, upstream
<1>13. CASE UNCHANGED vars
  BY <1>0, <1>1, <1>13 DEF vars, upstream, UpstreamsTyped
<1> QED
  BY <1>2, <1>6, <1>7, <1>8, <1>11, <1>12, <1>13 DEF Next, Prepare, Respond

\* The response cache keeps within maxSize, holds a key once, and serves no answer
\* but one that some call was given without error.
THEOREM CacheStaysKept == Spec => []CacheKept
<1>1. CInv => CacheKept
  BY DEF CInv, UpstreamsTyped, CallsTyped, Entries, Earned, CacheKept, TypeOK, Managed, Phases
<1> QED BY CacheInit, CacheNext, <1>1, PTL DEF Spec

-----------------------------------------------------------------------------
(* The array of clients (module ClientSet), which addConnection and          *)
(* removeConnection change under the walks.                                  *)

\* A client is a name with a number, and stands for one.
LEMMA ClientsAre ==
  /\ \A c \in Client : NameOf(c) \in Names /\ c[2] \in 1 .. MaxMade[NameOf(c)]
  /\ \A n \in Names, k \in Nat :
       k \in 1 .. MaxMade[n] => <<n, k>> \in Client /\ NameOf(<<n, k>>) = n
  /\ NoClient \notin Client
BY ClientSetAssumption DEF Client, NameOf

ConnStates == {"idle", "connecting", "up", "lost", "closing", "aborting"}

WalkRecord ==
  [at : Nat, awaits : Client \union {NoClient}, seen : SUBSET Client,
   shifted : BOOLEAN, over : BOOLEAN]

SetTyped == CSTypeOK /\ walk \in [Walks -> WalkRecord]

\* The array holds a client once, and one of each name.
OneEach ==
  /\ IsInjective(clients)
  /\ \A c, d \in ToSet(clients) : NameOf(c) = NameOf(d) => c = d

\* The promise callers share is the one under way, for the client made last, and
\* until it is settled there is no client of its name: the old one was removed,
\* and nobody else may add.
OnePromise ==
  \A n \in Names :
    /\ {c \in Client : NameOf(c) = n /\ InProgress(c)} = {pending[n]} \ {NoClient}
    /\ pending[n] # NoClient => Named(n) = {} /\ pending[n][2] <= made[n]

WiredOnce == \A c, d \in wired : NameOf(c) = NameOf(d) => c = d

\* What is in the array, or was when a walk came to it, has been made and has no
\* promise under way.
Settled(c) == c[2] <= made[NameOf(c)] /\ ~InProgress(c)

AllSettled ==
  /\ \A c \in ToSet(clients) : Settled(c)
  /\ \A w \in Walks : walk[w].awaits # NoClient => Settled(walk[w].awaits)

\* Outside the array a client connects only for its promise, or in its loop.
Outside ==
  \A c \in Client :
    /\ conn[c] = "lost" => NameOf(c) \in Reconnecting
    /\ c \notin ToSet(clients) =>
         /\ conn[c] = "up" => NameOf(c) \in Reconnecting
         /\ conn[c] = "connecting" => InProgress(c)

\* A walk no removal has reached has seen all up to where it is.
SeenSoFar ==
  \A w \in Walks : walk[w].awaits # NoClient /\ ~walk[w].shifted =>
    /\ walk[w].at <= Len(clients)
    /\ \A i \in 1 .. walk[w].at : clients[i] \in walk[w].seen

SetInv == SetTyped /\ OneEach /\ OnePromise /\ WiredOnce /\ AllSettled /\ Outside /\ SeenSoFar

\* The invariant of the set holds at the start.
LEMMA SetInit == CSInit => SetInv
<1> SUFFICES ASSUME CSInit PROVE SetInv
  OBVIOUS
<1> USE ClientSetAssumption
<1>1. /\ clients \in Seq(Client) /\ Len(clients) = Len(Configured)
      /\ \A i \in 1 .. Len(Configured) : clients[i] = <<Configured[i], 1>> /\ Configured[i] \in Names
  <2>1. /\ Configured \in Seq(Names) /\ Len(Configured) \in Nat
        /\ DOMAIN Configured = 1 .. Len(Configured)
    OBVIOUS
  <2>2. \A i \in 1 .. Len(Configured) : Configured[i] \in Names /\ <<Configured[i], 1>> \in Client
    BY <2>1 DEF Client
  <2>3. clients = [i \in 1 .. Len(Configured) |-> <<Configured[i], 1>>]
    BY <2>1 DEF CSInit
  <2>4. /\ DOMAIN clients = 1 .. Len(Configured)
        /\ \A i \in 1 .. Len(Configured) : clients[i] = <<Configured[i], 1>>
    BY <2>3
  <2>5. clients \in Seq(Client) /\ Len(clients) = Len(Configured)
    BY <2>1, <2>2, <2>3, <2>4
  <2> QED BY <2>2, <2>4, <2>5
<1>2. \A i, j \in 1 .. Len(Configured) : Configured[i] = Configured[j] => i = j
  BY DEF IsInjective
<1>3. OneEach
  <2>1. IsInjective(clients)
    <3>1. \A i, j \in 1 .. Len(clients) : clients[i] = clients[j] => i = j
      BY <1>1, <1>2
    <3> QED BY <1>1, <3>1 DEF IsInjective
  <2>2. ASSUME NEW c \in ToSet(clients), NEW d \in ToSet(clients), NameOf(c) = NameOf(d)
        PROVE  c = d
    <3>0. DOMAIN clients = 1 .. Len(clients)
      BY <1>1
    <3>1. PICK i \in 1 .. Len(clients) : c = clients[i]
      BY <3>0, c \in ToSet(clients) DEF ToSet
    <3>2. PICK j \in 1 .. Len(clients) : d = clients[j]
      BY <3>0, d \in ToSet(clients) DEF ToSet
    <3> QED BY <1>1, <1>2, <2>2, <3>1, <3>2 DEF NameOf
  <2> QED BY <2>1, <2>2 DEF OneEach
<1>4. SetTyped
  <2>1. walk \in [Walks -> WalkRecord]
    BY DEF CSInit, AtRest, WalkRecord
  <2>2. made \in [Names -> Nat] /\ \A n \in Names : made[n] <= MaxMade[n]
    BY DEF CSInit
  <2>3. /\ conn \in [Client -> ConnStates]
        /\ pending \in [Names -> Client \union {NoClient}]
        /\ promise \in [Client -> {"none", "replacing", "connecting", "fulfilled", "rejected"}]
        /\ dropped \in [Client -> SUBSET Client]
        /\ adds \in [Adds -> Client \union {NoClient}]
        /\ removals \in [Removals -> SUBSET Client]
        /\ wired \subseteq Client
    BY DEF CSInit, ConnStates
  <2> QED BY <1>1, <2>1, <2>2, <2>3 DEF SetTyped, CSTypeOK, ConnStates
<1>5. OnePromise /\ WiredOnce /\ Outside /\ SeenSoFar
  BY DEF CSInit, OnePromise, WiredOnce, Outside, SeenSoFar, InProgress, AtRest
<1>6. AllSettled
  <2>1. ASSUME NEW c \in ToSet(clients) PROVE Settled(c)
    <3>1. PICK i \in 1 .. Len(clients) : c = clients[i]
      BY <1>1 DEF ToSet
    <3>4. c = <<Configured[i], 1>> /\ Configured[i] \in ToSet(Configured) /\ Configured[i] \in Names
      BY <1>1, <3>1 DEF ToSet
    <3>2. made[Configured[i]] = 1
      BY <3>4 DEF CSInit
    <3>3. c \in Client
      BY <1>1 DEF ToSet
    <3> QED BY <3>4, <3>2, <3>3 DEF Settled, NameOf, InProgress, CSInit
  <2> QED BY <2>1 DEF AllSettled, CSInit, AtRest
<1> QED BY <1>3, <1>4, <1>5, <1>6 DEF SetInv

\* The synchronous part of removeConnection: the named clients leave the array,
\* none of them up or connecting any more, and the walks that had passed one are
\* marked.
LEMMA SplicedKeeps ==
  ASSUME SetInv, NEW n \in Names, Spliced(n)
  PROVE  /\ clients' \in Seq(Client) /\ OneEach'
         /\ ToSet(clients') = ToSet(clients) \ Named(n)
         /\ conn' \in [Client -> ConnStates]
         /\ \A c \in Client :
              /\ c \notin Named(n) => conn'[c] = conn[c]
              /\ c \in Named(n) => conn'[c] \notin {"up", "connecting"}
              /\ conn'[c] = "lost" => conn[c] = "lost"
         /\ walk' \in [Walks -> WalkRecord]
         /\ \A w \in Walks : walk'[w].awaits = walk[w].awaits /\ walk'[w].over = walk[w].over
         /\ SeenSoFar'
<1> USE DEF SetInv
<1>1. /\ clients' = Without(clients, Named(n))
      /\ conn' = Disconnecting(Named(n))
      /\ walk' = Shifted(n)
  BY DEF Spliced, Others
<1>2. clients \in Seq(Client) /\ IsInjective(clients)
  BY DEF SetTyped, CSTypeOK, OneEach
<1>3. /\ clients' \in Seq(Client) /\ IsInjective(clients')
      /\ ToSet(clients') = ToSet(clients) \ Named(n)
  BY <1>1, <1>2, WithoutOnce
<1>4. OneEach'
  BY <1>3 DEF OneEach, NameOf
<1>5. /\ conn \in [Client -> ConnStates] /\ walk \in [Walks -> WalkRecord]
  BY DEF SetTyped, CSTypeOK, ConnStates
<1>6. \A c \in Client :
        conn'[c] = IF c \in Named(n) THEN AfterDisconnect(conn[c]) ELSE conn[c]
  BY <1>1 DEF Disconnecting
<1>7. \A x \in ConnStates : /\ AfterDisconnect(x) \in ConnStates \ {"up", "connecting"}
                            /\ AfterDisconnect(x) = "lost" => x = "lost"
  BY DEF ConnStates, AfterDisconnect
<1>8. /\ conn' \in [Client -> ConnStates]
      /\ \A c \in Client :
              /\ c \notin Named(n) => conn'[c] = conn[c]
              /\ c \in Named(n) => conn'[c] \notin {"up", "connecting"}
              /\ conn'[c] = "lost" => conn[c] = "lost"
  <2>1. conn' = [c \in Client |->
                  IF c \in Named(n) THEN AfterDisconnect(conn[c]) ELSE conn[c]]
    BY <1>1 DEF Disconnecting
  <2> QED BY <1>5, <1>6, <1>7, <2>1
<1>9. ASSUME NEW w \in Walks
      PROVE  /\ walk'[w] \in WalkRecord
             /\ walk'[w].awaits = walk[w].awaits /\ walk'[w].at = walk[w].at
             /\ walk'[w].seen = walk[w].seen /\ walk'[w].over = walk[w].over
             /\ walk'[w].shifted =
                  (walk[w].shifted \/ (walk[w].awaits # NoClient
                    /\ \E i \in DOMAIN clients : i <= walk[w].at /\ NameOf(clients[i]) = n))
  <2>1. PICK moved \in BOOLEAN :
          moved = (walk[w].shifted \/ (walk[w].awaits # NoClient
                    /\ \E i \in DOMAIN clients : i <= walk[w].at /\ NameOf(clients[i]) = n))
    BY <1>5 DEF WalkRecord
  <2>2. walk'[w] = [walk[w] EXCEPT !.shifted = moved]
    BY <1>1, <2>1 DEF Shifted
  <2>3. walk[w] \in WalkRecord
    BY <1>5
  <2> QED BY <2>1, <2>2, <2>3 DEF WalkRecord
<1>10. walk' \in [Walks -> WalkRecord]
  <2>1. DOMAIN walk' = Walks /\ walk' = [w \in Walks |-> walk'[w]]
    BY <1>1 DEF Shifted
  <2> QED BY <1>9, <2>1
<1>11. SeenSoFar'
  <2> SUFFICES ASSUME NEW w \in Walks, walk'[w].awaits # NoClient, ~walk'[w].shifted
               PROVE  /\ walk'[w].at <= Len(clients')
                      /\ \A i \in 1 .. walk'[w].at : clients'[i] \in walk'[w].seen
    BY DEF SeenSoFar
  <2> DEFINE m == walk[w].at
  <2>1. /\ walk[w].awaits # NoClient /\ ~walk[w].shifted /\ m \in Nat
        /\ \A i \in DOMAIN clients : i <= m => NameOf(clients[i]) # n
    BY <1>5, <1>9 DEF WalkRecord
  <2>2. m <= Len(clients) /\ \A i \in 1 .. m : clients[i] \in walk[w].seen
    BY <2>1 DEF SeenSoFar
  <2> HIDE DEF m
  <2>3. m \in 0 .. Len(clients) /\ \A i \in 1 .. m : clients[i] \notin Named(n)
    BY <1>2, <2>1, <2>2 DEF Named
  <2>4. m <= Len(clients') /\ \A i \in 1 .. m : clients'[i] = clients[i]
    BY ONLY <1>1, <1>2, <2>3, WithoutBefore
  <2> QED BY <1>9, <2>2, <2>4 DEF m
<1> QED BY <1>3, <1>4, <1>8, <1>9, <1>10, <1>11

\* What a step has to see to when only the connections move.
LEMMA ConnKeeps ==
  ASSUME SetInv, UNCHANGED <<clients, services, removals, walk, wired>>,
         conn' \in [Client -> ConnStates],
         \A c \in Client :
           /\ conn'[c] = "lost" => NameOf(c) \in Reconnecting
           /\ c \notin ToSet(clients) =>
                /\ conn'[c] = "up" => NameOf(c) \in Reconnecting
                /\ conn'[c] = "connecting" => InProgress(c)
  PROVE  SetInv'
<1>1. SetTyped'
  BY DEF SetInv, SetTyped, CSTypeOK, ConnStates, services
<1>2. OneEach' /\ OnePromise' /\ WiredOnce' /\ AllSettled' /\ SeenSoFar'
  BY DEF SetInv, OneEach, OnePromise, WiredOnce, AllSettled, Settled, SeenSoFar,
         services, Named, InProgress, NameOf, ToSet
<1>3. Outside'
  BY DEF Outside, services, InProgress
<1> QED BY <1>1, <1>2, <1>3 DEF SetInv

\* A connection that is lost, comes back or closes.
LEMMA SetConnections ==
  ASSUME SetInv, NEW c \in Client, Lost(c) \/ Reconnected(c) \/ CloseEnds(c)
  PROVE  SetInv'
<1>1. conn \in [Client -> ConnStates] /\ Outside
  BY DEF SetInv, SetTyped, CSTypeOK, ConnStates
<1>2. /\ \E to \in {"up", "idle", "lost"} :
           /\ conn' = [conn EXCEPT ![c] = to]
           /\ to = "lost" => NameOf(c) \in Reconnecting
           /\ to = "up" => conn[c] = "lost"
      /\ UNCHANGED <<clients, services, removals, walk, wired>>
  BY DEF Lost, Reconnected, CloseEnds, Comeback
<1>3. conn' \in [Client -> ConnStates]
  BY <1>1, <1>2 DEF ConnStates
<1>4. \A d \in Client :
           /\ conn'[d] = "lost" => NameOf(d) \in Reconnecting
           /\ d \notin ToSet(clients) =>
                /\ conn'[d] = "up" => NameOf(d) \in Reconnecting
                /\ conn'[d] = "connecting" => InProgress(d)
  BY <1>1, <1>2 DEF Outside
<1> QED BY <1>2, <1>3, <1>4, ConnKeeps

\* Callers that share a promise or come back from one, and removals that are over.
LEMMA SetCallers ==
  ASSUME SetInv, UNCHANGED <<clients, conn, made, pending, promise, dropped, walk, wired>>,
         adds' \in [Adds -> Client \union {NoClient}],
         removals' \in [Removals -> SUBSET Client]
  PROVE  SetInv'
<1>1. SetTyped'
  BY DEF SetInv, SetTyped, CSTypeOK
<1>2. OneEach' /\ OnePromise' /\ WiredOnce' /\ AllSettled' /\ SeenSoFar' /\ Outside'
  BY DEF SetInv, OneEach, OnePromise, WiredOnce, AllSettled, Settled, SeenSoFar, Outside,
         Named, InProgress, NameOf, ToSet
<1> QED BY <1>1, <1>2 DEF SetInv

\* removeConnection takes one client out of the array.
LEMMA SetRemoveConnection ==
  ASSUME SetInv, NEW n \in Names, NEW r \in Removals, RemoveConnection(r, n)
  PROVE  SetInv'
<1>0. /\ removals' = [removals EXCEPT ![r] = Named(n)] /\ Spliced(n)
      /\ UNCHANGED <<made, pending, promise, dropped, adds, wired>>
  BY DEF RemoveConnection, services
<1>1. /\ clients' \in Seq(Client) /\ OneEach'
      /\ ToSet(clients') = ToSet(clients) \ Named(n)
      /\ conn' \in [Client -> ConnStates]
      /\ \A c \in Client :
           /\ c \notin Named(n) => conn'[c] = conn[c]
           /\ c \in Named(n) => conn'[c] \notin {"up", "connecting"}
           /\ conn'[c] = "lost" => conn[c] = "lost"
      /\ walk' \in [Walks -> WalkRecord]
      /\ \A w \in Walks : walk'[w].awaits = walk[w].awaits
      /\ SeenSoFar'
  BY <1>0, SplicedKeeps
<1>2. Named(n) \subseteq Client
  BY DEF Named, SetInv, SetTyped, CSTypeOK, ToSet
<1>3. SetTyped'
  BY <1>0, <1>1, <1>2 DEF SetInv, SetTyped, CSTypeOK, ConnStates
<1>4. OnePromise'
  <2>1. \A m \in Names : Named(m)' \subseteq Named(m)
    BY <1>1 DEF Named, ToSet, NameOf
  <2>2. \A c \in Client : InProgress(c)' <=> InProgress(c)
    BY <1>0 DEF InProgress
  <2> QED BY <1>0, <2>1, <2>2 DEF SetInv, OnePromise
<1>5. WiredOnce'
  BY <1>0 DEF SetInv, WiredOnce, NameOf
<1>6. AllSettled'
  BY <1>0, <1>1 DEF SetInv, AllSettled, Settled, InProgress, NameOf
<1>7. Outside'
  BY <1>0, <1>1 DEF SetInv, Outside, InProgress, NameOf
<1> QED BY <1>1, <1>3, <1>4, <1>5, <1>6, <1>7 DEF SetInv

\* addConnection starts on a new client.
LEMMA SetAddBegun ==
  ASSUME SetInv, NEW n \in Names, NEW a \in Adds, AddBegun(a, n)
  PROVE  SetInv'
<1> DEFINE c == Fresh(n)
<1>0. /\ pending[n] = NoClient /\ made[n] < MaxMade[n]
      /\ made' = [made EXCEPT ![n] = @ + 1]
      /\ pending' = [pending EXCEPT ![n] = c]
      /\ promise' = [promise EXCEPT ![c] = "replacing"]
      /\ dropped' = [dropped EXCEPT ![c] = Named(n)]
      /\ adds' = [adds EXCEPT ![a] = c]
      /\ Spliced(n)
      /\ UNCHANGED <<removals, wired>>
  BY DEF AddBegun, InFlight
<1>1. /\ clients' \in Seq(Client) /\ OneEach'
      /\ ToSet(clients') = ToSet(clients) \ Named(n)
      /\ conn' \in [Client -> ConnStates]
      /\ \A d \in Client :
           /\ d \notin Named(n) => conn'[d] = conn[d]
           /\ d \in Named(n) => conn'[d] \notin {"up", "connecting"}
           /\ conn'[d] = "lost" => conn[d] = "lost"
      /\ walk' \in [Walks -> WalkRecord]
      /\ \A w \in Walks : walk'[w].awaits = walk[w].awaits
      /\ SeenSoFar'
  BY <1>0, SplicedKeeps
<1>2. /\ c \in Client /\ NameOf(c) = n /\ c # NoClient
      /\ c[2] = made[n] + 1 /\ made[n] \in Nat /\ made[n] + 1 <= MaxMade[n]
  <2>1. made[n] \in Nat /\ MaxMade[n] \in Nat
    BY ClientSetAssumption DEF SetInv, SetTyped, CSTypeOK
  <2>2. made[n] + 1 \in 1 .. MaxMade[n]
    BY <1>0, <2>1
  <2>3. <<n, made[n] + 1>> \in Client /\ NameOf(<<n, made[n] + 1>>) = n
    <3>1. made[n] + 1 \in Nat
      BY <2>1
    <3> QED BY <2>2, <3>1, ClientsAre
  <2> QED BY <1>0, <2>1, <2>2, <2>3, ClientsAre DEF Fresh
<1> HIDE DEF c
<1>3. /\ ToSet(clients) \subseteq Client
      /\ Named(n) = {d \in ToSet(clients) : NameOf(d) = n}
  BY DEF Named, SetInv, SetTyped, CSTypeOK, ToSet
<1>4. SetTyped'
  <2>1. made' \in [Names -> Nat] /\ \A m \in Names : made'[m] <= MaxMade[m]
    BY <1>0, <1>2 DEF SetInv, SetTyped, CSTypeOK
  <2> QED
    BY <1>0, <1>1, <1>2, <1>3, <2>1 DEF SetInv, SetTyped, CSTypeOK, ConnStates
<1>5. \A d \in Client : InProgress(d)' <=> InProgress(d) \/ d = c
  BY <1>0, <1>2 DEF InProgress, SetInv, SetTyped, CSTypeOK
<1>6. OnePromise'
  <2>1. Named(n)' = {} /\ \A m \in Names : Named(m)' \subseteq Named(m)
    BY <1>1, <1>3 DEF Named, ToSet, NameOf
  <2>2. /\ pending \in [Names -> Client \union {NoClient}] /\ made \in [Names -> Nat]
        /\ OnePromise
    BY DEF SetInv, SetTyped, CSTypeOK
  <2> QED BY <1>0, <1>2, <1>5, <2>1, <2>2 DEF OnePromise, NameOf
<1>7. WiredOnce'
  BY <1>0 DEF SetInv, WiredOnce, NameOf
<1>8. ASSUME NEW d \in Client, Settled(d) PROVE Settled(d)'
  <2>1. /\ NameOf(d) \in Names /\ d[2] \in Nat /\ made \in [Names -> Nat]
        /\ d[2] <= made[NameOf(d)] /\ ~InProgress(d)
    BY <1>8, ClientsAre, ClientSetAssumption DEF Settled, SetInv, SetTyped, CSTypeOK
  <2>2. d # c
    BY <1>2, <2>1
  <2>3. made'[NameOf(d)] >= made[NameOf(d)] /\ made'[NameOf(d)] \in Nat
    BY <1>0, <1>2, <2>1
  <2>4. d[2] <= made'[NameOf(d)] /\ ~InProgress(d)'
    BY <1>5, <2>1, <2>2, <2>3
  <2> QED BY <2>4 DEF Settled, NameOf
<1>9. AllSettled'
  BY <1>1, <1>3, <1>8 DEF SetInv, AllSettled, SetTyped, WalkRecord
<1>10. Outside'
  BY <1>0, <1>1, <1>3, <1>5 DEF SetInv, Outside, NameOf
<1> QED BY <1>1, <1>4, <1>6, <1>7, <1>9, <1>10 DEF SetInv

\* The client it replaces is gone; the new one connects.
LEMMA SetAddConnects ==
  ASSUME SetInv, NEW c \in Client, AddConnects(c)
  PROVE  SetInv'
<1>0. /\ promise[c] = "replacing"
      /\ promise' = [promise EXCEPT ![c] = "connecting"]
      /\ conn' = [conn EXCEPT ![c] = "connecting"]
      /\ dropped' = [dropped EXCEPT ![c] = {}]
      /\ UNCHANGED <<clients, made, pending, adds, removals, walk, wired>>
  BY DEF AddConnects
<1>1. SetTyped'
  BY <1>0 DEF SetInv, SetTyped, CSTypeOK
<1>2. \A d \in Client : InProgress(d)' <=> InProgress(d)
  BY <1>0 DEF InProgress, SetInv, SetTyped, CSTypeOK
<1>3. OneEach' /\ WiredOnce' /\ SeenSoFar'
  BY <1>0 DEF SetInv, OneEach, WiredOnce, SeenSoFar, NameOf, ToSet
<1>4. OnePromise'
  BY <1>0, <1>2 DEF SetInv, OnePromise, Named, NameOf, ToSet
<1>5. ToSet(clients) \subseteq Client
  BY DEF SetInv, SetTyped, CSTypeOK, ToSet
<1>6. AllSettled'
  BY <1>0, <1>2, <1>5
  DEF SetInv, SetTyped, WalkRecord, AllSettled, Settled, NameOf, ToSet
<1>7. Outside'
  <2>1. InProgress(c)'
    BY <1>0 DEF InProgress, SetInv, SetTyped, CSTypeOK
  <2> QED
    BY <1>0, <1>2, <2>1 DEF SetInv, SetTyped, CSTypeOK, Outside, NameOf, ToSet
<1> QED BY <1>1, <1>3, <1>4, <1>6, <1>7 DEF SetInv

\* The finally of addConnection's promise: the client it was for joins the array,
\* where its name has none.
LEMMA SetAddEnds ==
  ASSUME SetInv, NEW c \in Client, AddEnds(c)
  PROVE  SetInv'
<1> DEFINE n == NameOf(c)
<1>0. PICK up \in BOOLEAN :
        /\ conn' = [conn EXCEPT ![c] = IF up THEN "up" ELSE "idle"]
        /\ clients' = IF up THEN Append(clients, c) ELSE clients
        /\ promise' = [promise EXCEPT ![c] = IF up THEN "fulfilled" ELSE "rejected"]
        /\ pending' = [pending EXCEPT ![n] = NoClient]
  BY DEF AddEnds, Forgotten
<1>a. promise[c] = "connecting" /\ UNCHANGED <<made, dropped, adds, removals, walk, wired>>
  BY DEF AddEnds
<1>1. /\ clients \in Seq(Client) /\ conn \in [Client -> ConnStates]
      /\ pending \in [Names -> Client \union {NoClient}]
      /\ promise \in [Client -> {"none", "replacing", "connecting", "fulfilled", "rejected"}]
      /\ walk \in [Walks -> WalkRecord]
      /\ OneEach /\ OnePromise /\ AllSettled /\ Outside /\ SeenSoFar /\ WiredOnce
  BY DEF SetInv, SetTyped, CSTypeOK, ConnStates
<1>2. n \in Names
  BY ClientsAre
<1> HIDE DEF n
<1>3. /\ pending[n] = c /\ c # NoClient /\ c[2] <= made[n]
      /\ Named(n) = {}
  <2>1. c \in {pending[n]} \ {NoClient}
    BY <1>1, <1>2, <1>a DEF OnePromise, InProgress, n
  <2> QED BY <1>1, <1>2, <2>1 DEF OnePromise
<1>4. c \notin ToSet(clients) /\ \A d \in ToSet(clients) : NameOf(d) # n
  BY <1>3 DEF Named, n
<1>5. /\ clients' \in Seq(Client) /\ IsInjective(clients')
      /\ ToSet(clients') \subseteq ToSet(clients) \union {c}
      /\ ToSet(clients) \subseteq ToSet(clients')
      /\ ~up => c \notin ToSet(clients')
      /\ up => c \in ToSet(clients')
      /\ Len(clients) <= Len(clients')
      /\ \A i \in 1 .. Len(clients) : clients'[i] = clients[i]
  <2>1. CASE up
    <3>1. clients' = Append(clients, c)
      BY <1>0, <2>1
    <3>2. /\ clients' \in Seq(Client) /\ IsInjective(clients')
          /\ ToSet(clients') = ToSet(clients) \union {c}
      BY <1>1, <1>4, <3>1, AppendedOnce DEF OneEach
    <3>3. Len(clients') = Len(clients) + 1 /\ \A i \in 1 .. Len(clients) : clients'[i] = clients[i]
      BY <1>1, <3>1, AppendProperties
    <3>4. Len(clients) \in Nat
      BY <1>1
    <3> QED BY <2>1, <3>2, <3>3, <3>4
  <2>2. CASE ~up
    <3>1. clients' = clients /\ Len(clients) \in Nat
      BY <1>0, <1>1, <2>2
    <3> QED BY <1>1, <1>4, <2>2, <3>1 DEF OneEach
  <2> QED BY <2>1, <2>2
<1>6. \A d \in Client : InProgress(d)' <=> InProgress(d) /\ d # c
  BY <1>0, <1>1, <1>a DEF InProgress
<1>7. SetTyped'
  BY <1>0, <1>1, <1>2, <1>5, <1>a DEF SetInv, SetTyped, CSTypeOK, ConnStates
<1>8. OneEach'
  BY <1>1, <1>4, <1>5 DEF OneEach, NameOf, n
<1>9. OnePromise'
  <2>1. \A m \in Names : m # n => Named(m)' \subseteq Named(m)
    BY <1>5 DEF Named, ToSet, NameOf, n
  <2>2. \A m \in Names : pending'[m] = IF m = n THEN NoClient ELSE pending[m]
    BY <1>0, <1>1
  <2>3. ASSUME NEW m \in Names
        PROVE  /\ {d \in Client : NameOf(d) = m /\ InProgress(d)'} = {pending'[m]} \ {NoClient}
               /\ pending'[m] # NoClient => Named(m)' = {} /\ pending'[m][2] <= made'[m]
    <3>1. /\ {d \in Client : NameOf(d) = m /\ InProgress(d)} = {pending[m]} \ {NoClient}
          /\ pending[m] # NoClient => Named(m) = {} /\ pending[m][2] <= made[m]
      BY <1>1 DEF OnePromise
    <3>2. CASE m = n
      BY <1>3, <1>6, <2>2, <3>1, <3>2
    <3>3. CASE m # n
      BY <1>6, <1>a, <2>1, <2>2, <3>1, <3>3 DEF n
    <3> QED BY <3>2, <3>3
  <2> QED BY <2>3 DEF OnePromise, NameOf
<1>10. WiredOnce'
  BY <1>1, <1>a DEF WiredOnce, NameOf
<1>11. AllSettled'
  <2>1. \A d \in Client : Settled(d) => Settled(d)'
    BY <1>6, <1>a DEF Settled, NameOf
  <2>2. Settled(c)'
    BY <1>3, <1>6, <1>a DEF Settled, NameOf, n
  <2>3. ToSet(clients) \subseteq Client
    BY <1>1 DEF ToSet
  <2> QED BY <1>1, <1>5, <1>a, <2>1, <2>2, <2>3 DEF AllSettled, WalkRecord
<1>12. Outside'
  BY <1>0, <1>1, <1>5, <1>6 DEF Outside, NameOf
<1>13. SeenSoFar'
  <2> SUFFICES ASSUME NEW w \in Walks, walk[w].awaits # NoClient, ~walk[w].shifted
               PROVE  /\ walk[w].at <= Len(clients')
                      /\ \A i \in 1 .. walk[w].at : clients'[i] \in walk[w].seen
    BY <1>a DEF SeenSoFar
  <2>1. Len(clients) \in Nat /\ Len(clients') \in Nat /\ walk[w].at \in Nat
    BY <1>1, <1>5 DEF WalkRecord
  <2>2. walk[w].at <= Len(clients) /\ \A i \in 1 .. walk[w].at : clients[i] \in walk[w].seen
    BY <1>1 DEF SeenSoFar
  <2> QED BY <1>5, <2>1, <2>2
<1> QED BY <1>7, <1>8, <1>9, <1>10, <1>11, <1>12, <1>13 DEF SetInv

\* What a walk passes over is a stretch of the array.
LEMMA Stretch ==
  ASSUME NEW a \in Nat, NEW b \in Nat, NEW P \in SUBSET (a .. b),
         \A i \in P : \A j \in a .. i : j \in P
  PROVE  Cardinality(P) \in Nat /\ P = a .. (a + Cardinality(P) - 1)
<1> DEFINE T == {m \in Nat : m >= a /\ m \notin P}
<1>1. T \subseteq Nat /\ T # {}
  <2>1. a + b + 1 \in T
    OBVIOUS
  <2> QED BY <2>1
<1> HIDE DEF T
<1>2. PICK m \in T : \A k \in T : ~(<<k, m>> \in OpToRel(<, Nat))
  BY <1>1, NatLessThanWellFounded, WFMin
<1>3. m \in Nat /\ \A k \in T : ~(k < m)
  BY <1>1, <1>2 DEF OpToRel
<1> USE DEF T
<1>4. m >= a /\ m \notin P /\ \A k \in a .. m - 1 : k \in P
  BY <1>3
<1>5. P = a .. m - 1
  <2>1. ASSUME NEW i \in P PROVE i \in a .. m - 1
    <3>1. i \in a .. b /\ ~(m \in a .. i)
      BY <1>4
    <3> QED BY <1>3, <1>4, <3>1
  <2> QED BY <1>4, <2>1
<1>6. Cardinality(a .. m - 1) = IF a > m - 1 THEN 0 ELSE (m - 1) - a + 1
  BY <1>3, FS_Interval
<1>7. Cardinality(P) = m - a /\ m - a \in Nat
  BY <1>3, <1>4, <1>5, <1>6
<1> QED BY <1>3, <1>5, <1>7

\* What a walk passes over in one go is a stretch of the array.
LEMMA PassedStretch ==
  ASSUME SetInv, NEW w \in Walks, NEW from \in Nat \ {0}, NEW states
  PROVE  LET passed == Passed(w, from, states)
             at == from + Cardinality(passed)
         IN  at \in Nat /\ at >= from /\ passed = from .. at - 1
<1> DEFINE passed == Passed(w, from, states)
<1>1. Len(clients) \in Nat
  BY DEF SetInv, SetTyped, CSTypeOK
<1>2. passed \in SUBSET (from .. Len(clients)) /\ \A i \in passed : \A j \in from .. i : j \in passed
  BY <1>1 DEF Passed
<1> HIDE DEF passed
<1>3. Cardinality(passed) \in Nat /\ passed = from .. (from + Cardinality(passed) - 1)
  BY <1>1, <1>2, Stretch
<1> QED BY <1>3 DEF passed

\* A walk goes on or ends.
LEMMA SetGoes ==
  ASSUME SetInv, NEW w \in Walks, NEW from \in Nat \ {0},
         NEW states \in [Client -> ConnStates], Goes(w, from, states),
         UNCHANGED <<clients, services, removals>>,
         \A c \in Client :
           /\ states[c] = "lost" => NameOf(c) \in Reconnecting
           /\ c \notin ToSet(clients) =>
                /\ states[c] = "up" => NameOf(c) \in Reconnecting
                /\ states[c] = "connecting" => InProgress(c),
         ~walk[w].shifted => \A i \in 1 .. from - 1 : clients[i] \in walk[w].seen
  PROVE  SetInv'
<1> DEFINE passed == Passed(w, from, states)
           at == from + Cardinality(passed)
<1>1. at \in Nat /\ at >= from /\ passed = from .. at - 1
  BY PassedStretch
<1>2. /\ clients \in Seq(Client) /\ Len(clients) \in Nat
      /\ ToSet(clients) = {clients[i] : i \in 1 .. Len(clients)}
      /\ ToSet(clients) \subseteq Client
      /\ walk \in [Walks -> WalkRecord]
      /\ SetTyped /\ OneEach /\ OnePromise /\ AllSettled /\ Outside /\ SeenSoFar /\ WiredOnce
      /\ UNCHANGED <<clients, made, pending, promise, dropped, adds, removals>>
  BY DEF SetInv, SetTyped, CSTypeOK, ToSet, services
<1>3. OneEach' /\ OnePromise'
  BY <1>2
  DEF OneEach, OnePromise, Named, InProgress, NameOf, ToSet
<1>4. \A c \in Client : (Settled(c)' <=> Settled(c)) /\ (InProgress(c)' <=> InProgress(c))
  BY <1>2 DEF Settled, InProgress, NameOf
<1>5. /\ conn' \in [Client -> ConnStates]
      /\ \A c \in Client : conn'[c] = "lost" => states[c] = "lost"
      /\ \A c \in Client : c \notin ToSet(clients) => conn'[c] = states[c]
  <2>1. CASE More(at)
    <3>1. conn' = Visited(w, clients[at], states)
      BY <2>1 DEF Goes
    <3>2. clients[at] \in ToSet(clients) /\ clients[at] \in Client
      BY <1>1, <1>2, <2>1 DEF More
    <3> DEFINE x == clients[at]
    <3> HIDE DEF x
    <3>3. \E s \in ConnStates : /\ conn' = [states EXCEPT ![x] = s]
                                /\ s = "lost" => states[x] = "lost"
      <4>1. CASE w = "bootstrap" /\ states[x] = "idle"
        BY <3>1, <4>1 DEF Visited, ConnStates, x
      <4>2. CASE w = "shutdown"
        BY <3>1, <3>2, <4>2 DEF Visited, ConnStates, AfterDisconnect, x
      <4>3. CASE ~(w = "bootstrap" /\ states[x] = "idle") /\ w # "shutdown"
        <5>1. conn' = states /\ states = [states EXCEPT ![x] = states[x]]
          BY <3>1, <4>3 DEF Visited, x
        <5> QED BY <3>2, <5>1 DEF x
      <4> QED BY <4>1, <4>2, <4>3
    <3> QED BY <3>2, <3>3 DEF x
  <2>2. CASE ~More(at)
    <3>1. conn' = states
      BY <2>2 DEF Goes
    <3> QED BY <3>1
  <2> QED BY <2>1, <2>2
<1>6. Outside'
  BY <1>2, <1>4, <1>5 DEF Outside, NameOf, ToSet
<1>7. /\ wired' \subseteq Client
      /\ WiredOnce'
  <2>1. wired' = wired \/ wired' = Wired
    BY DEF Goes
  <2>2. Wired \subseteq ToSet(clients)
    BY DEF Wired
  <2> QED BY <1>2, <2>1, <2>2 DEF WiredOnce, OneEach, NameOf, SetTyped, CSTypeOK
<1>8. /\ walk' \in [Walks -> WalkRecord]
      /\ \A v \in Walks : v # w => walk'[v] = walk[v]
      /\ walk'[w].awaits # NoClient =>
           /\ walk'[w].awaits \in ToSet(clients)
           /\ walk'[w].at = at /\ at <= Len(clients)
           /\ walk'[w].shifted = walk[w].shifted
           /\ walk'[w].seen = walk[w].seen \union {clients[i] : i \in passed \union {at}}
  <2>1. CASE More(at)
    <3>1. walk' = [walk EXCEPT ![w].at = at, ![w].awaits = clients[at],
                      ![w].seen = @ \union {clients[i] : i \in passed \union {at}}]
      BY <2>1 DEF Goes
    <3>2. at \in 1 .. Len(clients)
      BY <1>1, <1>2, <2>1 DEF More
    <3>3. {clients[i] : i \in passed \union {at}} \subseteq Client
      <4>1. passed \union {at} \subseteq 1 .. Len(clients)
        BY <1>1, <3>2
      <4> QED BY <1>2, <4>1
    <3> HIDE DEF passed, at
    <3>4. walk[w] \in WalkRecord
      BY <1>2
    <3>5. /\ walk'[w] \in WalkRecord
          /\ walk'[w].awaits = clients[at] /\ walk'[w].at = at
          /\ walk'[w].shifted = walk[w].shifted
          /\ walk'[w].seen = walk[w].seen \union {clients[i] : i \in passed \union {at}}
      <4> DEFINE met == {clients[i] : i \in passed \union {at}}
                 x == clients[at]
      <4>1. met \subseteq Client /\ x \in Client /\ at \in Nat
        BY <1>2, <3>2, <3>3
      <4>2. walk'[w] = [walk[w] EXCEPT !.at = at, !.awaits = x, !.seen = @ \union met]
        <5>1. walk' = [walk EXCEPT ![w].at = at, ![w].awaits = x, ![w].seen = @ \union met]
          BY <3>1
        <5> HIDE DEF met, x
        <5> QED BY <1>2, <5>1
      <4> HIDE DEF met, x
      <4>3. /\ walk'[w] \in WalkRecord
            /\ walk'[w].awaits = x /\ walk'[w].at = at
            /\ walk'[w].shifted = walk[w].shifted
            /\ walk'[w].seen = walk[w].seen \union met
        BY <3>4, <4>1, <4>2 DEF WalkRecord
      <4> QED BY <4>3 DEF met, x
    <3> QED BY <1>2, <3>1, <3>2, <3>5
  <2>2. CASE ~More(at)
    <3>1. walk' = [walk EXCEPT ![w] = [AtRest EXCEPT !.over = TRUE]]
      BY <2>2 DEF Goes
    <3>2. [AtRest EXCEPT !.over = TRUE] \in WalkRecord
      BY DEF AtRest, WalkRecord
    <3>3. walk'[w].awaits = NoClient
      BY <1>2, <3>1 DEF AtRest
    <3> QED BY <1>2, <3>1, <3>2, <3>3
  <2> QED BY <2>1, <2>2
<1>9. AllSettled'
  <2>1. \A c \in ToSet(clients) : Settled(c)
    BY <1>2 DEF AllSettled
  <2>2. ASSUME NEW v \in Walks, walk'[v].awaits # NoClient PROVE Settled(walk'[v].awaits)
    <3>1. CASE v = w
      BY <1>8, <2>1, <2>2, <3>1
    <3>2. CASE v # w
      BY <1>2, <1>8, <2>2, <3>2 DEF AllSettled
    <3> QED BY <3>1, <3>2
  <2>3. ToSet(clients') = ToSet(clients) /\ made' = made /\ promise' = promise
    BY <1>2
  <2> QED BY <2>1, <2>2, <2>3 DEF AllSettled, Settled, InProgress, NameOf
<1>10. SeenSoFar'
  <2> SUFFICES ASSUME NEW v \in Walks, walk'[v].awaits # NoClient, ~walk'[v].shifted
               PROVE  /\ walk'[v].at <= Len(clients)
                      /\ \A i \in 1 .. walk'[v].at : clients[i] \in walk'[v].seen
    BY <1>2 DEF SeenSoFar
  <2>1. CASE v # w
    BY <1>2, <1>8, <2>1 DEF SeenSoFar
  <2>2. CASE v = w
    <3>1. \A i \in 1 .. at : i \in 1 .. from - 1 \/ i \in passed \union {at}
      BY <1>1
    <3>2. \A i \in 1 .. from - 1 : clients[i] \in walk[w].seen
      BY <1>8, <2>2
    <3> HIDE DEF at, passed
    <3> QED BY <1>8, <2>2, <3>1, <3>2
  <2> QED BY <2>1, <2>2
<1>11. SetTyped'
  BY <1>2, <1>5, <1>7, <1>8 DEF SetTyped, CSTypeOK, ConnStates
<1> QED BY <1>3, <1>6, <1>7, <1>9, <1>10, <1>11 DEF SetInv

\* What a step of a walk starts from: what it has passed it has seen, unless a
\* removal reached it, and the client it was at connects no more, out of the array.
LEMMA StepGoes ==
  ASSUME SetInv, NEW w \in Walks, WalkStarts(w) \/ VisitEnds(w)
  PROVE  /\ UNCHANGED <<clients, services, removals>>
         /\ \E from \in Nat \ {0} : \E states \in [Client -> ConnStates] :
              /\ Goes(w, from, states)
              /\ \A c \in Client :
                   /\ states[c] = "lost" => NameOf(c) \in Reconnecting
                   /\ c \notin ToSet(clients) =>
                        /\ states[c] = "up" => NameOf(c) \in Reconnecting
                        /\ states[c] = "connecting" => InProgress(c)
              /\ ~walk[w].shifted => \A i \in 1 .. from - 1 : clients[i] \in walk[w].seen
              /\ w = "health" => states = conn
<1>1. /\ conn \in [Client -> ConnStates] /\ walk \in [Walks -> WalkRecord]
      /\ AllSettled /\ Outside /\ SeenSoFar
  BY DEF SetInv, SetTyped, CSTypeOK, ConnStates
<1>2. CASE WalkStarts(w)
  <2>1. Goes(w, 1, conn) /\ UNCHANGED <<clients, services, removals>>
    BY <1>2 DEF WalkStarts
  <2>2. \A i \in 1 .. 1 - 1 : clients[i] \in walk[w].seen
    OBVIOUS
  <2> QED BY <1>1, <2>1, <2>2 DEF Outside
<1>3. CASE VisitEnds(w)
  <2>1. UNCHANGED <<clients, services, removals>>
    BY <1>3 DEF VisitEnds
  <2> DEFINE c == walk[w].awaits
             from == walk[w].at + 1
  <2>2. c # NoClient /\ c \in Client /\ from \in Nat \ {0} /\ from - 1 = walk[w].at
    BY <1>1, <1>3 DEF VisitEnds, Under, WalkRecord
  <2>3. PICK to \in (IF w = "bootstrap" /\ conn[c] = "connecting" THEN {"up", "idle"} ELSE {conn[c]}) :
          Goes(w, from, [conn EXCEPT ![c] = to])
    BY <1>3 DEF VisitEnds
  <2>4. Settled(c)
    BY <1>1, <2>2 DEF AllSettled
  <2> HIDE DEF c, from
  <2> DEFINE states == [conn EXCEPT ![c] = to]
  <2>5. states \in [Client -> ConnStates]
    BY <1>1, <2>2, <2>3 DEF ConnStates
  <2>6. \A d \in Client :
          /\ states[d] = "lost" => NameOf(d) \in Reconnecting
          /\ d \notin ToSet(clients) =>
               /\ states[d] = "up" => NameOf(d) \in Reconnecting
               /\ states[d] = "connecting" => InProgress(d)
    BY <1>1, <2>2, <2>3, <2>4 DEF Outside, Settled
  <2>7. ~walk[w].shifted => \A i \in 1 .. from - 1 : clients[i] \in walk[w].seen
    BY <1>1, <2>2 DEF SeenSoFar, c
  <2>8. w = "health" => states = conn
    BY <1>1, <2>2, <2>3
  <2> HIDE DEF states
  <2>9. Goes(w, from, states)
    BY <2>3 DEF states
  <2> QED BY <2>1, <2>2, <2>5, <2>6, <2>7, <2>8, <2>9
<1> QED BY <1>2, <1>3

\* Every step of the client module keeps it.
LEMMA SetNext == SetInv /\ [CSNext]_csVars => SetInv'
<1> SUFFICES ASSUME SetInv, [CSNext]_csVars PROVE SetInv'
  OBVIOUS
<1>0. /\ clients \in Seq(Client) /\ conn \in [Client -> ConnStates]
      /\ pending \in [Names -> Client \union {NoClient}]
      /\ adds \in [Adds -> Client \union {NoClient}]
      /\ removals \in [Removals -> SUBSET Client]
  BY DEF SetInv, SetTyped, CSTypeOK, ConnStates
<1>1. ASSUME NEW c \in Client, Lost(c) \/ Reconnected(c) \/ CloseEnds(c)
      PROVE  SetInv'
  BY <1>1, SetConnections
<1>2. ASSUME NEW c \in Client, AddConnects(c) PROVE SetInv'
  BY <1>2, SetAddConnects
<1>3. ASSUME NEW c \in Client, AddEnds(c) PROVE SetInv'
  BY <1>3, SetAddEnds
<1>4. CASE UNCHANGED csVars
  BY <1>0, <1>4, SetCallers DEF csVars, services
<1>5. ASSUME NEW n \in Names, NEW a \in Adds, AddConnection(a, n) PROVE SetInv'
  <2>1. CASE AddServed(a, n)
    BY <1>4, <2>1 DEF AddServed
  <2>2. CASE AddShared(a, n)
    BY <1>0, <2>2, SetCallers DEF AddShared
  <2>3. CASE AddBegun(a, n)
    BY <2>3, SetAddBegun
  <2> QED BY <1>5, <2>1, <2>2, <2>3 DEF AddConnection
<1>6. ASSUME NEW n \in Names, NEW r \in Removals, RemoveConnection(r, n) PROVE SetInv'
  BY <1>6, SetRemoveConnection
<1>7. ASSUME NEW a \in Adds, AddReturns(a) PROVE SetInv'
  BY <1>0, <1>7, SetCallers DEF AddReturns
<1>8. ASSUME NEW r \in Removals, Removed(r) PROVE SetInv'
  BY <1>0, <1>8, SetCallers DEF Removed, services
<1>9. ASSUME NEW w \in Walks, WalkStarts(w) \/ VisitEnds(w) PROVE SetInv'
  BY <1>9, StepGoes, SetGoes
<1> QED
  BY <1>1, <1>2, <1>3, <1>4, <1>5, <1>6, <1>7, <1>8, <1>9 DEF CSNext

\* The clients of an application: a name has one client in the array and one being
\* connected, the one whose promise callers share, and one client of a name has its
\* notification handlers (addConnection, removeConnection).
THEOREM ClientsStaySingle == CSSpec => []OneClientPerName
<1>1. SetInv => OneClientPerName
  <2> SUFFICES ASSUME SetInv PROVE OneClientPerName
    OBVIOUS
  <2>1. /\ CSTypeOK /\ clients \in Seq(Client)
        /\ \A i, j \in DOMAIN clients : clients[i] = clients[j] => i = j
        /\ \A i \in DOMAIN clients : clients[i] \in ToSet(clients)
    BY DEF SetInv, SetTyped, CSTypeOK, OneEach, IsInjective, ToSet
  <2> QED
    BY <2>1 DEF SetInv, OneEach, OnePromise, WiredOnce, OneClientPerName
<1> QED BY SetInit, SetNext, <1>1, PTL DEF CSSpec

\* A client that is up without being in the array has a name that reconnects
\* (attemptReconnect): a name without a loop leaves no client behind.
THEOREM OnlyLoopsStray == CSSpec => []StraysReconnect
<1>1. SetInv => StraysReconnect
  BY DEF SetInv, Outside, StraysReconnect
<1> QED BY SetInit, SetNext, <1>1, PTL DEF CSSpec

\* A walk that no removal has reached and that ends has seen every client but,
\* in the health check, those that were not connected.
LEMMA GoesReaches ==
  ASSUME SetInv, NEW w \in Walks, NEW from \in Nat \ {0}, NEW states,
         Goes(w, from, states), ~walk[w].over, walk'[w].over,
         \A i \in 1 .. from - 1 : clients[i] \in walk[w].seen,
         w = "health" => states = conn
  PROVE  \A c \in ToSet(clients) : c \in walk[w].seen \/ (w = "health" /\ ~IsConnected(c))
<1> DEFINE passed == Passed(w, from, states)
           at == from + Cardinality(passed)
<1>1. at \in Nat /\ at >= from /\ passed = from .. at - 1
  BY PassedStretch
<1>2. Len(clients) \in Nat /\ walk \in [Walks -> WalkRecord]
  BY DEF SetInv, SetTyped, CSTypeOK
<1>3. ~More(at)
  <2> SUFFICES ASSUME More(at) PROVE FALSE
    OBVIOUS
  <2> DEFINE x == clients[at]
             met == {clients[i] : i \in passed \union {at}}
  <2>1. walk' = [walk EXCEPT ![w].at = at, ![w].awaits = x, ![w].seen = @ \union met]
    BY DEF Goes
  <2> HIDE DEF at, x, met
  <2>2. walk[w] \in WalkRecord /\ walk'[w] = [walk[w] EXCEPT !.at = at, !.awaits = x, !.seen = @ \union met]
    BY <1>2, <2>1
  <2> QED BY <2>2 DEF WalkRecord
<1> SUFFICES ASSUME NEW i \in 1 .. Len(clients), clients[i] \notin walk[w].seen
             PROVE  w = "health" /\ ~IsConnected(clients[i])
  BY <1>2 DEF ToSet
<1>4. i \in passed
  BY <1>1, <1>2, <1>3 DEF More
<1>5. w = "health" /\ i \in from .. i /\ \A j \in from .. i : states[clients[j]] # "up"
  BY <1>2, <1>4 DEF Passed
<1> QED BY <1>5 DEF IsConnected

\* Bootstrap, shutdown and health check walk the live array; when one ends it has
\* dealt with every client there is, unless a removal has shifted the array under it
\* (onApplicationBootstrap, onApplicationShutdown, checkHealth).
THEOREM WalksReach == CSSpec => WalksReachAll
<1> DEFINE reach(w) == ~walk[w].over /\ walk'[w].over /\ ~walk[w].shifted
             => \A c \in ToSet(clients) :
                  c \in walk[w].seen \/ (w = "health" /\ ~IsConnected(c))
<1>1. SetInv /\ [CSNext]_csVars => [\A w \in Walks : reach(w)]_csVars
  <2> SUFFICES ASSUME SetInv, CSNext, NEW w \in Walks PROVE reach(w)
    OBVIOUS
  <2>1. ASSUME walk' = walk PROVE reach(w)
    BY <2>1
  <2>2. ASSUME NEW n \in Names, Spliced(n) PROVE reach(w)
    BY <2>2, SplicedKeeps
  <2>3. ASSUME NEW v \in Walks, WalkStarts(v) \/ VisitEnds(v) PROVE reach(w)
    <3>1. PICK from \in Nat \ {0}, states \in [Client -> ConnStates] :
            /\ Goes(v, from, states)
            /\ ~walk[v].shifted => \A i \in 1 .. from - 1 : clients[i] \in walk[v].seen
            /\ v = "health" => states = conn
      BY <2>3, StepGoes
    <3>2. CASE v = w
      BY <3>1, <3>2, GoesReaches
    <3>3. CASE v # w
      <4>1. walk'[w] = walk[w]
        BY <3>1, <3>3 DEF Goes, SetInv, SetTyped
      <4> QED BY <4>1
    <3> QED BY <3>2, <3>3
  <2>4. \/ walk' = walk
        \/ \E n \in Names : Spliced(n)
        \/ \E v \in Walks : WalkStarts(v) \/ VisitEnds(v)
    BY DEF CSNext, Lost, Reconnected, CloseEnds, AddConnects, AddEnds,
           AddConnection, AddServed, AddShared, AddBegun,
           RemoveConnection, AddReturns, Removed, csVars
  <2> QED BY <2>1, <2>2, <2>3, <2>4
<1>2. WalksReachAll <=> [][\A w \in Walks : reach(w)]_csVars
  BY DEF WalksReachAll
<1> QED BY SetInit, SetNext, <1>1, <1>2, PTL DEF CSSpec

(***************************************************************************)
(* The server's catalog                                                    *)
(***************************************************************************)
Known == {i \in Items : i.kind = "tool" => i.key = i.name}

\* What a Map of the registry holds: items of its kind, one for each key.
MapOf(kind, map) ==
  /\ map \in Seq(Known)
  /\ \A n \in DOMAIN map : map[n].kind = kind
  /\ \A a, b \in DOMAIN map : map[a].key = map[b].key => a = b

Kept(reg) ==
  /\ DOMAIN reg = ItemKinds /\ reg = [k \in ItemKinds |-> reg[k]]
  /\ \A k \in ItemKinds : MapOf(k, reg[k])

\* An item takes the place of the one of its key, or the last.
LEMMA MapSetIs ==
  ASSUME NEW kind, NEW map, MapOf(kind, map), NEW item \in Known, item.kind = kind
  PROVE  /\ MapOf(kind, MapSet(map, item))
         /\ ToSet(MapSet(map, item)) = {i \in ToSet(map) : i.key # item.key} \union {item}
<1>1. map \in Seq(Known) /\ DOMAIN map = 1 .. Len(map) /\ Len(map) \in Nat
  BY DEF MapOf
<1>2. CASE \E n \in DOMAIN map : map[n].key = item.key
  <2>1. PICK m \in DOMAIN map : map[m].key = item.key
    BY <1>2
  <2>2. PICK r : r = [n \in DOMAIN map |-> IF map[n].key = item.key THEN item ELSE map[n]]
    OBVIOUS
  <2>3. MapSet(map, item) = r
    BY <1>2, <2>2 DEF MapSet
  <2>4. r \in Seq(Known) /\ DOMAIN r = DOMAIN map
    BY <1>1, <2>2
  <2>5. \A n \in DOMAIN map : r[n].key = map[n].key /\ r[n].kind = kind
    BY <2>2 DEF MapOf
  <2>6. MapOf(kind, r)
    BY <2>4, <2>5 DEF MapOf
  <2>7. r[m] = item /\ \A n \in DOMAIN map : n # m => r[n] = map[n] /\ map[n].key # item.key
    BY <2>1, <2>2 DEF MapOf
  <2>8. \A s \in Seq(Known) : ToSet(s) = {s[n] : n \in DOMAIN s}
    BY DEF ToSet
  <2>9. ToSet(r) = {i \in ToSet(map) : i.key # item.key} \union {item}
    BY <1>1, <2>1, <2>4, <2>7, <2>8
  <2> QED BY <2>3, <2>6, <2>9
<1>3. CASE ~ \E n \in DOMAIN map : map[n].key = item.key
  <2>1. PICK r : r = Append(map, item)
    OBVIOUS
  <2>2. MapSet(map, item) = r
    BY <1>3, <2>1 DEF MapSet
  <2>3. /\ r \in Seq(Known) /\ DOMAIN r = 1 .. Len(map) + 1 /\ r[Len(map) + 1] = item
        /\ \A n \in DOMAIN map : r[n] = map[n]
    BY <1>1, <2>1, AppendProperties
  <2>4. MapOf(kind, r)
    BY <1>1, <1>3, <2>3 DEF MapOf
  <2>5. ToSet(r) = {i \in ToSet(map) : i.key # item.key} \union {item}
    BY <1>1, <1>3, <2>3 DEF ToSet
  <2> QED BY <2>2, <2>4, <2>5
<1> QED BY <1>2, <1>3

\* What is left of a Map is one.
LEMMA LeftIs ==
  ASSUME NEW kind, NEW map, MapOf(kind, map), NEW gone
  PROVE  /\ MapOf(kind, Without(map, gone))
         /\ ToSet(Without(map, gone)) = ToSet(map) \ gone
<1>1. map \in Seq(Known) /\ IsInjective(map)
  BY DEF MapOf, IsInjective
<1>2. PICK r : r = Without(map, gone)
  OBVIOUS
<1>3. r \in Seq(Known) /\ IsInjective(r) /\ ToSet(r) = ToSet(map) \ gone
  BY <1>1, <1>2, WithoutOnce
<1>4. \A n \in DOMAIN r : \E m \in DOMAIN map : r[n] = map[m]
  BY <1>3 DEF ToSet
<1>5. \A i, j \in ToSet(map) : i.kind = kind /\ (i.key = j.key => i = j)
  BY DEF MapOf, ToSet
<1>6. \A n \in DOMAIN r : r[n] \in ToSet(map)
  BY <1>3 DEF ToSet
<1>7. MapOf(kind, r)
  BY <1>3, <1>5, <1>6 DEF MapOf, IsInjective
<1> QED BY <1>2, <1>3, <1>7

\* A filter keeps what it should.
LEMMA KeepingIs ==
  ASSUME NEW kind, NEW map, MapOf(kind, map), NEW kept
  PROVE  /\ MapOf(kind, Keeping(map, kept))
         /\ ToSet(Keeping(map, kept)) = ToSet(map) \intersect kept
<1>1. {map[n] : n \in DOMAIN map} = ToSet(map)
  BY DEF ToSet
<1>2. Keeping(map, kept) = Without(map, ToSet(map) \ kept)
  BY <1>1 DEF Keeping
<1> QED BY <1>2, LeftIs

\* What a registry holds of a kind is what its map lists.
LEMMA HeldIs == \A reg, kind : Held(reg, kind) = ToSet(reg[kind])
BY DEF Held, ToSet

\* Map.set keeps the maps maps, and puts the item where its key was.
LEMMA PutKeeps ==
  ASSUME NEW reg, Kept(reg), NEW item \in Known
  PROVE  /\ Kept(Put(reg, item))
         /\ \A k \in ItemKinds : Held(Put(reg, item), k) =
              IF k = item.kind THEN {i \in Held(reg, k) : i.key # item.key} \union {item}
              ELSE Held(reg, k)
<1>1. item.kind \in ItemKinds
  BY DEF Known, Items
<1>2. /\ DOMAIN Put(reg, item) = ItemKinds
      /\ \A k \in ItemKinds :
           Put(reg, item)[k] = IF k = item.kind THEN MapSet(reg[k], item) ELSE reg[k]
  BY <1>1 DEF Put, Kept
<1>3. Put(reg, item) = [k \in ItemKinds |-> Put(reg, item)[k]]
  BY <1>1 DEF Put, Kept
<1>4. /\ MapOf(item.kind, MapSet(reg[item.kind], item))
      /\ ToSet(MapSet(reg[item.kind], item)) =
           {i \in ToSet(reg[item.kind]) : i.key # item.key} \union {item}
  BY <1>1, MapSetIs DEF Kept
<1>5. Kept(Put(reg, item))
  BY <1>2, <1>3, <1>4 DEF Kept
<1> QED BY <1>2, <1>4, <1>5, HeldIs

\* An empty registry is made of maps.
LEMMA EmptyKept == Kept(Empty)
BY DEF Kept, Empty, MapOf

\* The registry after the first n decorated methods.
LEMMA ScanSteps ==
  \E f : /\ f[0] = Empty
         /\ \A n \in 1 .. Len(Decorated) :
              f[n] = IF Mine(Decorated[n]) THEN Put(f[n - 1], Decorated[n].item) ELSE f[n - 1]
         /\ Scanned = f[Len(Decorated)]
<1>0. Len(Decorated) \in Nat
  BY CatalogAssumption
<1> DEFINE step(f, n) == IF n = 0 THEN Empty
                         ELSE IF Mine(Decorated[n]) THEN Put(f[n - 1], Decorated[n].item)
                         ELSE f[n - 1]
           built(f, m) == f = [n \in 0 .. m |-> step(f, n)]
           T == {m \in Nat : \E f : built(f, m)}
<1>1. 0 \in T
  <2>1. built([n \in 0 .. 0 |-> Empty], 0)
    OBVIOUS
  <2> QED BY <2>1
<1>2. ASSUME NEW m \in 0 .. Len(Decorated) - 1, m \in T PROVE m + 1 \in T
  <2>1. PICK f : built(f, m)
    BY <1>2
  <2> DEFINE g == [n \in 0 .. m + 1 |-> IF n = m + 1 THEN step(f, m + 1) ELSE f[n]]
  <2>2. \A n \in 0 .. m + 1 : g[n] = step(g, n)
    <3>1. \A n \in 0 .. m : f[n] = step(f, n)
      BY <2>1
    <3>2. \A n \in 0 .. m : g[n] = f[n]
      BY <1>0
    <3>3. ASSUME NEW n \in 0 .. m PROVE step(g, n) = step(f, n)
      <4>1. n # 0 => n - 1 \in 0 .. m
        BY <1>0
      <4> QED BY <3>2, <4>1
    <3>4. step(g, m + 1) = step(f, m + 1) /\ g[m + 1] = step(f, m + 1)
      <4>1. m + 1 # 0 /\ (m + 1) - 1 \in 0 .. m
        BY <1>0
      <4> QED BY <3>2, <4>1
    <3>5. \A n \in 0 .. m + 1 : n \in 0 .. m \/ n = m + 1
      BY <1>0
    <3> QED BY <3>1, <3>2, <3>3, <3>4, <3>5
  <2>3. \E f1 : built(f1, m + 1)
    BY <2>2
  <2>4. m + 1 \in Nat
    BY <1>0
  <2> QED BY <2>3, <2>4
<1>3. \A m \in 0 .. Len(Decorated) : m \in T
  <2> HIDE DEF T
  <2> QED BY <1>0, <1>1, <1>2, UpTo
<1>4. \E f : built(f, Len(Decorated))
  BY <1>0, <1>3
<1> DEFINE F == CHOOSE f : built(f, Len(Decorated))
<1>5. built(F, Len(Decorated))
  BY <1>4
<1>6. Scanned = F[Len(Decorated)]
  BY DEF Scanned
<1> HIDE DEF F
<1>7. \A n \in 0 .. Len(Decorated) : F[n] = step(F, n)
  BY <1>5
<1> QED BY <1>0, <1>6, <1>7

\* So is what the scan of the providers registers.
LEMMA ScannedKept == Kept(Scanned)
<1>1. PICK f : /\ f[0] = Empty
               /\ \A n \in 1 .. Len(Decorated) :
                    f[n] = IF Mine(Decorated[n]) THEN Put(f[n - 1], Decorated[n].item)
                           ELSE f[n - 1]
               /\ Scanned = f[Len(Decorated)]
  BY ScanSteps
<1>2. Len(Decorated) \in Nat /\ \A n \in 1 .. Len(Decorated) : Decorated[n].item \in Known
  <2>1. Decorated \in Seq([servers : SUBSET STRING, item : Items])
    BY CatalogAssumption
  <2>2. \A n \in 1 .. Len(Decorated) :
          /\ Decorated[n] \in [servers : SUBSET STRING, item : Items]
          /\ Decorated[n] \in ToSet(Decorated)
    <3> DEFINE D == [servers : SUBSET STRING, item : Items]
    <3>1. Decorated \in Seq(D)
      BY <2>1
    <3> HIDE DEF D
    <3>2. \A n \in 1 .. Len(Decorated) : Decorated[n] \in D
      BY <3>1
    <3>3. \A n \in 1 .. Len(Decorated) : Decorated[n] \in ToSet(Decorated)
      BY <3>1 DEF ToSet
    <3> QED BY <3>2, <3>3 DEF D
  <2>3. \A n \in 1 .. Len(Decorated) :
          Decorated[n].item.kind = "tool" => Decorated[n].item.key = Decorated[n].item.name
    BY <2>2, CatalogAssumption
  <2> QED BY <2>1, <2>2, <2>3 DEF Known
<1> DEFINE T == {n \in Nat : Kept(f[n])}
<1>3. 0 \in T
  BY <1>1, EmptyKept
<1>4. ASSUME NEW n \in 0 .. Len(Decorated) - 1, n \in T PROVE n + 1 \in T
  <2>1. n + 1 \in 1 .. Len(Decorated) /\ (n + 1) - 1 = n /\ n + 1 \in Nat
    BY <1>2
  <2>2. Kept(f[n + 1])
    BY <1>1, <1>2, <1>4, <2>1, PutKeeps
  <2> QED BY <2>1, <2>2
<1>5. Len(Decorated) \in T
  <2> HIDE DEF T
  <2>1. Len(Decorated) \in 0 .. Len(Decorated)
    BY <1>2
  <2> QED BY <1>2, <1>3, <1>4, <2>1, UpTo
<1> QED BY <1>1, <1>5

-----------------------------------------------------------------------------
(* The server and its registry. *)

CatalogShape ==
  /\ options \in Options
  /\ phase \in {"new", "scanned", "exposed", "starting", "up", "closed", "failed"}
  /\ changes \in 0..MaxChanges
  /\ metaTools \subseteq {Index, Schema}
  /\ Kept(registry)
  /\ server = [caps |-> server.caps, handlers |-> server.handlers, ready |-> server.ready,
               items |-> server.items, first |-> server.first]
  /\ drain.state \in {"idle", "open", "done", "cut"}

\* A strategy that may be lazy has its meta-tools, and the server was built with
\* those that are still in the registry.
MetaToolsKept ==
  /\ phase \in {"new", "scanned"} => metaTools = {}
  /\ phase \in {"exposed", "starting", "up"} /\ CanResolveTo(options.exposure, "lazy") =>
       metaTools = {Index, Schema}
  /\ HasServer => \A name \in metaTools :
       MetaTool(name) \in Held(registry, "tool") => <<"tool", name>> \in server.first

\* Each handle is for one item, that a builder registered and the server runs.
HandlesKept ==
  /\ \A h \in handles :
       /\ h.item \in server.items \ server.first
       /\ \E d \in Dynamic : h = [id |-> HandleOf(d.kind, d.key), item |-> SdkKey(d)]
  /\ \A h, g \in handles : h.id = g.id \/ h.item = g.item => h = g

\* What can be listed can be run.
ListedRuns ==
  \A k \in ItemKinds : \A i \in Held(registry, k) :
    SdkKey(i) \in server.items \/ Group(k) \notin server.ready \/ Ambiguous(i)

\* What runs, and was not there from the start, is in the registry under the key
\* of its handle.
RunsAreHeld ==
  \A x \in server.items \ server.first :
    \/ Renamed(x)
    \/ \E h \in handles, k \in ItemKinds : \E i \in Held(registry, k) :
         h.item = x /\ h.id = HandleOf(k, i.key) /\ SdkKey(i) = x

CatalogInv ==
  /\ CatalogShape
  /\ MetaToolsKept
  /\ phase \in {"new", "scanned", "exposed"} => handles = {}
  /\ HasServer => /\ server.first \subseteq server.items
                  /\ HandlesKept /\ ListedRuns /\ RunsAreHeld

\* A map has as many keys as entries.
LEMMA KeysCounted ==
  ASSUME NEW kind, NEW map, MapOf(kind, map)
  PROVE  Cardinality({i.key : i \in ToSet(map)}) = Len(map)
<1> DEFINE S == {i.key : i \in ToSet(map)}
           f == [n \in 1 .. Len(map) |-> map[n].key]
<1>1. Len(map) \in Nat /\ DOMAIN map = 1 .. Len(map)
  BY DEF MapOf
<1>2. \A x \in S : \E n \in 1 .. Len(map) : f[n] = x
  BY <1>1 DEF ToSet
<1>3. \A n \in 1 .. Len(map) : f[n] \in S
  BY <1>1 DEF ToSet
<1>4. \A a, b \in 1 .. Len(map) : f[a] = f[b] => a = b
  BY <1>1 DEF MapOf
<1>5. f \in [1 .. Len(map) -> S]
  BY <1>3
<1> HIDE DEF f, S
<1>6. f \in Surjection(1 .. Len(map), S) /\ f \in Injection(1 .. Len(map), S)
  BY <1>2, <1>4, <1>5 DEF Surjection, Injection, IsInjective
<1>7. IsFiniteSet(1 .. Len(map)) /\ Cardinality(1 .. Len(map)) = Len(map)
  <2>1. PICK n \in Nat : n = Len(map)
    BY <1>1
  <2>2. IsFiniteSet(1 .. n) /\ Cardinality(1 .. n) = IF 1 > n THEN 0 ELSE n - 1 + 1
    BY FS_Interval
  <2> QED BY <2>1, <2>2
<1>8. Cardinality(S) = Len(map)
  BY <1>6, <1>7, FS_Surjection
<1> QED BY <1>8 DEF S

\* The invariant of the catalog gives its types.
LEMMA CatalogTyped == CatalogInv => SCTypeOK
<1> SUFFICES ASSUME CatalogInv PROVE SCTypeOK
  OBVIOUS
<1>1. ASSUME NEW k \in ItemKinds PROVE Cardinality(KeysOf(registry, k)) = Len(registry[k])
  <2>1. MapOf(k, registry[k])
    BY DEF CatalogInv, CatalogShape, Kept
  <2>2. KeysOf(registry, k) = {i.key : i \in ToSet(registry[k])}
    BY HeldIs DEF KeysOf
  <2> QED BY <2>1, <2>2, KeysCounted
<1> QED BY <1>1 DEF CatalogInv, CatalogShape, SCTypeOK

\* And that the SDK follows the registry.
LEMMA CatalogEnough == CatalogInv => SdkFollowsRegistry
<1> SUFFICES ASSUME CatalogInv PROVE SdkFollowsRegistry
  OBVIOUS
<1>1. SCTypeOK
  BY CatalogTyped
<1>2. ASSUME HasServer
      PROVE  \A x \in server.items \ server.first :
               Renamed(x) \/ \E k \in ItemKinds : \E i \in Held(registry, k) : x = SdkKey(i)
  BY <1>2 DEF CatalogInv, RunsAreHeld
<1>3. HasServer => ListedRuns
  BY DEF CatalogInv
<1> QED BY <1>1, <1>2, <1>3 DEF SdkFollowsRegistry, ListedRuns

\* It holds at the start.
LEMMA CatalogInit == SCInit => CatalogInv
<1> SUFFICES ASSUME SCInit PROVE CatalogInv
  OBVIOUS
<1>1. Kept(registry)
  BY EmptyKept DEF SCInit
<1>2. CatalogShape
  BY <1>1, CatalogAssumption DEF SCInit, CatalogShape, NoDrain, NoServer
<1>3. ~HasServer /\ MetaToolsKept
  BY DEF SCInit, HasServer, MetaToolsKept
<1> QED BY <1>2, <1>3 DEF SCInit, CatalogInv

\* Every item a tool of the registry is known by its name.
LEMMA HeldKnown ==
  ASSUME NEW reg, Kept(reg), NEW k \in ItemKinds, NEW i \in Held(reg, k)
  PROVE  /\ i \in Known /\ i.kind = k
         /\ \A j \in Held(reg, k) : j.key = i.key => j = i
<1>1. MapOf(k, reg[k]) /\ i \in ToSet(reg[k])
  BY HeldIs DEF Kept
<1> QED BY <1>1, HeldIs DEF MapOf, ToSet

\* What a running server registers is an item it knows.
LEMMA DynamicKnown == Dynamic \subseteq Known
BY CatalogAssumption DEF Known

\* So are the meta-tools of an exposure strategy.
LEMMA MetaToolKnown ==
  ASSUME NEW name \in {Index, Schema}
  PROVE  /\ MetaTool(name) \in Known
         /\ MetaTool(name).kind = "tool" /\ MetaTool(name).key = name
BY CatalogAssumption DEF MetaTool, Known, Items, ItemKinds

\* Watching a drain leaves it in the state it is in.
LEMMA WatchedState == \A reg, meta : Watched(reg, meta).state = drain.state
<1>1. CASE drain.state # "open"
  BY <1>1 DEF Watched
<1>2. CASE drain.state = "open"
  BY <1>2 DEF Watched
<1> QED BY <1>1, <1>2

\* The start-up, up to the McpServer.
LEMMA InstantiateKeeps == CatalogInv /\ Instantiate => CatalogInv'
<1> SUFFICES ASSUME CatalogInv, Instantiate PROVE CatalogInv'
  OBVIOUS
<1>1. Kept(registry') /\ phase' \in {"scanned", "failed"}
  BY ScannedKept DEF CatalogInv, CatalogShape, Instantiate
<1>2. phase = "new" /\ UNCHANGED <<options, metaTools, server, handles, changes, drain>>
  BY DEF Instantiate
<1>3. CatalogShape'
  BY <1>1, <1>2 DEF CatalogInv, CatalogShape
<1>4. ~HasServer' /\ MetaToolsKept'
  BY <1>1, <1>2 DEF CatalogInv, MetaToolsKept, HasServer
<1> QED BY <1>1, <1>2, <1>3, <1>4 DEF CatalogInv

\* Exposing the meta-tools keeps the invariant.
LEMMA ExposeKeeps == CatalogInv /\ Expose => CatalogInv'
<1> SUFFICES ASSUME CatalogInv, Expose PROVE CatalogInv'
  OBVIOUS
<1> DEFINE lazy == CanResolveTo(options.exposure, "lazy")
           own == registry["tool"]
           first == MapSet(own, MetaTool(Index))
           tools == IF lazy THEN MapSet(first, MetaTool(Schema)) ELSE own
<1>0. "tool" \in ItemKinds
  BY DEF ItemKinds
<1>1. /\ phase = "scanned" /\ UNCHANGED <<options, server, handles, changes, drain>>
      /\ \/ phase' = "failed" /\ UNCHANGED <<registry, metaTools>>
         \/ /\ registry' = [registry EXCEPT !["tool"] = tools]
            /\ metaTools' = IF lazy THEN {Index, Schema} ELSE {}
            /\ phase' \in {"failed", "exposed"}
  BY DEF Expose
<1>2. Kept(registry) /\ MapOf("tool", own)
  BY <1>0 DEF CatalogInv, CatalogShape, Kept
<1>3. MapOf("tool", first) /\ MetaTool(Index) \in ToSet(first)
  BY <1>2, MapSetIs, MetaToolKnown
<1>4. /\ MapOf("tool", MapSet(first, MetaTool(Schema)))
      /\ ToSet(MapSet(first, MetaTool(Schema))) =
           {i \in ToSet(first) : i.key # Schema} \union {MetaTool(Schema)}
  BY <1>3, MapSetIs, MetaToolKnown
<1>5. MapOf("tool", tools)
  BY <1>2, <1>4
<1> HIDE DEF lazy, own, first, tools
<1>7. CASE phase' = "failed" /\ UNCHANGED <<registry, metaTools>>
  <2>1. CatalogShape'
    BY <1>1, <1>7 DEF CatalogInv, CatalogShape
  <2>2. ~HasServer' /\ MetaToolsKept'
    BY <1>7 DEF HasServer, MetaToolsKept
  <2> QED BY <1>7, <2>1, <2>2 DEF CatalogInv
<1>8. CASE /\ registry' = [registry EXCEPT !["tool"] = tools]
           /\ metaTools' = IF lazy THEN {Index, Schema} ELSE {}
           /\ phase' \in {"failed", "exposed"}
  <2>1. Kept(registry') /\ registry'["tool"] = tools
    BY <1>0, <1>2, <1>5, <1>8 DEF Kept
  <2>2. CatalogShape'
    BY <1>1, <1>8, <2>1 DEF CatalogInv, CatalogShape
  <2>4. ~HasServer' /\ MetaToolsKept'
    BY <1>1, <1>8 DEF HasServer, MetaToolsKept, lazy
  <2>5. handles' = {}
    BY <1>1 DEF CatalogInv
  <2> QED BY <2>2, <2>4, <2>5 DEF CatalogInv
<1> QED BY <1>1, <1>7, <1>8

\* Starting, which registers everything with the SDK, keeps it.
LEMMA StartKeeps == CatalogInv /\ Start => CatalogInv'
<1> SUFFICES ASSUME CatalogInv, Start PROVE CatalogInv'
  OBVIOUS
<1> DEFINE items == UNION {{SdkKey(i) : i \in Held(registry, k)} : k \in ItemKinds}
<1>1. /\ phase = "exposed" /\ UNCHANGED <<options, registry, metaTools, handles, changes, drain>>
      /\ \/ phase' = "failed" /\ UNCHANGED server
         \/ /\ phase' = "starting"
            /\ server' = [caps |-> Capabilities, handlers |-> Handlers,
                          ready |-> Present, items |-> items, first |-> items]
  BY DEF Start
<1>2. CatalogShape' /\ handles' = {}
  <2> HIDE DEF items
  <2> QED BY <1>1 DEF CatalogInv, CatalogShape
<1>3. CASE phase' = "failed" /\ UNCHANGED server
  <2>1. ~HasServer' /\ MetaToolsKept'
    BY <1>3 DEF HasServer, MetaToolsKept
  <2> QED BY <1>2, <1>3, <2>1 DEF CatalogInv
<1>4. CASE /\ phase' = "starting"
           /\ server' = [caps |-> Capabilities, handlers |-> Handlers,
                         ready |-> Present, items |-> items, first |-> items]
  <2>1. server'.items = items /\ server'.first = items /\ server'.ready = Present
    BY <1>4
  <2>2. \A k \in ItemKinds : \A i \in Held(registry, k) : SdkKey(i) \in items
    OBVIOUS
  <2> HIDE DEF items
  <2>3. HandlesKept' /\ RunsAreHeld' /\ server'.first \subseteq server'.items
    BY <1>2, <2>1 DEF HandlesKept, RunsAreHeld
  <2>4. ListedRuns'
    BY <1>1, <2>1, <2>2 DEF ListedRuns, Held
  <2>5. ASSUME NEW name \in metaTools, MetaTool(name) \in Held(registry, "tool")
        PROVE  <<"tool", name>> \in items
    <3>1. SdkKey(MetaTool(name)) = <<"tool", name>> /\ "tool" \in ItemKinds
      BY DEF MetaTool, SdkKey, ItemKinds
    <3> QED BY <2>2, <2>5, <3>1
  <2>6. MetaToolsKept'
    <3>1. Held(registry, "tool")' = Held(registry, "tool")
      BY <1>1 DEF Held
    <3> QED BY <1>1, <1>4, <2>1, <2>5, <3>1 DEF CatalogInv, MetaToolsKept, HasServer
  <2> QED BY <1>2, <1>4, <2>3, <2>4, <2>6 DEF CatalogInv
<1> QED BY <1>1, <1>3, <1>4

\* The registry and the server as they were.
LEMMA CatalogStays ==
  ASSUME CatalogInv, UNCHANGED <<options, registry, metaTools, server, handles, changes>>,
         drain'.state \in {"idle", "open", "done", "cut"},
         \/ UNCHANGED phase
         \/ phase = "starting" /\ phase' = "up"
         \/ phase' = "closed"
  PROVE  CatalogInv'
<1>1. CatalogShape'
  BY DEF CatalogInv, CatalogShape
<1>2. Held(registry, "tool")' = Held(registry, "tool")
  BY DEF Held
<1>3. HasServer' => HasServer
  BY DEF HasServer
<1>4. MetaToolsKept'
  BY <1>2, <1>3 DEF CatalogInv, MetaToolsKept
<1>5. HasServer' => /\ server'.first \subseteq server'.items
                    /\ HandlesKept' /\ ListedRuns' /\ RunsAreHeld'
  BY <1>3 DEF CatalogInv, HandlesKept, ListedRuns, RunsAreHeld, Held
<1>6. phase' \in {"new", "scanned", "exposed"} => handles' = {}
  BY DEF CatalogInv
<1> QED BY <1>1, <1>4, <1>5, <1>6 DEF CatalogInv

\* An item is registered: no key is lost, and one it replaces has its key.
LEMMA RegisterKeeps ==
  ASSUME CatalogInv, NEW item \in Dynamic, Register(item)
  PROVE  CatalogInv'
<1> DEFINE id == HandleOf(item.kind, item.key)
           new == SdkKey(item)
<1>1. /\ phase \in {"scanned", "exposed", "starting", "up"}
      /\ changes < MaxChanges /\ changes' = changes + 1
      /\ registry' = Put(registry, item)
      /\ UNCHANGED <<options, phase, metaTools>>
      /\ drain'.state = drain.state
  BY WatchedState DEF Register
<1>2. \/ /\ HasServer /\ SdkAccepts(item)
         /\ server' = [server EXCEPT !.items = @ \union {new}]
         /\ handles' = {h \in handles : h.id # id} \union {[id |-> id, item |-> new]}
      \/ ~(HasServer /\ SdkAccepts(item)) /\ UNCHANGED <<server, handles>>
  BY DEF Register
<1>3. item \in Known /\ item.kind \in ItemKinds
  BY DynamicKnown DEF Known, Items
<1>4. /\ Kept(registry')
      /\ \A k \in ItemKinds : Held(registry', k) =
           IF k = item.kind THEN {i \in Held(registry, k) : i.key # item.key} \union {item}
           ELSE Held(registry, k)
  BY <1>1, <1>3, PutKeeps DEF CatalogInv, CatalogShape
<1>5. /\ server' = [caps |-> server'.caps, handlers |-> server'.handlers,
                    ready |-> server'.ready, items |-> server'.items, first |-> server'.first]
      /\ server'.first = server.first /\ server'.ready = server.ready
      /\ server.items \subseteq server'.items
      /\ HasServer /\ SdkAccepts(item) => server'.items = server.items \union {new}
  BY <1>2 DEF CatalogInv, CatalogShape
<1>6. CatalogShape'
  <2>1. changes' \in 0 .. MaxChanges
    BY <1>1, CatalogAssumption DEF CatalogInv, CatalogShape
  <2> QED BY <1>1, <1>4, <1>5, <2>1 DEF CatalogInv, CatalogShape
<1>7. ASSUME NEW name \in metaTools, MetaTool(name) \in Held(registry', "tool")
      PROVE  MetaTool(name) \in Held(registry, "tool")
  <2>1. MetaTool(name) # item
    BY CatalogAssumption DEF CatalogInv, CatalogShape
  <2> QED BY <1>4, <1>7, <2>1 DEF ItemKinds
<1>8. HasServer' <=> HasServer
  BY <1>1 DEF HasServer
<1>9. MetaToolsKept'
  <2>1. Held(registry, "tool")' = Held(registry', "tool")
    BY DEF Held
  <2> QED BY <1>1, <1>5, <1>7, <1>8, <2>1 DEF CatalogInv, MetaToolsKept
<1>10. phase' \in {"new", "scanned", "exposed"} => handles' = {}
  BY <1>1, <1>2 DEF CatalogInv, HasServer
<1>11. ASSUME HasServer
       PROVE  /\ server'.first \subseteq server'.items
              /\ HandlesKept' /\ ListedRuns' /\ RunsAreHeld'
  <2>1. server.first \subseteq server.items /\ HandlesKept /\ ListedRuns /\ RunsAreHeld
    BY <1>11 DEF CatalogInv
  <2>2. HandlesKept'
    <3>1. CASE SdkAccepts(item)
      <4>1. /\ new \notin server.items
            /\ server'.items = server.items \union {new}
            /\ handles' = {h \in handles : h.id # id} \union {[id |-> id, item |-> new]}
        BY <1>2, <1>5, <1>11, <3>1 DEF SdkAccepts
      <4>2. \A h \in handles' : (h \in handles /\ h.id # id) \/ h = [id |-> id, item |-> new]
        BY <4>1
      <4>3. \A h \in handles : h.item \in server.items
        BY <2>1 DEF HandlesKept
      <4>4. \A h \in handles' : h.item \in server'.items \ server'.first
        BY <1>5, <2>1, <4>1, <4>2 DEF HandlesKept
      <4>5. \A h \in handles' :
              \E d \in Dynamic : h = [id |-> HandleOf(d.kind, d.key), item |-> SdkKey(d)]
        BY <2>1, <4>2 DEF HandlesKept
      <4>6. \A h, g \in handles' : h.id = g.id \/ h.item = g.item => h = g
        BY <2>1, <4>1, <4>2, <4>3 DEF HandlesKept
      <4> QED BY <4>4, <4>5, <4>6 DEF HandlesKept
    <3>2. CASE ~SdkAccepts(item)
      BY <1>2, <2>1, <3>2 DEF HandlesKept
    <3> QED BY <3>1, <3>2
  <2>3. ListedRuns'
    <3> SUFFICES ASSUME NEW k \in ItemKinds, NEW i \in Held(registry', k)
                 PROVE  SdkKey(i) \in server'.items \/ Group(k) \notin server'.ready \/ Ambiguous(i)
      BY DEF ListedRuns, Held
    <3>1. CASE i \in Held(registry, k)
      BY <1>5, <2>1, <3>1 DEF ListedRuns
    <3>2. CASE i \notin Held(registry, k)
      <4>1. i = item /\ k = item.kind
        BY <1>4, <3>2
      <4>2. new \in server'.items \/ Group(item.kind) \notin server.ready
        BY <1>5, <1>11 DEF SdkAccepts
      <4> QED BY <1>5, <4>1, <4>2
    <3> QED BY <3>1, <3>2
  <2>4. RunsAreHeld'
    <3> SUFFICES ASSUME NEW x \in server'.items \ server'.first, ~Renamed(x)
                 PROVE  \E h \in handles', k \in ItemKinds : \E i \in Held(registry', k) :
                          h.item = x /\ h.id = HandleOf(k, i.key) /\ SdkKey(i) = x
      BY DEF RunsAreHeld, Held
    <3>1. item \in Held(registry', item.kind)
      BY <1>3, <1>4
    <3>2. CASE x \notin server.items
      <4>1. HasServer /\ SdkAccepts(item) /\ x = new
        BY <1>2, <1>5, <1>11, <3>2
      <4>2. [id |-> id, item |-> new] \in handles'
        BY <1>2, <4>1
      <4> QED BY <1>3, <3>1, <4>1, <4>2
    <3>3. CASE x \in server.items
      <4>1. PICK h \in handles, k \in ItemKinds : \E i \in Held(registry, k) :
              h.item = x /\ h.id = HandleOf(k, i.key) /\ SdkKey(i) = x
        BY <1>5, <2>1, <3>3 DEF RunsAreHeld
      <4>2. PICK i \in Held(registry, k) :
              h.item = x /\ h.id = HandleOf(k, i.key) /\ SdkKey(i) = x
        BY <4>1
      <4>3. CASE h.id = id
        <5>1. k = item.kind /\ i.key = item.key
          BY <4>2, <4>3 DEF HandleOf
        <5>2. PICK d \in Dynamic : h = [id |-> HandleOf(d.kind, d.key), item |-> SdkKey(d)]
          BY <2>1 DEF HandlesKept
        <5>3. d.kind = item.kind /\ d.key = item.key /\ SdkKey(d) = x
          BY <4>2, <4>3, <5>2 DEF HandleOf
        <5>4. new = x
          BY <5>3 DEF Renamed
        <5>5. ~SdkAccepts(item)
          BY <3>3, <5>4 DEF SdkAccepts
        <5>6. h \in handles'
          BY <1>2, <5>5
        <5> QED BY <1>3, <3>1, <4>2, <4>3, <5>4, <5>6
      <4>4. CASE h.id # id
        <5>1. h \in handles'
          BY <1>2, <4>4
        <5>2. k # item.kind \/ i.key # item.key
          BY <4>2, <4>4
        <5>3. i \in Held(registry', k)
          BY <1>4, <5>2
        <5> QED BY <4>2, <5>1, <5>3
      <4> QED BY <4>3, <4>4
    <3> QED BY <3>2, <3>3
  <2>5. server'.first \subseteq server'.items
    BY <1>5, <2>1
  <2> QED BY <2>2, <2>3, <2>4, <2>5
<1> QED BY <1>6, <1>8, <1>9, <1>10, <1>11 DEF CatalogInv

\* An item is unregistered: with it goes what it had a handle for.
LEMMA UnregisterKeeps ==
  ASSUME CatalogInv, NEW kind \in ItemKinds, NEW gone \in KeysOf(registry, kind),
         Unregister(kind, gone)
  PROVE  CatalogInv'
<1> DEFINE id == HandleOf(kind, gone)
           mine == {h \in handles : HasServer /\ h.id = id}
<1>1. /\ phase \in {"scanned", "exposed", "starting", "up"}
      /\ changes < MaxChanges /\ changes' = changes + 1
      /\ registry' = [registry EXCEPT
           ![kind] = Without(registry[kind], {i \in ToSet(registry[kind]) : i.key = gone})]
      /\ UNCHANGED <<options, phase, metaTools>>
      /\ drain'.state = drain.state
  BY WatchedState DEF Unregister
<1>2. /\ server' = [server EXCEPT !.items = @ \ {h.item : h \in mine}]
      /\ handles' = handles \ mine
  BY DEF Unregister
<1>3. /\ Kept(registry')
      /\ \A k \in ItemKinds : Held(registry', k) =
           IF k = kind THEN {i \in Held(registry, k) : i.key # gone} ELSE Held(registry, k)
  <2>1. Kept(registry)
    BY DEF CatalogInv, CatalogShape
  <2> DEFINE left == Without(registry[kind], {i \in ToSet(registry[kind]) : i.key = gone})
  <2>2. /\ MapOf(kind, left)
        /\ ToSet(left) = ToSet(registry[kind]) \ {i \in ToSet(registry[kind]) : i.key = gone}
    BY <2>1, LeftIs DEF Kept
  <2>3. ToSet(left) = {i \in ToSet(registry[kind]) : i.key # gone}
    BY <2>2
  <2>4. \A k \in ItemKinds : registry'[k] = IF k = kind THEN left ELSE registry[k]
    BY <1>1, <2>1 DEF Kept
  <2>5. DOMAIN registry' = ItemKinds /\ registry' = [k \in ItemKinds |-> registry'[k]]
    BY <1>1, <2>1 DEF Kept
  <2> HIDE DEF left
  <2>6. Kept(registry')
    BY <2>1, <2>2, <2>4, <2>5 DEF Kept
  <2> QED BY <2>3, <2>4, <2>6, HeldIs
<1>4. /\ server' = [caps |-> server'.caps, handlers |-> server'.handlers,
                    ready |-> server'.ready, items |-> server'.items, first |-> server'.first]
      /\ server'.first = server.first /\ server'.ready = server.ready
      /\ server'.items = server.items \ {h.item : h \in mine}
  <2> HIDE DEF mine
  <2> QED BY <1>2 DEF CatalogInv, CatalogShape
<1>5. CatalogShape'
  <2>1. changes' \in 0 .. MaxChanges
    BY <1>1, CatalogAssumption DEF CatalogInv, CatalogShape
  <2> QED BY <1>1, <1>3, <1>4, <2>1 DEF CatalogInv, CatalogShape
<1>6. Held(registry, "tool")' \subseteq Held(registry, "tool")
  <2>1. Held(registry, "tool")' = Held(registry', "tool")
    BY DEF Held
  <2> QED BY <1>3, <2>1 DEF ItemKinds
<1>7. HasServer' <=> HasServer
  BY <1>1 DEF HasServer
<1>8. MetaToolsKept'
  BY <1>1, <1>4, <1>6, <1>7 DEF CatalogInv, MetaToolsKept
<1>9. phase' \in {"new", "scanned", "exposed"} => handles' = {}
  BY <1>1, <1>2 DEF CatalogInv
<1>10. ASSUME HasServer
       PROVE  /\ server'.first \subseteq server'.items
              /\ HandlesKept' /\ ListedRuns' /\ RunsAreHeld'
  <2>1. server.first \subseteq server.items /\ HandlesKept /\ ListedRuns /\ RunsAreHeld
    BY <1>10 DEF CatalogInv
  <2>2. \A h \in mine : h \in handles /\ h.id = id
    OBVIOUS
  <2>3. \A h \in handles : h \in mine \/ h.id # id
    BY <1>10
  <2> HIDE DEF mine
  <2>4. \A h \in handles' : h.item \in server'.items \ server'.first
    BY <1>2, <1>4, <2>1, <2>2 DEF HandlesKept
  <2>5. HandlesKept'
    BY <1>2, <2>1, <2>4 DEF HandlesKept
  <2>6. server'.first \subseteq server'.items
    BY <1>4, <2>1, <2>2 DEF HandlesKept
  <2>7. ListedRuns'
    <3> SUFFICES ASSUME NEW k \in ItemKinds, NEW i \in Held(registry', k)
                 PROVE  SdkKey(i) \in server'.items \/ Group(k) \notin server'.ready \/ Ambiguous(i)
      BY DEF ListedRuns, Held
    <3>1. i \in Held(registry, k) /\ (k = kind => i.key # gone)
      BY <1>3
    <3>2. SdkKey(i) \in server.items \/ Group(k) \notin server.ready \/ Ambiguous(i)
      BY <2>1, <3>1 DEF ListedRuns
    <3>3. CASE SdkKey(i) \in server.items /\ SdkKey(i) \notin server'.items
      <4>1. PICK h \in mine : h.item = SdkKey(i)
        BY <1>4, <3>3
      <4>2. PICK d \in Dynamic : h = [id |-> HandleOf(d.kind, d.key), item |-> SdkKey(d)]
        BY <2>1, <2>2, <4>1 DEF HandlesKept
      <4>3. d.kind = kind /\ d.key = gone /\ SdkKey(d) = SdkKey(i)
        BY <2>2, <4>1, <4>2 DEF HandleOf
      <4>4. i.kind = k
        BY <3>1, HeldKnown DEF CatalogInv, CatalogShape
      <4>5. d.kind = i.kind
        BY <4>3 DEF SdkKey
      <4> QED BY <3>1, <4>3, <4>4, <4>5 DEF Ambiguous
    <3> QED BY <1>4, <3>2, <3>3
  <2>8. RunsAreHeld'
    <3> SUFFICES ASSUME NEW x \in server'.items \ server'.first, ~Renamed(x)
                 PROVE  \E h \in handles', k \in ItemKinds : \E i \in Held(registry', k) :
                          h.item = x /\ h.id = HandleOf(k, i.key) /\ SdkKey(i) = x
      BY DEF RunsAreHeld, Held
    <3>1. PICK h \in handles, k \in ItemKinds : \E i \in Held(registry, k) :
            h.item = x /\ h.id = HandleOf(k, i.key) /\ SdkKey(i) = x
      BY <1>4, <2>1 DEF RunsAreHeld
    <3>2. PICK i \in Held(registry, k) :
            h.item = x /\ h.id = HandleOf(k, i.key) /\ SdkKey(i) = x
      BY <3>1
    <3>3. h \notin mine
      BY <1>4, <3>2
    <3>4. k # kind \/ i.key # gone
      BY <2>3, <3>2, <3>3
    <3>5. h \in handles' /\ i \in Held(registry', k)
      BY <1>2, <1>3, <3>3, <3>4
    <3> QED BY <3>2, <3>5
  <2> QED BY <2>5, <2>6, <2>7, <2>8
<1> QED BY <1>5, <1>7, <1>8, <1>9, <1>10 DEF CatalogInv

\* Every step of the server keeps it.
LEMMA CatalogNext == CatalogInv /\ [SCNext]_scVars => CatalogInv'
<1> SUFFICES ASSUME CatalogInv, [SCNext]_scVars PROVE CatalogInv'
  OBVIOUS
<1>1. CASE Connected
  BY <1>1, CatalogStays DEF Connected, CatalogInv, CatalogShape
<1>2. CASE Destroy
  BY <1>2, CatalogStays DEF Destroy, CatalogInv, CatalogShape
<1>3. ASSUME NEW item \in Dynamic, Register(item) PROVE CatalogInv'
  BY <1>3, RegisterKeeps
<1>4. ASSUME NEW kind \in ItemKinds, NEW gone \in KeysOf(registry, kind), Unregister(kind, gone)
      PROVE  CatalogInv'
  BY <1>4, UnregisterKeeps
<1>5. ASSUME NEW source \in Sources, NEW caller \in Callers, Open(source, caller)
      PROVE  CatalogInv'
  <2>1. drain'.state = "open"
    BY <1>5 DEF Open
  <2> QED BY <1>5, <2>1, CatalogStays DEF Open
<1>6. CASE NextPage
  <2>1. drain'.state \in {"idle", "open", "done", "cut"}
    BY <1>6 DEF NextPage, CatalogInv, CatalogShape
  <2> QED BY <1>6, <2>1, CatalogStays DEF NextPage
<1>7. CASE UNCHANGED scVars
  BY <1>7, CatalogStays DEF scVars, CatalogInv, CatalogShape
<1> QED
  BY <1>1, <1>2, <1>3, <1>4, <1>5, <1>6, <1>7, InstantiateKeeps, ExposeKeeps, StartKeeps
  DEF SCNext

\* Listings and the server agree: what is listed can be run, and what was taken out of
\* the registry cannot (subscribeToRegistryEvents of StdioService).
THEOREM SdkFollows == SCSpec => []SdkFollowsRegistry
<1> QED BY CatalogInit, CatalogNext, CatalogEnough, PTL DEF SCSpec

\* The keys of a list are those of its items.
LEMMA ListedKeysAre == \A items : ListedKeys(items) = {i.key : i \in ToSet(items)}
BY DEF ListedKeys, ToSet

\* The tools a caller is listed.
LEMMA ToolsListed ==
  ASSUME CatalogInv, NEW caller \in Callers
  PROVE  LET strategy == ResolveForClient(options.exposure, caller)
             listed == ToSet(ListedTools(registry, metaTools, caller))
         IN  \A t \in Held(registry, "tool") :
               /\ HasRequiredScopes(t, caller.scopes)
               /\ IF strategy.kind = "lazy"
                  THEN t.name \in metaTools \/ IsEager(t, strategy.eager)
                  ELSE t.name \notin metaTools
               => t \in listed
<1> DEFINE strategy == ResolveForClient(options.exposure, caller)
           all == registry["tool"]
           given == ApplyStrategy(strategy, all, metaTools)
           listed == Filtered(given, options.filter, caller.scopes)
<1>1. MapOf("tool", all) /\ Held(registry, "tool") = ToSet(all)
  BY HeldIs DEF CatalogInv, CatalogShape, Kept, ItemKinds
<1>2. ListedTools(registry, metaTools, caller) = listed
  BY DEF ListedTools
<1> HIDE DEF strategy, all
<1>3. /\ MapOf("tool", given)
      /\ ToSet(given) =
           {t \in ToSet(all) :
              IF strategy.kind = "lazy"
              THEN t.name \in metaTools \/ IsEager(t, strategy.eager)
              ELSE t.name \notin metaTools}
  <2>1. CASE strategy.kind = "lazy"
    <3> DEFINE kept == {t \in ToSet(all) : t.name \in metaTools \/ IsEager(t, strategy.eager)}
    <3>1. given = Keeping(all, kept)
      BY <2>1 DEF ApplyStrategy, ApplyLazy
    <3>2. kept \subseteq ToSet(all)
      OBVIOUS
    <3> HIDE DEF kept
    <3>3. MapOf("tool", given) /\ ToSet(given) = ToSet(all) \intersect kept
      BY <1>1, <3>1, KeepingIs
    <3> QED BY <2>1, <3>2, <3>3 DEF kept
  <2>2. CASE strategy.kind # "lazy"
    <3> DEFINE gone == {t \in ToSet(all) : t.name \in metaTools}
    <3>1. given = Without(all, gone)
      BY <2>2 DEF ApplyStrategy, WithoutMetaTools
    <3> HIDE DEF gone
    <3>2. MapOf("tool", given) /\ ToSet(given) = ToSet(all) \ gone
      BY <1>1, <3>1, LeftIs
    <3> QED BY <2>2, <3>2 DEF gone
  <2> QED BY <2>1, <2>2
<1> HIDE DEF given
<1>4. \A t \in ToSet(given) : HasRequiredScopes(t, caller.scopes) => t \in ToSet(listed)
  <2>1. CASE options.filter
    <3> DEFINE kept == {t \in ToSet(given) : HasRequiredScopes(t, caller.scopes)}
    <3>1. listed = Keeping(given, kept)
      BY <2>1 DEF Filtered
    <3> HIDE DEF kept
    <3>2. ToSet(listed) = ToSet(given) \intersect kept
      BY <1>3, <3>1, KeepingIs
    <3> QED BY <3>2 DEF kept
  <2>2. CASE ~options.filter
    BY <2>2 DEF Filtered
  <2> QED BY <2>1, <2>2
<1> HIDE DEF listed
<1> QED BY <1>1, <1>2, <1>3, <1>4 DEF strategy

\* The second meta-tool knows every tool the first one names.
LEMMA SchemaGiven ==
  ASSUME NEW asked, asked \in ListedKeys(IndexOf(registry["tool"], metaTools, {})),
         CatalogInv
  PROVE  GetToolSchema(registry["tool"], metaTools, <<asked>>, MaxBatchSize).schemas # {}
<1> DEFINE tools == IndexOf(registry["tool"], metaTools, {})
           pool == {t.name : t \in ToSet(tools)}
           names == <<asked>>
           least == Min({MaxBatchSize, Len(names)})
<1>1. MapOf("tool", tools)
  BY KeepingIs DEF IndexOf, CatalogInv, CatalogShape, Kept, ItemKinds
<1>2. PICK t \in ToSet(tools) : t.key = asked
  BY ListedKeysAre
<1>3. t.name = asked
  BY <1>1, <1>2 DEF MapOf, ToSet, Known
<1>4. least = 1
  <2>1. Len(names) = 1
    OBVIOUS
  <2>2. MaxBatchSize \in Nat \ {0}
    BY CatalogAssumption
  <2>3. 1 \in {MaxBatchSize, 1} /\ \A n \in {MaxBatchSize, 1} : 1 <= n
    BY <2>2
  <2>4. \A n \in {MaxBatchSize, 1} : (\A m \in {MaxBatchSize, 1} : n <= m) => n = 1
    BY <2>2
  <2> QED BY <2>1, <2>3, <2>4 DEF Min
<1>5. ToSet(SubSeq(names, 1, least)) = {asked}
  <2>1. PICK s : s = SubSeq(names, 1, 1)
    OBVIOUS
  <2>2. names \in Seq({asked}) /\ Len(names) = 1 /\ names[1] = asked
    OBVIOUS
  <2>3. DOMAIN s = 1 .. 1 /\ s[1] = asked
    BY <2>1, <2>2, SubSeqProperties
  <2>4. ToSet(s) = {asked}
    BY <2>3 DEF ToSet
  <2> QED BY <1>4, <2>1, <2>4
<1>6. GetToolSchema(registry["tool"], metaTools, names, MaxBatchSize).schemas
        = ToSet(SubSeq(names, 1, least)) \intersect pool
  BY DEF GetToolSchema
<1> QED BY <1>2, <1>3, <1>5, <1>6

\* The invariant puts every visible tool in reach.
LEMMA ReachEnough == CatalogInv => ToolsInReach
<1> SUFFICES ASSUME CatalogInv, phase = "up",
                    MetaToolsInPlace, NEW caller \in Callers, NEW t \in Held(registry, "tool"),
                    HasRequiredScopes(t, caller.scopes), t.key \notin {Index, Schema},
                    t.key \notin ListedKeys(Listed(registry, metaTools, "tool", caller))
             PROVE  LET listed == ListedKeys(Listed(registry, metaTools, "tool", caller)) IN
                      /\ {Index, Schema} \subseteq listed
                      /\ {<<"tool", Index>>, <<"tool", Schema>>} \subseteq server.items
                      /\ t.key \in ListedKeys(IndexOf(registry["tool"], metaTools, {}))
                      /\ GetToolSchema(registry["tool"], metaTools, <<t.key>>, MaxBatchSize).schemas # {}
  BY DEF ToolsInReach
<1> DEFINE strategy == ResolveForClient(options.exposure, caller)
           tools == ListedTools(registry, metaTools, caller)
<1>1. Listed(registry, metaTools, "tool", caller) = tools
  BY DEF Listed
<1>2. t \in Known /\ t.kind = "tool" /\ t.name = t.key
  BY HeldKnown DEF CatalogInv, CatalogShape, Known, ItemKinds
<1>3. t.name \notin metaTools
  BY <1>2 DEF CatalogInv, CatalogShape
<1>4. t \notin ToSet(tools)
  BY <1>1, ListedKeysAre
<1>5. strategy.kind = "lazy"
  BY <1>3, <1>4, ToolsListed
<1>6. CanResolveTo(options.exposure, "lazy")
  <2>1. options \in Options /\ caller.beta \in BOOLEAN
    BY CatalogAssumption DEF CatalogInv, CatalogShape
  <2>2. options.exposure.of[caller.beta].kind = "lazy"
    BY <1>5 DEF ResolveForClient
  <2>3. /\ options.exposure.declares => "lazy" \in options.exposure.kinds
        /\ ~options.exposure.resolver => options.exposure.of[FALSE].kind = "lazy"
    BY <2>1, <2>2, CatalogAssumption
  <2> QED BY <2>3 DEF CanResolveTo
<1>7. metaTools = {Index, Schema} /\ HasServer
  BY <1>6 DEF CatalogInv, MetaToolsKept, HasServer
<1>8. ASSUME NEW name \in {Index, Schema}
      PROVE  /\ name \in ListedKeys(Listed(registry, metaTools, "tool", caller))
             /\ <<"tool", name>> \in server.items
  <2>1. MetaTool(name) \in Held(registry, "tool") /\ HasRequiredScopes(MetaTool(name), caller.scopes)
    BY <1>7 DEF MetaTool, HasRequiredScopes, MetaToolsInPlace
  <2>2. MetaTool(name).name = name /\ MetaTool(name).key = name
    BY DEF MetaTool
  <2>3. MetaTool(name) \in ToSet(tools)
    BY <1>5, <1>7, <2>1, <2>2, ToolsListed
  <2>4. name \in ListedKeys(Listed(registry, metaTools, "tool", caller))
    BY <1>1, <2>2, <2>3, ListedKeysAre
  <2>5. <<"tool", name>> \in server.items
    BY <1>7, <2>1 DEF CatalogInv, MetaToolsKept
  <2> QED BY <2>4, <2>5
<1>9. t.key \in ListedKeys(IndexOf(registry["tool"], metaTools, {}))
  <2> DEFINE all == registry["tool"]
             kept == {u \in ToSet(all) : u.name \notin metaTools /\ {} \subseteq u.tags}
  <2>1. MapOf("tool", all) /\ t \in ToSet(all)
    BY HeldIs DEF CatalogInv, CatalogShape, Kept, ItemKinds
  <2>2. IndexOf(all, metaTools, {}) = Keeping(all, kept)
    BY DEF IndexOf
  <2>3. t \in kept
    BY <1>3, <2>1
  <2> HIDE DEF kept, all
  <2>4. t \in ToSet(Keeping(all, kept))
    BY <2>1, <2>3, KeepingIs
  <2> QED BY <2>2, <2>4, ListedKeysAre DEF all
<1> QED BY <1>8, <1>9, SchemaGiven

\* Whatever strategy a client is given, each tool it may use is listed, or its
\* meta-tools are, run, and lead to it, until a builder replaces or removes one
\* of these (ExposureService).
THEOREM ToolsStayInReach == SCSpec => []ToolsInReach
<1> QED BY CatalogInit, CatalogNext, ReachEnough, PTL DEF SCSpec

\* Taking out leaves a sequence over the same set.
LEMMA WithoutTyped ==
  ASSUME NEW S, NEW s \in Seq(S), NEW gone
  PROVE  Without(s, gone) \in Seq(S)
<1>1. PICK f : /\ f[0] = <<>>
               /\ \A n \in 1 .. Len(s) :
                    f[n] = IF s[n] \in gone THEN f[n - 1] ELSE Append(f[n - 1], s[n])
               /\ Without(s, gone) = f[Len(s)]
  BY WithoutSteps
<1> DEFINE T == {n \in Nat : f[n] \in Seq(S)}
<1>2. 0 \in T
  <2>1. <<>> \in Seq(S)
    OBVIOUS
  <2> QED BY <1>1, <2>1
<1>3. ASSUME NEW n \in 0 .. Len(s) - 1, n \in T PROVE n + 1 \in T
  <2>1. n + 1 \in 1 .. Len(s) /\ (n + 1) - 1 = n /\ n + 1 \in Nat /\ s[n + 1] \in S
    OBVIOUS
  <2>2. PICK q \in Seq(S) : q = f[n]
    BY <1>3
  <2>3. f[n + 1] = IF s[n + 1] \in gone THEN q ELSE Append(q, s[n + 1])
    BY <1>1, <2>1, <2>2
  <2>4. Append(q, s[n + 1]) \in Seq(S)
    BY <2>1, <2>2
  <2> QED BY <2>1, <2>2, <2>3, <2>4
<1>4. Len(s) \in T
  <2> HIDE DEF T
  <2>1. Len(s) \in Nat /\ Len(s) \in 0 .. Len(s)
    OBVIOUS
  <2> QED BY <1>2, <1>3, <2>1, UpTo
<1> QED BY <1>1, <1>4

\* r is w and then q.
Joined(r, w, q) ==
  /\ Len(r) = Len(w) + Len(q)
  /\ \A i \in 1 .. Len(w) : r[i] = w[i]
  /\ \A i \in 1 .. Len(q) : r[Len(w) + i] = q[i]

\* Two sequences in a row, with an element more at the end of the second.
LEMMA JoinedAppend ==
  ASSUME NEW S, NEW r \in Seq(S), NEW w \in Seq(S), NEW q \in Seq(S), NEW x \in S,
         Joined(r, w, q)
  PROVE  /\ Append(r, x) \in Seq(S) /\ Append(q, x) \in Seq(S)
         /\ Joined(Append(r, x), w, Append(q, x))
<1>1. PICK p : p = Append(r, x)
  OBVIOUS
<1>2. PICK a : a = Append(q, x)
  OBVIOUS
<1>3. /\ p \in Seq(S) /\ Len(p) = Len(r) + 1 /\ p[Len(r) + 1] = x
      /\ \A i \in 1 .. Len(r) : p[i] = r[i]
  BY <1>1, AppendProperties
<1>4. /\ a \in Seq(S) /\ Len(a) = Len(q) + 1 /\ a[Len(q) + 1] = x
      /\ \A i \in 1 .. Len(q) : a[i] = q[i]
  BY <1>2, AppendProperties
<1>5. Len(r) = Len(w) + Len(q) /\ Len(w) \in Nat /\ Len(q) \in Nat
  BY DEF Joined
<1>6. \A i \in 1 .. Len(w) : p[i] = w[i]
  BY <1>3, <1>5 DEF Joined
<1>7. ASSUME NEW i \in 1 .. Len(a) PROVE p[Len(w) + i] = a[i]
  <2>1. CASE i \in 1 .. Len(q)
    <3>1. Len(w) + i \in 1 .. Len(r)
      BY <1>5, <2>1
    <3> QED BY <1>3, <1>4, <2>1, <3>1 DEF Joined
  <2>2. CASE i = Len(q) + 1
    <3>1. Len(w) + i = Len(r) + 1
      BY <1>5, <2>2
    <3> QED BY <1>3, <1>4, <2>2, <3>1
  <2> QED BY <1>4, <1>5, <2>1, <2>2
<1>8. Joined(p, w, a)
  BY <1>3, <1>4, <1>5, <1>6, <1>7 DEF Joined
<1> QED BY <1>1, <1>2, <1>3, <1>4, <1>8

\* Taking out of two sequences in a row is taking out of each.
LEMMA WithoutJoined ==
  ASSUME NEW S, NEW s \in Seq(S), NEW t \in Seq(S), NEW r \in Seq(S), Joined(r, s, t),
         NEW gone
  PROVE  Joined(Without(r, gone), Without(s, gone), Without(t, gone))
<1>1. /\ Len(r) = Len(s) + Len(t)
      /\ \A n \in 1 .. Len(s) : r[n] = s[n]
      /\ \A n \in 1 .. Len(t) : r[Len(s) + n] = t[n]
  BY DEF Joined
<1>2. PICK f : /\ f[0] = <<>>
               /\ \A n \in 1 .. Len(r) :
                    f[n] = IF r[n] \in gone THEN f[n - 1] ELSE Append(f[n - 1], r[n])
               /\ Without(r, gone) = f[Len(r)]
  BY WithoutSteps
<1>3. PICK g : /\ g[0] = <<>>
               /\ \A n \in 1 .. Len(s) :
                    g[n] = IF s[n] \in gone THEN g[n - 1] ELSE Append(g[n - 1], s[n])
               /\ Without(s, gone) = g[Len(s)]
  BY WithoutSteps
<1>4. PICK h : /\ h[0] = <<>>
               /\ \A n \in 1 .. Len(t) :
                    h[n] = IF t[n] \in gone THEN h[n - 1] ELSE Append(h[n - 1], t[n])
               /\ Without(t, gone) = h[Len(t)]
  BY WithoutSteps
<1>5. Len(s) \in Nat /\ Len(t) \in Nat
  OBVIOUS
<1>6. f[Len(s)] = g[Len(s)]
  <2> DEFINE T == {n \in Nat : f[n] = g[n]}
  <2>1. 0 \in T
    BY <1>2, <1>3
  <2>2. ASSUME NEW n \in 0 .. Len(s) - 1, n \in T PROVE n + 1 \in T
    <3>1. n + 1 \in 1 .. Len(s) /\ n + 1 \in 1 .. Len(r) /\ (n + 1) - 1 = n /\ n + 1 \in Nat
      BY <1>1, <1>5
    <3>2. f[n + 1] = g[n + 1]
      BY <1>1, <1>2, <1>3, <2>2, <3>1
    <3> QED BY <3>1, <3>2
  <2>3. Len(s) \in T
    <3> HIDE DEF T
    <3>1. Len(s) \in 0 .. Len(s)
      BY <1>5
    <3> QED BY <1>5, <2>1, <2>2, <3>1, UpTo
  <2> QED BY <2>3
<1>7. PICK w \in Seq(S) : w = Without(s, gone)
  BY WithoutTyped
<1>8. Joined(f[Len(s) + Len(t)], w, h[Len(t)])
  <2> DEFINE T == {n \in Nat : /\ h[n] \in Seq(S) /\ f[Len(s) + n] \in Seq(S)
                               /\ Joined(f[Len(s) + n], w, h[n])}
  <2>1. 0 \in T
    <3>1. Joined(w, w, <<>>) /\ <<>> \in Seq(S) /\ Len(s) + 0 = Len(s)
      BY <1>5, <1>7 DEF Joined
    <3> QED BY <1>3, <1>4, <1>6, <1>7, <3>1
  <2>2. ASSUME NEW n \in 0 .. Len(t) - 1, n \in T PROVE n + 1 \in T
    <3>1. /\ n \in Nat /\ n + 1 \in 1 .. Len(t) /\ (n + 1) - 1 = n /\ n + 1 \in Nat
          /\ Len(s) + (n + 1) \in 1 .. Len(r) /\ Len(s) + (n + 1) - 1 = Len(s) + n
      BY <1>1, <1>5
    <3>2. r[Len(s) + (n + 1)] = t[n + 1] /\ t[n + 1] \in S
      BY <1>1, <3>1
    <3>3. PICK q : q = h[n]
      OBVIOUS
    <3>4. PICK p : p = f[Len(s) + n]
      OBVIOUS
    <3>5. PICK x : x = t[n + 1]
      OBVIOUS
    <3>6. q \in Seq(S) /\ p \in Seq(S) /\ x \in S /\ w \in Seq(S) /\ Joined(p, w, q)
      BY <1>7, <2>2, <3>2, <3>3, <3>4, <3>5
    <3>7. /\ f[Len(s) + (n + 1)] = IF x \in gone THEN p ELSE Append(p, x)
          /\ h[n + 1] = IF x \in gone THEN q ELSE Append(q, x)
      <4>1. f[Len(s) + (n + 1)] =
              IF r[Len(s) + (n + 1)] \in gone THEN f[Len(s) + (n + 1) - 1]
              ELSE Append(f[Len(s) + (n + 1) - 1], r[Len(s) + (n + 1)])
        BY <1>2, <3>1
      <4>2. h[n + 1] = IF t[n + 1] \in gone THEN h[(n + 1) - 1]
                       ELSE Append(h[(n + 1) - 1], t[n + 1])
        BY <1>4, <3>1
      <4>3. Len(s) + (n + 1) - 1 = Len(s) + n /\ (n + 1) - 1 = n
        BY <3>1
      <4> QED BY <3>2, <3>3, <3>4, <3>5, <4>1, <4>2, <4>3
    <3> HIDE DEF T
    <3>8. PICK p1 : p1 = IF x \in gone THEN p ELSE Append(p, x)
      OBVIOUS
    <3>9. PICK q1 : q1 = IF x \in gone THEN q ELSE Append(q, x)
      OBVIOUS
    <3>10. p1 \in Seq(S) /\ q1 \in Seq(S) /\ Joined(p1, w, q1)
      BY <3>6, <3>8, <3>9, JoinedAppend
    <3> QED BY <3>1, <3>7, <3>8, <3>9, <3>10 DEF T
  <2>3. Len(t) \in T
    <3> HIDE DEF T
    <3>1. Len(t) \in 0 .. Len(t)
      BY <1>5
    <3> QED BY <1>5, <2>1, <2>2, <3>1, UpTo
  <2> QED BY <2>3
<1> QED BY <1>1, <1>2, <1>4, <1>7, <1>8

\* Taking out of a sequence of one element.
LEMMA WithoutOne ==
  ASSUME NEW S, NEW x \in S, NEW gone
  PROVE  Without(<<x>>, gone) = IF x \in gone THEN <<>> ELSE <<x>>
<1>0. <<x>> \in Seq(S) /\ Len(<<x>>) = 1 /\ <<x>>[1] = x
  OBVIOUS
<1>1. PICK f : /\ f[0] = <<>>
               /\ \A n \in 1 .. Len(<<x>>) :
                    f[n] = IF <<x>>[n] \in gone THEN f[n - 1] ELSE Append(f[n - 1], <<x>>[n])
               /\ Without(<<x>>, gone) = f[Len(<<x>>)]
  BY <1>0, WithoutSteps
<1>2. f[1] = IF x \in gone THEN f[1 - 1] ELSE Append(f[1 - 1], x)
  BY <1>0, <1>1
<1>3. Append(<<>>, x) = <<x>> /\ f[1 - 1] = <<>>
  BY <1>1
<1> QED BY <1>0, <1>1, <1>2, <1>3

\* Taking out of the empty sequence.
LEMMA WithoutNone ==
  ASSUME NEW gone
  PROVE  Without(<<>>, gone) = <<>>
<1>1. PICK e \in Seq(Nat) : e = <<>>
  <2>1. <<>> \in Seq(Nat)
    OBVIOUS
  <2> QED BY <2>1
<1>2. PICK f : f[0] = <<>> /\ Without(e, gone) = f[Len(e)]
  BY WithoutSteps
<1>3. Len(e) = 0
  BY <1>1
<1> QED BY <1>1, <1>2, <1>3

\* Taking out what is not there changes nothing.
LEMMA WithoutAll ==
  ASSUME NEW S, NEW s \in Seq(S), NEW gone, \A n \in DOMAIN s : s[n] \notin gone
  PROVE  Without(s, gone) = s
<1>1. PICK f : /\ f[0] = <<>>
               /\ \A n \in 1 .. Len(s) :
                    f[n] = IF s[n] \in gone THEN f[n - 1] ELSE Append(f[n - 1], s[n])
               /\ Without(s, gone) = f[Len(s)]
  BY WithoutSteps
<1> DEFINE T == {n \in Nat : f[n] = SubSeq(s, 1, n)}
<1>2. 0 \in T
  <2>1. SubSeq(s, 1, 0) = <<>>
    BY SubSeqEmpty
  <2> QED BY <1>1, <2>1
<1>3. ASSUME NEW n \in 0 .. Len(s) - 1, n \in T PROVE n + 1 \in T
  <2>1. n + 1 \in 1 .. Len(s) /\ (n + 1) - 1 = n /\ n + 1 \in Nat /\ s[n + 1] \notin gone
    OBVIOUS
  <2>2. f[n + 1] = Append(SubSeq(s, 1, n), s[n + 1])
    BY <1>1, <1>3, <2>1
  <2>3. Append(SubSeq(s, 1, n), s[n + 1]) = SubSeq(s, 1, n + 1)
    BY <2>1
  <2> QED BY <2>1, <2>2, <2>3
<1>4. Len(s) \in T
  <2> HIDE DEF T
  <2>1. Len(s) \in Nat /\ Len(s) \in 0 .. Len(s)
    OBVIOUS
  <2> QED BY <1>2, <1>3, <2>1, UpTo
<1>5. SubSeq(s, 1, Len(s)) = s
  OBVIOUS
<1> QED BY <1>1, <1>4, <1>5

\* At most one element.
Single(S) == {q \in Seq(S) : Len(q) <= 1}

\* Taking out of at most one element leaves at most that one.
LEMMA WithoutSingle ==
  ASSUME NEW S, NEW q \in Single(S), NEW gone
  PROVE  /\ Without(q, gone) \in Single(S)
         /\ Len(Without(q, gone)) = 1 => Len(q) = 1 /\ Without(q, gone)[1] = q[1]
<1>1. q \in Seq(S) /\ DOMAIN q = 1 .. Len(q) /\ Len(q) \in Nat /\ Len(q) <= 1
  BY DEF Single
<1>2. IsInjective(q)
  BY <1>1 DEF IsInjective
<1>3. PICK w : w = Without(q, gone)
  OBVIOUS
<1>4. w \in Seq(S) /\ Len(w) <= Len(q) /\ ToSet(w) = ToSet(q) \ gone
  BY <1>1, <1>2, <1>3, WithoutOnce
<1>5. DOMAIN w = 1 .. Len(w) /\ Len(w) \in Nat
  BY <1>4
<1>6. ASSUME Len(w) = 1 PROVE Len(q) = 1 /\ w[1] = q[1]
  <2>1. Len(q) = 1
    BY <1>1, <1>4, <1>6
  <2>2. w[1] \in ToSet(w) /\ ToSet(q) = {q[1]}
    BY <1>1, <1>5, <1>6, <2>1 DEF ToSet
  <2> QED BY <1>4, <2>1, <2>2
<1>7. Len(w) <= 1
  BY <1>1, <1>4, <1>5
<1> QED BY <1>3, <1>4, <1>6, <1>7 DEF Single

\* Only what is in the sequence matters.
LEMMA WithoutAgree ==
  ASSUME NEW S, NEW s \in Seq(S), NEW A, NEW B, \A n \in DOMAIN s : s[n] \in A <=> s[n] \in B
  PROVE  Without(s, A) = Without(s, B)
<1>1. PICK f : /\ f[0] = <<>>
               /\ \A n \in 1 .. Len(s) :
                    f[n] = IF s[n] \in A THEN f[n - 1] ELSE Append(f[n - 1], s[n])
               /\ Without(s, A) = f[Len(s)]
  BY WithoutSteps
<1>2. PICK g : /\ g[0] = <<>>
               /\ \A n \in 1 .. Len(s) :
                    g[n] = IF s[n] \in B THEN g[n - 1] ELSE Append(g[n - 1], s[n])
               /\ Without(s, B) = g[Len(s)]
  BY WithoutSteps
<1> DEFINE T == {n \in Nat : f[n] = g[n]}
<1>3. 0 \in T
  BY <1>1, <1>2
<1>4. ASSUME NEW n \in 0 .. Len(s) - 1, n \in T PROVE n + 1 \in T
  <2>1. n + 1 \in 1 .. Len(s) /\ n + 1 \in DOMAIN s /\ (n + 1) - 1 = n /\ n + 1 \in Nat
    OBVIOUS
  <2>2. f[n + 1] = IF s[n + 1] \in A THEN f[n] ELSE Append(f[n], s[n + 1])
    BY <1>1, <2>1
  <2>3. g[n + 1] = IF s[n + 1] \in B THEN g[n] ELSE Append(g[n], s[n + 1])
    BY <1>2, <2>1
  <2> QED BY <1>4, <2>1, <2>2, <2>3
<1>5. Len(s) \in T
  <2> HIDE DEF T
  <2>1. Len(s) \in Nat /\ Len(s) \in 0 .. Len(s)
    OBVIOUS
  <2> QED BY <1>3, <1>4, <2>1, UpTo
<1> QED BY <1>1, <1>2, <1>5

\* One in place of another has its key.
Alike(x, y) == Len(x) = 1 /\ Len(y) = 1 => x[1].key = y[1].key

\* The two differ in one place: an item more, an item less, or one for another
\* of its key.
Near(S, s, t) ==
  \E u, v, m, n \in Seq(S), x, y \in Single(S) :
    /\ Joined(s, u, m) /\ Joined(m, x, v)
    /\ Joined(t, u, n) /\ Joined(n, y, v)
    /\ Alike(x, y)

\* Taking the same elements out of two sequences that differ in one place leaves
\* two such sequences.
LEMMA NearWithout ==
  ASSUME NEW S, NEW s \in Seq(S), NEW t \in Seq(S), Near(S, s, t), NEW gone
  PROVE  Near(S, Without(s, gone), Without(t, gone))
<1>1. PICK u \in Seq(S), v \in Seq(S), m \in Seq(S), n \in Seq(S), x \in Single(S), y \in Single(S) :
        /\ Joined(s, u, m) /\ Joined(m, x, v)
        /\ Joined(t, u, n) /\ Joined(n, y, v)
        /\ Alike(x, y)
  BY DEF Near
<1> DEFINE W(q) == Without(q, gone)
<1>2. x \in Seq(S) /\ y \in Seq(S)
  BY DEF Single
<1>3. Joined(W(s), W(u), W(m)) /\ Joined(W(m), W(x), W(v))
  BY <1>1, <1>2, WithoutJoined
<1>4. Joined(W(t), W(u), W(n)) /\ Joined(W(n), W(y), W(v))
  BY <1>1, <1>2, WithoutJoined
<1>5. W(u) \in Seq(S) /\ W(v) \in Seq(S) /\ W(m) \in Seq(S) /\ W(n) \in Seq(S)
  BY WithoutTyped
<1>6. /\ W(x) \in Single(S) /\ W(y) \in Single(S)
      /\ Len(W(x)) = 1 => Len(x) = 1 /\ W(x)[1] = x[1]
      /\ Len(W(y)) = 1 => Len(y) = 1 /\ W(y)[1] = y[1]
  BY WithoutSingle
<1>7. Alike(W(x), W(y))
  BY <1>1, <1>6 DEF Alike
<1> HIDE DEF W
<1>8. Near(S, W(s), W(t))
  BY <1>3, <1>4, <1>5, <1>6, <1>7 DEF Near
<1> QED BY <1>8 DEF W

\* s is u, then its p-th element, then v.
Cut(s, p, u, m, x, v) ==
  /\ Joined(s, u, m) /\ Joined(m, x, v)
  /\ Len(u) = p - 1 /\ Len(x) = 1 /\ Len(v) = Len(s) - p
  /\ x[1] = s[p]
  /\ \A i \in 1 .. p - 1 : u[i] = s[i]
  /\ \A i \in 1 .. Len(s) - p : v[i] = s[p + i]

\* A sequence is what comes before a place, the element there and what comes after.
LEMMA SplitAt ==
  ASSUME NEW S, NEW s \in Seq(S), NEW p \in 1 .. Len(s)
  PROVE  \E u \in Seq(S), m \in Seq(S), x \in Single(S), v \in Seq(S) : Cut(s, p, u, m, x, v)
<1>1. Len(s) \in Nat /\ p \in Nat /\ p <= Len(s) /\ 1 <= p /\ \A i \in 1 .. Len(s) : s[i] \in S
  OBVIOUS
<1>2. PICK u : u = [i \in 1 .. p - 1 |-> s[i]]
  OBVIOUS
<1>3. PICK m : m = [i \in 1 .. Len(s) - p + 1 |-> s[p - 1 + i]]
  OBVIOUS
<1>4. PICK v : v = [i \in 1 .. Len(s) - p |-> s[p + i]]
  OBVIOUS
<1>5. PICK x : x = [i \in 1 .. 1 |-> s[p]]
  OBVIOUS
<1>6. u \in Seq(S) /\ Len(u) = p - 1 /\ \A i \in 1 .. p - 1 : u[i] = s[i]
  BY <1>1, <1>2
<1>7. /\ m \in Seq(S) /\ Len(m) = Len(s) - p + 1
      /\ \A i \in 1 .. Len(s) - p + 1 : m[i] = s[p - 1 + i]
  <2>1. Len(s) - p + 1 \in Nat /\ \A i \in 1 .. Len(s) - p + 1 : p - 1 + i \in 1 .. Len(s)
    BY <1>1
  <2> QED BY <1>1, <1>3, <2>1
<1>8. v \in Seq(S) /\ Len(v) = Len(s) - p /\ \A i \in 1 .. Len(s) - p : v[i] = s[p + i]
  <2>1. Len(s) - p \in Nat /\ \A i \in 1 .. Len(s) - p : p + i \in 1 .. Len(s)
    BY <1>1
  <2> QED BY <1>1, <1>4, <2>1
<1>9. x \in Seq(S) /\ Len(x) = 1 /\ x[1] = s[p]
  BY <1>1, <1>5
<1>10. Joined(s, u, m)
  <2>1. \A i \in 1 .. Len(m) : s[Len(u) + i] = m[i]
    BY <1>1, <1>6, <1>7
  <2>2. \A i \in 1 .. Len(u) : s[i] = u[i]
    BY <1>1, <1>6
  <2>3. Len(s) = Len(u) + Len(m)
    BY <1>1, <1>6, <1>7
  <2> QED BY <2>1, <2>2, <2>3 DEF Joined
<1>11. Joined(m, x, v)
  <2>1. Len(m) = Len(x) + Len(v)
    BY <1>1, <1>7, <1>8, <1>9
  <2>2. \A i \in 1 .. Len(x) : m[i] = x[i]
    BY <1>1, <1>7, <1>9
  <2>3. ASSUME NEW i \in 1 .. Len(v) PROVE m[Len(x) + i] = v[i]
    <3>1. 1 + i \in 1 .. Len(s) - p + 1 /\ p - 1 + (1 + i) = p + i /\ i \in 1 .. Len(s) - p
      BY <1>1, <1>8
    <3> QED BY <1>7, <1>8, <1>9, <3>1
  <2> QED BY <2>1, <2>2, <2>3 DEF Joined
<1>12. x \in Single(S)
  <2>1. Len(x) <= 1
    BY <1>9
  <2> QED BY <1>9, <2>1, Zenon DEF Single
<1>13. Cut(s, p, u, m, x, v)
  BY <1>6, <1>8, <1>9, <1>10, <1>11 DEF Cut
<1> QED BY <1>6, <1>7, <1>8, <1>12, <1>13

\* Any two sequences can be put in a row.
LEMMA JoinedExists ==
  ASSUME NEW S, NEW w \in Seq(S), NEW q \in Seq(S)
  PROVE  \E r \in Seq(S) : Joined(r, w, q)
<1>1. /\ Len(w) \in Nat /\ Len(q) \in Nat
      /\ \A i \in 1 .. Len(w) : w[i] \in S
      /\ \A i \in 1 .. Len(q) : q[i] \in S
  OBVIOUS
<1>2. PICK r : r = [i \in 1 .. Len(w) + Len(q) |->
                      IF i <= Len(w) THEN w[i] ELSE q[i - Len(w)]]
  OBVIOUS
<1>3. Len(w) + Len(q) \in Nat
  BY <1>1
<1>4. \A i \in 1 .. Len(w) + Len(q) : r[i] \in S
  BY <1>1, <1>2
<1>5. r \in Seq(S) /\ Len(r) = Len(w) + Len(q)
  BY <1>2, <1>3, <1>4
<1>6. \A i \in 1 .. Len(w) : r[i] = w[i]
  BY <1>1, <1>2
<1>7. \A i \in 1 .. Len(q) : r[Len(w) + i] = q[i]
  BY <1>1, <1>2
<1> QED BY <1>5, <1>6, <1>7 DEF Joined

\* Map.set changes a map in one place.
LEMMA SetNear ==
  ASSUME NEW kind, NEW map, MapOf(kind, map), NEW item \in Known
  PROVE  Near(Known, map, MapSet(map, item))
<1>1. map \in Seq(Known) /\ DOMAIN map = 1 .. Len(map) /\ Len(map) \in Nat
  BY DEF MapOf
<1>2. PICK y : y = [i \in 1 .. 1 |-> item]
  OBVIOUS
<1>3. y \in Seq(Known) /\ Len(y) = 1 /\ y[1] = item
  BY <1>2
<1>4. y \in Single(Known)
  <2>1. Len(y) <= 1
    BY <1>3
  <2> QED BY <1>3, <2>1, Zenon DEF Single
<1>5. CASE \E p \in DOMAIN map : map[p].key = item.key
  <2>1. PICK p \in 1 .. Len(map) : map[p].key = item.key
    BY <1>1, <1>5
  <2>2. PICK u \in Seq(Known), m \in Seq(Known), x \in Single(Known), v \in Seq(Known) :
          Cut(map, p, u, m, x, v)
    BY <1>1, SplitAt
  <2>3. PICK n \in Seq(Known) : Joined(n, y, v)
    BY <1>3, JoinedExists
  <2>4. PICK r : r = MapSet(map, item)
    OBVIOUS
  <2>5. r = [i \in DOMAIN map |-> IF map[i].key = item.key THEN item ELSE map[i]]
    BY <1>5, <2>4 DEF MapSet
  <2>6. \A i \in 1 .. Len(map) : i # p => map[i].key # item.key
    BY <1>1, <2>1 DEF MapOf
  <2>7. r[p] = item /\ \A i \in 1 .. Len(map) : i # p => r[i] = map[i]
    BY <1>1, <2>1, <2>5, <2>6
  <2>8. r \in Seq(Known) /\ Len(r) = Len(map)
    BY <1>1, <2>5
  <2>9. /\ Len(n) = 1 + Len(v) /\ n[1] = item
        /\ \A j \in 1 .. Len(v) : n[1 + j] = v[j]
    BY <1>3, <2>3 DEF Joined
  <2>10. /\ Len(u) = p - 1 /\ Len(x) = 1 /\ x[1] = map[p] /\ Len(v) = Len(map) - p
         /\ \A i \in 1 .. p - 1 : map[i] = u[i]
         /\ \A j \in 1 .. Len(v) : map[p + j] = v[j]
    BY <2>2 DEF Cut
  <2>11. \A i \in 1 .. Len(u) : r[i] = u[i]
    BY <1>1, <2>1, <2>7, <2>10
  <2>12. ASSUME NEW i \in 1 .. Len(n) PROVE r[Len(u) + i] = n[i]
    <3>1. CASE i = 1
      <4>1. Len(u) + 1 = p
        BY <2>10
      <4> QED BY <2>7, <2>9, <3>1, <4>1
    <3>2. CASE i # 1
      <4>1. /\ i - 1 \in 1 .. Len(v) /\ 1 + (i - 1) = i /\ Len(u) + i = p + (i - 1)
            /\ p + (i - 1) \in 1 .. Len(map) /\ p + (i - 1) # p
        BY <1>1, <2>9, <2>10, <3>2
      <4> QED BY <2>7, <2>9, <2>10, <4>1
    <3> QED BY <3>1, <3>2
  <2>13. Len(r) = Len(u) + Len(n)
    BY <1>1, <2>8, <2>9, <2>10
  <2>14. Joined(r, u, n)
    BY <2>11, <2>12, <2>13 DEF Joined
  <2>15. Alike(x, y)
    BY <1>3, <2>1, <2>10 DEF Alike
  <2>16. Near(Known, map, r)
    BY <1>4, <2>2, <2>3, <2>14, <2>15 DEF Near, Cut
  <2> QED BY <2>4, <2>16
<1>6. CASE ~ \E p \in DOMAIN map : map[p].key = item.key
  <2>1. PICK e \in Single(Known) : e = <<>>
    <3>1. <<>> \in Seq(Known) /\ Len(<<>>) <= 1
      OBVIOUS
    <3> QED BY <3>1 DEF Single
  <2>2. e \in Seq(Known) /\ Len(e) = 0
    BY <2>1
  <2>3. PICK r : r = MapSet(map, item)
    OBVIOUS
  <2>4. r = Append(map, item)
    BY <1>6, <2>3 DEF MapSet
  <2>5. /\ Len(r) = Len(map) + 1 /\ r[Len(map) + 1] = item
        /\ \A i \in 1 .. Len(map) : r[i] = map[i]
    BY <1>1, <2>4, AppendProperties
  <2>6. Joined(map, map, e) /\ Joined(e, e, e) /\ Joined(y, y, e)
    BY <1>1, <1>3, <2>2 DEF Joined
  <2>7. Joined(r, map, y)
    BY <1>1, <1>3, <2>5 DEF Joined
  <2>8. Alike(e, y)
    BY <2>2 DEF Alike
  <2>9. Near(Known, map, r)
    BY <1>1, <1>3, <1>4, <2>2, <2>6, <2>7, <2>8 DEF Near
  <2> QED BY <2>3, <2>9
<1> QED BY <1>5, <1>6

\* A sequence differs from itself in one place at most.
LEMMA SelfNear ==
  ASSUME NEW S, NEW s \in Seq(S)
  PROVE  Near(S, s, s)
<1>1. PICK e \in Single(S) : e = <<>>
  <2>1. <<>> \in Seq(S) /\ Len(<<>>) <= 1
    OBVIOUS
  <2> QED BY <2>1 DEF Single
<1>2. e \in Seq(S) /\ Len(e) = 0
  BY <1>1
<1>3. Joined(s, s, e) /\ Joined(e, e, e) /\ Alike(e, e)
  BY <1>2 DEF Joined, Alike
<1> QED BY <1>2, <1>3 DEF Near

\* So does Map.delete.
LEMMA LeftNear ==
  ASSUME NEW kind, NEW map, MapOf(kind, map), NEW k
  PROVE  Near(Known, map, Without(map, {i \in ToSet(map) : i.key = k}))
<1> DEFINE gone == {i \in ToSet(map) : i.key = k}
<1>1. map \in Seq(Known) /\ DOMAIN map = 1 .. Len(map) /\ Len(map) \in Nat
  BY DEF MapOf
<1>2. \A i \in DOMAIN map : map[i] \in gone <=> map[i].key = k
  BY DEF ToSet
<1>3. CASE \E p \in DOMAIN map : map[p].key = k
  <2>1. PICK p \in 1 .. Len(map) : map[p].key = k
    BY <1>1, <1>3
  <2>2. PICK u \in Seq(Known), m \in Seq(Known), x \in Single(Known), v \in Seq(Known) :
          Cut(map, p, u, m, x, v)
    BY <1>1, SplitAt
  <2>3. \A i \in 1 .. Len(map) : i # p => map[i] \notin gone
    BY <1>1, <1>2, <2>1 DEF MapOf
  <2>4. /\ \A i \in 1 .. Len(u) : map[i] = u[i] /\ i \in 1 .. Len(map) /\ i # p
        /\ \A j \in 1 .. Len(v) : map[p + j] = v[j] /\ p + j \in 1 .. Len(map) /\ p + j # p
    BY <1>1, <2>2 DEF Cut
  <2> HIDE DEF gone
  <2>5. (\A i \in DOMAIN u : u[i] \notin gone) /\ (\A j \in DOMAIN v : v[j] \notin gone)
    <3>1. DOMAIN u = 1 .. Len(u) /\ DOMAIN v = 1 .. Len(v)
      OBVIOUS
    <3>2. ASSUME NEW i \in 1 .. Len(u) PROVE u[i] \notin gone
      BY <2>3, <2>4
    <3>3. ASSUME NEW j \in 1 .. Len(v) PROVE v[j] \notin gone
      BY <2>3, <2>4
    <3> QED BY <3>1, <3>2, <3>3
  <2>6. Without(u, gone) = u /\ Without(v, gone) = v
    BY <2>5, WithoutAll
  <2>7. x \in Seq(Known)
    BY DEF Single
  <2>8. PICK w : w = Without(map, gone)
    OBVIOUS
  <2>9. PICK n \in Seq(Known) : n = Without(m, gone)
    BY WithoutTyped
  <2>10. PICK y \in Single(Known) :
           y = Without(x, gone) /\ (Len(y) = 1 => Len(x) = 1 /\ y[1] = x[1])
    BY WithoutSingle
  <2>11. Joined(w, u, n)
    BY <1>1, <2>2, <2>6, <2>8, <2>9, WithoutJoined DEF Cut
  <2>12. Joined(n, y, v)
    BY <2>2, <2>6, <2>7, <2>9, <2>10, WithoutJoined DEF Cut
  <2>13. Alike(x, y)
    BY <2>10 DEF Alike
  <2>14. Near(Known, map, w)
    BY <2>2, <2>9, <2>10, <2>11, <2>12, <2>13 DEF Near, Cut
  <2> QED BY <2>8, <2>14 DEF gone
<1>4. CASE ~ \E p \in DOMAIN map : map[p].key = k
  <2>1. Without(map, gone) = map
    BY <1>1, <1>2, <1>4, WithoutAll
  <2> QED BY <1>1, <2>1, SelfNear
<1> QED BY <1>3, <1>4

\* Keeping the same elements of two sequences that differ in one place leaves two
\* such sequences.
LEMMA KeepingNear ==
  ASSUME NEW S, NEW s \in Seq(S), NEW t \in Seq(S), Near(S, s, t), NEW K
  PROVE  /\ Keeping(s, ToSet(s) \intersect K) \in Seq(S)
         /\ Keeping(t, ToSet(t) \intersect K) \in Seq(S)
         /\ Near(S, Keeping(s, ToSet(s) \intersect K), Keeping(t, ToSet(t) \intersect K))
<1>1. ASSUME NEW q \in Seq(S) PROVE Keeping(q, ToSet(q) \intersect K) = Without(q, S \ K)
  <2> DEFINE gone == {q[n] : n \in DOMAIN q} \ (ToSet(q) \intersect K)
  <2>1. \A n \in DOMAIN q : q[n] \in gone <=> q[n] \in S \ K
    <3>1. \A n \in DOMAIN q : q[n] \in S /\ q[n] \in ToSet(q)
      BY DEF ToSet
    <3> QED BY <3>1
  <2> HIDE DEF gone
  <2>2. Without(q, gone) = Without(q, S \ K)
    BY <2>1, WithoutAgree
  <2> QED BY <2>2 DEF Keeping, gone
<1>2. Near(S, Without(s, S \ K), Without(t, S \ K))
  BY NearWithout
<1>3. Without(s, S \ K) \in Seq(S) /\ Without(t, S \ K) \in Seq(S)
  BY WithoutTyped
<1>4. /\ Keeping(s, ToSet(s) \intersect K) = Without(s, S \ K)
      /\ Keeping(t, ToSet(t) \intersect K) = Without(t, S \ K)
  BY <1>1
<1> QED BY <1>2, <1>3, <1>4

\* So does the filter of the granted scopes.
LEMMA FilteredNear ==
  ASSUME NEW s \in Seq(Known), NEW t \in Seq(Known), Near(Known, s, t), NEW f, NEW granted
  PROVE  Near(Known, Filtered(s, f, granted), Filtered(t, f, granted))
<1> DEFINE K == {i \in Known : HasRequiredScopes(i, granted)}
<1>1. ASSUME NEW q \in Seq(Known)
      PROVE  {i \in ToSet(q) : HasRequiredScopes(i, granted)} = ToSet(q) \intersect K
  <2>1. ToSet(q) \subseteq Known
    BY DEF ToSet
  <2> QED BY <2>1
<1>2. /\ {i \in ToSet(s) : HasRequiredScopes(i, granted)} = ToSet(s) \intersect K
      /\ {i \in ToSet(t) : HasRequiredScopes(i, granted)} = ToSet(t) \intersect K
  BY <1>1
<1> HIDE DEF K
<1>3. Near(Known, Keeping(s, ToSet(s) \intersect K), Keeping(t, ToSet(t) \intersect K))
  BY KeepingNear
<1> QED BY <1>2, <1>3 DEF Filtered

\* So does the exposure strategy.
LEMMA StrategyNear ==
  ASSUME NEW s \in Seq(Known), NEW t \in Seq(Known), Near(Known, s, t), NEW strategy, NEW meta
  PROVE  /\ ApplyStrategy(strategy, s, meta) \in Seq(Known)
         /\ ApplyStrategy(strategy, t, meta) \in Seq(Known)
         /\ Near(Known, ApplyStrategy(strategy, s, meta), ApplyStrategy(strategy, t, meta))
<1>1. CASE strategy.kind = "lazy"
  <2> DEFINE K == {i \in Known : i.name \in meta \/ IsEager(i, strategy.eager)}
  <2>1. ASSUME NEW q \in Seq(Known)
        PROVE  {i \in ToSet(q) : i.name \in meta \/ IsEager(i, strategy.eager)}
                 = ToSet(q) \intersect K
    <3>1. ToSet(q) \subseteq Known
      BY DEF ToSet
    <3> QED BY <3>1
  <2>2. /\ ApplyStrategy(strategy, s, meta) = Keeping(s, ToSet(s) \intersect K)
        /\ ApplyStrategy(strategy, t, meta) = Keeping(t, ToSet(t) \intersect K)
    BY <1>1, <2>1 DEF ApplyStrategy, ApplyLazy
  <2> HIDE DEF K
  <2>3. /\ Near(Known, Keeping(s, ToSet(s) \intersect K), Keeping(t, ToSet(t) \intersect K))
        /\ Keeping(s, ToSet(s) \intersect K) \in Seq(Known)
        /\ Keeping(t, ToSet(t) \intersect K) \in Seq(Known)
    BY KeepingNear
  <2> QED BY <2>2, <2>3
<1>2. CASE strategy.kind # "lazy"
  <2> DEFINE G == {i \in Known : i.name \in meta}
  <2>1. ASSUME NEW q \in Seq(Known) PROVE WithoutMetaTools(q, meta) = Without(q, G)
    <3> DEFINE gone == {i \in ToSet(q) : i.name \in meta}
    <3>1. \A n \in DOMAIN q : q[n] \in gone <=> q[n] \in G
      <4>1. \A n \in DOMAIN q : q[n] \in Known /\ q[n] \in ToSet(q)
        BY DEF ToSet
      <4> QED BY <4>1
    <3> HIDE DEF gone, G
    <3>2. Without(q, gone) = Without(q, G)
      BY <3>1, WithoutAgree
    <3> QED BY <3>2 DEF WithoutMetaTools, gone
  <2>2. /\ ApplyStrategy(strategy, s, meta) = Without(s, G)
        /\ ApplyStrategy(strategy, t, meta) = Without(t, G)
    BY <1>2, <2>1 DEF ApplyStrategy
  <2> HIDE DEF G
  <2>3. /\ Near(Known, Without(s, G), Without(t, G))
        /\ Without(s, G) \in Seq(Known) /\ Without(t, G) \in Seq(Known)
    BY NearWithout, WithoutTyped
  <2> QED BY <2>2, <2>3
<1> QED BY <1>1, <1>2

\* What differs in one place is listed with a difference in one place.
LEMMA ListedNear ==
  ASSUME NEW reg, Kept(reg), NEW new, Kept(new),
         \A k \in ItemKinds : Near(Known, reg[k], new[k]),
         NEW meta, NEW source \in Sources, NEW caller
  PROVE  Near(Known, Listed(reg, meta, source, caller), Listed(new, meta, source, caller))
<1>1. \A k \in ItemKinds : reg[k] \in Seq(Known) /\ new[k] \in Seq(Known)
  BY DEF Kept, MapOf
<1>2. CASE source = "index"
  <2> DEFINE K == {i \in Known : i.name \notin meta /\ {} \subseteq i.tags}
  <2>1. PICK s \in Seq(Known), t \in Seq(Known) :
          s = reg["tool"] /\ t = new["tool"] /\ Near(Known, s, t)
    BY <1>1 DEF ItemKinds
  <2>2. ASSUME NEW q \in Seq(Known)
        PROVE  {i \in ToSet(q) : i.name \notin meta /\ {} \subseteq i.tags} = ToSet(q) \intersect K
    <3>1. ToSet(q) \subseteq Known
      BY DEF ToSet
    <3> QED BY <3>1
  <2>3. /\ IndexOf(s, meta, {}) = Keeping(s, ToSet(s) \intersect K)
        /\ IndexOf(t, meta, {}) = Keeping(t, ToSet(t) \intersect K)
    BY <2>2 DEF IndexOf
  <2> HIDE DEF K
  <2>4. Near(Known, Keeping(s, ToSet(s) \intersect K), Keeping(t, ToSet(t) \intersect K))
    BY <2>1, KeepingNear
  <2> QED BY <1>2, <2>1, <2>3, <2>4 DEF Listed
<1>3. CASE source = "tool"
  <2> DEFINE strategy == ResolveForClient(options.exposure, caller)
  <2>1. PICK s \in Seq(Known), t \in Seq(Known) :
          s = reg["tool"] /\ t = new["tool"] /\ Near(Known, s, t)
    BY <1>1 DEF ItemKinds
  <2>2. PICK s1 \in Seq(Known), t1 \in Seq(Known) :
          /\ s1 = ApplyStrategy(strategy, s, meta) /\ t1 = ApplyStrategy(strategy, t, meta)
          /\ Near(Known, s1, t1)
    BY <2>1, StrategyNear
  <2>3. Near(Known, Filtered(s1, options.filter, caller.scopes),
                    Filtered(t1, options.filter, caller.scopes))
    BY <2>2, FilteredNear
  <2> QED BY <1>3, <2>1, <2>2, <2>3 DEF Listed, ListedTools
<1>4. CASE source \in ItemKinds \ {"tool"}
  <2>1. PICK s \in Seq(Known), t \in Seq(Known) :
          s = reg[source] /\ t = new[source] /\ Near(Known, s, t)
    BY <1>1, <1>4
  <2>2. Near(Known, Filtered(s, options.filter, caller.scopes),
                    Filtered(t, options.filter, caller.scopes))
    BY <2>1, FilteredNear
  <2>3. source # "index" /\ source # "tool"
    BY <1>4 DEF ItemKinds
  <2> QED BY <2>1, <2>2, <2>3 DEF Listed, ListedOthers
<1> QED BY <1>2, <1>3, <1>4 DEF Sources

\* The filter of the granted scopes keeps a map a map.
LEMMA FilteredMap ==
  ASSUME NEW kind, NEW map, MapOf(kind, map), NEW f, NEW granted
  PROVE  MapOf(kind, Filtered(map, f, granted))
BY KeepingIs DEF Filtered

\* What a caller is listed is a map: no key comes twice.
LEMMA ListedMap ==
  ASSUME NEW reg, Kept(reg), NEW meta, NEW source \in Sources, NEW caller
  PROVE  \E kind : MapOf(kind, Listed(reg, meta, source, caller))
<1>1. \A k \in ItemKinds : MapOf(k, reg[k])
  BY DEF Kept
<1>2. CASE source = "index"
  <2>1. MapOf("tool", IndexOf(reg["tool"], meta, {}))
    BY <1>1, KeepingIs DEF IndexOf, ItemKinds
  <2> QED BY <1>2, <2>1 DEF Listed
<1>3. CASE source = "tool"
  <2>1. PICK map : /\ map = ApplyStrategy(ResolveForClient(options.exposure, caller), reg["tool"], meta)
                   /\ MapOf("tool", map)
    BY <1>1, KeepingIs, LeftIs DEF ApplyStrategy, ApplyLazy, WithoutMetaTools, ItemKinds
  <2> QED BY <1>3, <2>1, FilteredMap DEF Listed, ListedTools
<1>4. CASE source \in ItemKinds \ {"tool"}
  <2>1. source # "index" /\ source # "tool"
    BY <1>4 DEF ItemKinds
  <2> QED BY <1>1, <1>4, <2>1, FilteredMap DEF Listed, ListedOthers
<1> QED BY <1>2, <1>3, <1>4 DEF Sources

(***************************************************************************)
(* Keys                                                                    *)
(***************************************************************************)
\* The keys of t are those of s, in their order, but for the p-th.
TakenOut(s, t, p) ==
  /\ p \in 1 .. Len(s) /\ Len(s) = Len(t) + 1
  /\ \A i \in 1 .. p - 1 : t[i].key = s[i].key
  /\ \A i \in p .. Len(t) : t[i].key = s[i + 1].key

\* Items may have been replaced, their keys have not.
SameKeys(s, t) == Len(s) = Len(t) /\ \A i \in 1 .. Len(s) : s[i].key = t[i].key

\* Of two sequences that differ in one place, both have the same keys or one is the
\* other with a place taken out.
LEMMA NearIs ==
  ASSUME NEW S, NEW s \in Seq(S), NEW t \in Seq(S), Near(S, s, t)
  PROVE  SameKeys(s, t) \/ (\E p \in Nat : TakenOut(s, t, p)) \/ (\E p \in Nat : TakenOut(t, s, p))
<1>1. PICK u \in Seq(S), v \in Seq(S), m \in Seq(S), n \in Seq(S), x \in Single(S), y \in Single(S) :
        /\ Joined(s, u, m) /\ Joined(m, x, v)
        /\ Joined(t, u, n) /\ Joined(n, y, v)
        /\ Alike(x, y)
  BY DEF Near
<1>2. /\ Len(u) \in Nat /\ Len(v) \in Nat
      /\ Len(x) \in {0, 1} /\ Len(y) \in {0, 1}
  <2>1. x \in Seq(S) /\ y \in Seq(S) /\ Len(x) <= 1 /\ Len(y) <= 1
    BY DEF Single
  <2>2. Len(x) \in Nat /\ Len(y) \in Nat
    BY <2>1
  <2>3. \A k \in Nat : k <= 1 => k \in {0, 1}
    OBVIOUS
  <2>4. Len(u) \in Nat /\ Len(v) \in Nat
    OBVIOUS
  <2> QED BY <2>1, <2>2, <2>3, <2>4
<1> DEFINE a == Len(u)
           b == Len(v)
<1>3. ASSUME NEW q, NEW w \in Seq(S), NEW z, Len(z) \in {0, 1},
             Joined(q, u, w), Joined(w, z, v)
      PROVE  /\ Len(q) = a + Len(z) + b
             /\ \A i \in 1 .. a : q[i] = u[i]
             /\ Len(z) = 1 => q[a + 1] = z[1]
             /\ \A j \in 1 .. b : q[a + Len(z) + j] = v[j]
  <2>1. /\ Len(q) = a + Len(w) /\ Len(w) = Len(z) + b
        /\ \A i \in 1 .. a : q[i] = u[i]
        /\ \A i \in 1 .. Len(w) : q[a + i] = w[i]
        /\ \A i \in 1 .. Len(z) : w[i] = z[i]
        /\ \A j \in 1 .. b : w[Len(z) + j] = v[j]
    BY <1>3 DEF Joined
  <2>2. Len(z) = 1 => q[a + 1] = z[1]
    <3>1. Len(z) = 1 => 1 \in 1 .. Len(w) /\ 1 \in 1 .. Len(z)
      BY <1>2, <2>1
    <3> QED BY <2>1, <3>1
  <2>3. ASSUME NEW j \in 1 .. b PROVE q[a + Len(z) + j] = v[j]
    <3>1. Len(z) + j \in 1 .. Len(w) /\ a + (Len(z) + j) = a + Len(z) + j
      BY <1>2, <1>3, <2>1
    <3> QED BY <2>1, <3>1
  <2> QED BY <1>2, <1>3, <2>1, <2>2, <2>3
<1>4. /\ Len(s) = a + Len(x) + b
      /\ \A i \in 1 .. a : s[i] = u[i]
      /\ Len(x) = 1 => s[a + 1] = x[1]
      /\ \A j \in 1 .. b : s[a + Len(x) + j] = v[j]
  BY <1>1, <1>2, <1>3
<1>5. /\ Len(t) = a + Len(y) + b
      /\ \A i \in 1 .. a : t[i] = u[i]
      /\ Len(y) = 1 => t[a + 1] = y[1]
      /\ \A j \in 1 .. b : t[a + Len(y) + j] = v[j]
  BY <1>1, <1>2, <1>3
<1> DEFINE p == a + 1
<1>6. ASSUME NEW q, NEW r, Len(q) = a + 1 + b, Len(r) = a + b,
             \A i \in 1 .. a : q[i] = u[i] /\ r[i] = u[i],
             \A j \in 1 .. b : q[a + 1 + j] = v[j] /\ r[a + j] = v[j]
      PROVE  TakenOut(q, r, p)
  <2>1. p \in 1 .. Len(q) /\ Len(q) = Len(r) + 1
    BY <1>2, <1>6
  <2>2. \A i \in 1 .. p - 1 : r[i].key = q[i].key
    BY <1>2, <1>6
  <2>3. ASSUME NEW i \in p .. Len(r) PROVE r[i].key = q[i + 1].key
    <3>1. i - a \in 1 .. b /\ a + (i - a) = i /\ a + 1 + (i - a) = i + 1
      BY <1>2, <1>6
    <3>2. r[a + (i - a)] = v[i - a] /\ q[a + 1 + (i - a)] = v[i - a]
      BY <1>6, <3>1
    <3> QED BY <3>1, <3>2
  <2> QED BY <2>1, <2>2, <2>3 DEF TakenOut
<1>7. p \in Nat
  BY <1>2
<1>8. CASE Len(x) = Len(y)
  <2>1. ASSUME NEW i \in 1 .. Len(s) PROVE s[i].key = t[i].key
    <3>0. PICK a1, b1, d, l : a1 = a /\ b1 = b /\ d = Len(x) /\ l = Len(s)
      OBVIOUS
    <3> HIDE DEF a, b
    <3>5. a1 \in Nat /\ b1 \in Nat /\ d \in {0, 1} /\ l = a1 + d + b1 /\ i \in 1 .. l
      BY <1>2, <1>4, <3>0 DEF a, b
    <3>6. i \in 1 .. a1 \/ (d = 1 /\ i = a1 + 1) \/ i > a1 + d
      BY <3>5
    <3>7. i > a1 + d => \E j \in 1 .. b1 : j = i - (a1 + d) /\ a1 + d + j = i
      <4>1. i > a1 + d => i - (a1 + d) \in 1 .. b1 /\ a1 + d + (i - (a1 + d)) = i
        BY <3>5
      <4> QED BY <4>1
    <3>1. CASE i \in 1 .. a
      BY <1>4, <1>5, <3>1
    <3>2. CASE Len(x) = 1 /\ i = a + 1
      BY <1>1, <1>4, <1>5, <1>8, <3>2 DEF Alike
    <3>3. CASE i > a + Len(x)
      <4>1. PICK j \in 1 .. b : a + Len(x) + j = i
        BY <3>0, <3>3, <3>7
      <4>2. a + Len(y) + j = i
        BY <1>8, <4>1
      <4>3. s[a + Len(x) + j] = v[j] /\ t[a + Len(y) + j] = v[j]
        BY <1>4, <1>5
      <4> QED BY <4>1, <4>2, <4>3
    <3> QED BY <3>0, <3>1, <3>2, <3>3, <3>6
  <2> QED BY <1>4, <1>5, <1>8, <2>1 DEF SameKeys
<1>9. CASE Len(x) = 1 /\ Len(y) = 0
  <2>1. Len(s) = a + 1 + b /\ Len(t) = a + b
    BY <1>2, <1>4, <1>5, <1>9
  <2>2. \A j \in 1 .. b : s[a + 1 + j] = v[j] /\ t[a + j] = v[j]
    <3>1. \A j \in 1 .. b : a + Len(y) + j = a + j /\ a + Len(x) + j = a + 1 + j
      BY <1>2, <1>9
    <3> QED BY <1>4, <1>5, <3>1
  <2>3. TakenOut(s, t, p)
    BY <1>4, <1>5, <1>6, <2>1, <2>2
  <2> QED BY <1>7, <2>3
<1>10. CASE Len(x) = 0 /\ Len(y) = 1
  <2>1. Len(t) = a + 1 + b /\ Len(s) = a + b
    BY <1>2, <1>4, <1>5, <1>10
  <2>2. \A j \in 1 .. b : t[a + 1 + j] = v[j] /\ s[a + j] = v[j]
    <3>1. \A j \in 1 .. b : a + Len(x) + j = a + j /\ a + Len(y) + j = a + 1 + j
      BY <1>2, <1>10
    <3> QED BY <1>4, <1>5, <3>1
  <2>3. TakenOut(t, s, p)
    BY <1>4, <1>5, <1>6, <2>1, <2>2
  <2> QED BY <1>7, <2>3
<1> QED BY <1>2, <1>8, <1>9, <1>10

\* The keys up to a place in the list, and those beyond it.
Behind(s, c) == {s[n].key : n \in {m \in DOMAIN s : m <= c}}
Ahead(s, c) == {s[n].key : n \in {m \in DOMAIN s : m > c}}

\* What is behind a cursor, ahead of it and in the list.
LEMMA SidesAre ==
  ASSUME NEW S, NEW s \in Seq(S), NEW c \in Nat
  PROVE  /\ \A e : e \in Behind(s, c) <=> \E n \in 1 .. Len(s) : n <= c /\ s[n].key = e
         /\ \A e : e \in Ahead(s, c) <=> \E n \in 1 .. Len(s) : n > c /\ s[n].key = e
         /\ \A e : e \in ListedKeys(s) <=> \E n \in 1 .. Len(s) : s[n].key = e
<1>1. DOMAIN s = 1 .. Len(s)
  OBVIOUS
<1> QED BY <1>1 DEF Behind, Ahead, ListedKeys

\* Taking out an item moves at most one key back across a place; putting it in,
\* at most one forward.
LEMMA Shifts ==
  ASSUME NEW s \in Seq(Known), NEW t \in Seq(Known), NEW p \in Nat, TakenOut(s, t, p),
         \A a, b \in 1 .. Len(s) : s[a].key = s[b].key => a = b,
         NEW c \in Nat
  PROVE  \E k, x, y :
           /\ k \in ListedKeys(s) \ ListedKeys(t) /\ ListedKeys(t) \subseteq ListedKeys(s)
           /\ Behind(t, c) \subseteq Behind(s, c) \union {x} /\ Ahead(t, c) \subseteq Ahead(s, c)
           /\ Behind(s, c) \subseteq Behind(t, c) \union {k}
           /\ Ahead(s, c) \subseteq Ahead(t, c) \union {y}
<1> DEFINE k == s[p].key
           x == s[c + 1].key
           y == IF p <= c THEN s[c + 1].key ELSE s[p].key
<1>1. /\ p \in 1 .. Len(s) /\ Len(s) = Len(t) + 1 /\ Len(t) \in Nat
      /\ \A i \in 1 .. p - 1 : t[i].key = s[i].key
      /\ \A i \in p .. Len(t) : t[i].key = s[i + 1].key
  BY DEF TakenOut
<1>2. \A i \in 1 .. Len(t) : \/ i < p /\ t[i].key = s[i].key /\ i \in 1 .. Len(s)
                             \/ i >= p /\ t[i].key = s[i + 1].key /\ i + 1 \in 1 .. Len(s)
  <2>1. \A i \in 1 .. Len(t) : i \in 1 .. p - 1 \/ i \in p .. Len(t)
    BY <1>1
  <2> QED BY <1>1, <2>1
<1>3. \A i \in 1 .. Len(s) : \/ i < p /\ s[i].key = t[i].key /\ i \in 1 .. Len(t)
                             \/ i = p
                             \/ i > p /\ s[i].key = t[i - 1].key /\ i - 1 \in 1 .. Len(t)
  <2>1. \A i \in 1 .. Len(s) : \/ i < p /\ i \in 1 .. p - 1 /\ i \in 1 .. Len(t)
                               \/ i = p
                               \/ i > p /\ i - 1 \in p .. Len(t) /\ (i - 1) + 1 = i /\ i - 1 \in 1 .. Len(t)
    BY <1>1
  <2> QED BY <1>1, <2>1
<1>4. k \in ListedKeys(s)
  BY <1>1, SidesAre
<1>5. k \notin ListedKeys(t)
  <2>1. ASSUME NEW i \in 1 .. Len(t), t[i].key = k PROVE FALSE
    BY <1>1, <1>2, <2>1
  <2> QED BY <2>1, SidesAre
<1>6. ListedKeys(t) \subseteq ListedKeys(s)
  BY <1>2, SidesAre
<1>7. ASSUME NEW e \in Behind(t, c) PROVE e \in Behind(s, c) \union {x}
  <2>1. PICK i \in 1 .. Len(t) : i <= c /\ t[i].key = e
    BY SidesAre
  <2>2. CASE i < p /\ s[i].key = e /\ i \in 1 .. Len(s)
    BY <2>1, <2>2, SidesAre
  <2>3. CASE i >= p /\ s[i + 1].key = e /\ i + 1 \in 1 .. Len(s)
    <3>1. i + 1 <= c \/ i = c
      BY <2>1
    <3> QED BY <2>3, <3>1, SidesAre
  <2> QED BY <1>2, <2>1, <2>2, <2>3
<1>8. ASSUME NEW e \in Ahead(t, c) PROVE e \in Ahead(s, c)
  <2>1. PICK i \in 1 .. Len(t) : i > c /\ t[i].key = e
    BY SidesAre
  <2>2. i + 1 > c
    BY <2>1
  <2> QED BY <1>2, <2>1, <2>2, SidesAre
<1>9. ASSUME NEW e \in Behind(s, c) PROVE e \in Behind(t, c) \union {k}
  <2>1. PICK i \in 1 .. Len(s) : i <= c /\ s[i].key = e
    BY SidesAre
  <2>2. i - 1 <= c
    BY <2>1
  <2> QED BY <1>3, <2>1, <2>2, SidesAre
<1>10. ASSUME NEW e \in Ahead(s, c) PROVE e \in Ahead(t, c) \union {y}
  <2>1. PICK i \in 1 .. Len(s) : i > c /\ s[i].key = e
    BY SidesAre
  <2>2. CASE i < p /\ t[i].key = e /\ i \in 1 .. Len(t)
    BY <2>1, <2>2, SidesAre
  <2>3. CASE i = p
    <3>1. ~(p <= c) /\ e = s[p].key
      BY <2>1, <2>3
    <3> QED BY <3>1
  <2>4. CASE i > p /\ t[i - 1].key = e /\ i - 1 \in 1 .. Len(t)
    <3>1. CASE i - 1 > c
      BY <2>4, <3>1, SidesAre
    <3>2. CASE ~(i - 1 > c)
      <4>1. i = c + 1 /\ p <= c
        BY <2>1, <2>4, <3>2
      <4> QED BY <2>1, <4>1
    <3> QED BY <3>1, <3>2
  <2> QED BY <1>3, <2>1, <2>2, <2>3, <2>4
<1> HIDE DEF k, x, y
<1> QED BY <1>4, <1>5, <1>6, <1>7, <1>8, <1>9, <1>10

\* The image of a stretch of numbers.
LEMMA ImageCounted ==
  ASSUME NEW l \in Nat, NEW f, DOMAIN f = 1 .. l, NEW S, S = {f[n] : n \in 1 .. l}
  PROVE  IsFiniteSet(S) /\ ((\A a, b \in 1 .. l : f[a] = f[b] => a = b) => Cardinality(S) = l)
<1> DEFINE g == [n \in 1 .. l |-> f[n]]
<1>1. g \in [1 .. l -> S] /\ \A x \in S : \E n \in 1 .. l : g[n] = x
  OBVIOUS
<1>2. (\A a, b \in 1 .. l : f[a] = f[b] => a = b) => IsInjective(g)
  BY DEF IsInjective
<1> HIDE DEF g
<1>3. g \in Surjection(1 .. l, S)
  BY <1>1 DEF Surjection
<1>4. IsFiniteSet(1 .. l) /\ Cardinality(1 .. l) = l
  <2>1. IsFiniteSet(1 .. l) /\ Cardinality(1 .. l) = IF 1 > l THEN 0 ELSE l - 1 + 1
    BY FS_Interval
  <2> QED BY <2>1
<1>5. IsFiniteSet(S) /\ (g \in Injection(1 .. l, S) => Cardinality(S) = l)
  BY <1>3, <1>4, FS_Surjection
<1>6. IsInjective(g) => g \in Injection(1 .. l, S)
  BY <1>1 DEF Injection
<1> QED BY <1>2, <1>5, <1>6

\* Those sets are finite.
LEMMA SidesFinite ==
  ASSUME NEW S, NEW s \in Seq(S), NEW c \in Nat
  PROVE  /\ IsFiniteSet(ListedKeys(s)) /\ IsFiniteSet(Behind(s, c)) /\ IsFiniteSet(Ahead(s, c))
         /\ IsFiniteSet(ToSet(s))
<1>1. DOMAIN s = 1 .. Len(s) /\ Len(s) \in Nat
  OBVIOUS
<1>2. PICK f : f = [n \in 1 .. Len(s) |-> s[n].key]
  OBVIOUS
<1>3. ListedKeys(s) = {f[n] : n \in 1 .. Len(s)}
  BY <1>1, <1>2 DEF ListedKeys
<1>4. IsFiniteSet(ListedKeys(s))
  BY <1>1, <1>2, <1>3, ImageCounted
<1>5. Behind(s, c) \subseteq ListedKeys(s) /\ Ahead(s, c) \subseteq ListedKeys(s)
  BY SidesAre
<1>6. ToSet(s) = {s[n] : n \in 1 .. Len(s)}
  BY <1>1 DEF ToSet
<1>7. IsFiniteSet(ToSet(s))
  BY <1>1, <1>6, ImageCounted
<1> QED BY <1>4, <1>5, <1>7, FS_Subset

\* One element more makes a set larger by one at most.
LEMMA OneMore ==
  ASSUME NEW A, IsFiniteSet(A), NEW B, NEW x, B \subseteq A \union {x}
  PROVE  Cardinality(B) <= Cardinality(A) + 1 /\ Cardinality(A) \in Nat /\ Cardinality(B) \in Nat
<1>1. /\ IsFiniteSet(A \union {x})
      /\ Cardinality(A \union {x}) = IF x \in A THEN Cardinality(A) ELSE Cardinality(A) + 1
  BY FS_AddElement
<1>2. IsFiniteSet(B) /\ Cardinality(B) <= Cardinality(A \union {x})
  BY <1>1, FS_Subset
<1>3. Cardinality(A) \in Nat /\ Cardinality(B) \in Nat
  BY <1>2, FS_CardinalityType
<1> QED BY <1>1, <1>2, <1>3

\* A drain that has been opened.
DrainRecord ==
  [state : {"open", "done", "cut"}, source : Sources, caller : Callers, cursor : Nat,
   pages : Nat, got : Seq(STRING), removed : Nat, added : Nat, always : SUBSET STRING]

\* What a drain d of the list s has passed over, and what it will meet again.
Tallied(d, s) ==
  LET got == ToSet(d.got) IN
    /\ d.always \subseteq ListedKeys(s)
    /\ Cardinality((d.always \intersect Behind(s, d.cursor)) \ got) <= d.removed
    /\ Len(d.got) + Cardinality(Ahead(s, d.cursor) \intersect got) <= Cardinality(got) + d.added

\* Lists with the same keys have the same on both sides of a cursor.
LEMMA SameSides ==
  ASSUME NEW s \in Seq(Known), NEW t \in Seq(Known), SameKeys(s, t), NEW c \in Nat
  PROVE  /\ ListedKeys(s) = ListedKeys(t)
         /\ Behind(s, c) = Behind(t, c) /\ Ahead(s, c) = Ahead(t, c)
<1>1. Len(s) = Len(t) /\ \A n \in 1 .. Len(s) : s[n].key = t[n].key
  BY DEF SameKeys
<1>2. \A e : e \in ListedKeys(s) <=> e \in ListedKeys(t)
  BY <1>1, SidesAre
<1>3. \A e : e \in Behind(s, c) <=> e \in Behind(t, c)
  BY <1>1, SidesAre
<1>4. \A e : e \in Ahead(s, c) <=> e \in Ahead(t, c)
  BY <1>1, SidesAre
<1> QED BY <1>2, <1>3, <1>4

\* A change of the list in one place is on the drain's account.
LEMMA TalliedMoves ==
  ASSUME NEW d \in DrainRecord, NEW kind, NEW s, MapOf(kind, s), NEW kind2, NEW t, MapOf(kind2, t),
         Near(Known, s, t), Tallied(d, s),
         NEW new,
         new = [d EXCEPT !.always = @ \intersect ListedKeys(t),
                         !.removed = @ + Cardinality(ListedKeys(s) \ ListedKeys(t)),
                         !.added = @ + Cardinality(ListedKeys(t) \ ListedKeys(s))]
  PROVE  new \in DrainRecord /\ Tallied(new, t)
<1> DEFINE before == ListedKeys(s)
           after == ListedKeys(t)
           c == d.cursor
           got == ToSet(d.got)
<1>1. /\ s \in Seq(Known) /\ t \in Seq(Known)
      /\ \A a, b \in 1 .. Len(s) : s[a].key = s[b].key => a = b
      /\ \A a, b \in 1 .. Len(t) : t[a].key = t[b].key => a = b
  BY DEF MapOf
<1>2. /\ c \in Nat /\ d.removed \in Nat /\ d.added \in Nat /\ d.got \in Seq(STRING)
      /\ Len(d.got) \in Nat /\ d.always \subseteq STRING
  BY DEF DrainRecord
<1>3. /\ IsFiniteSet(before) /\ IsFiniteSet(after) /\ IsFiniteSet(got)
      /\ IsFiniteSet(Behind(s, c)) /\ IsFiniteSet(Ahead(s, c))
      /\ IsFiniteSet(Behind(t, c)) /\ IsFiniteSet(Ahead(t, c))
  BY <1>1, <1>2, SidesFinite
<1> DEFINE out == Cardinality(before \ after)
           in == Cardinality(after \ before)
           missed == (d.always \intersect Behind(s, c)) \ got
           missed2 == ((d.always \intersect after) \intersect Behind(t, c)) \ got
           repeats == Ahead(s, c) \intersect got
           repeats2 == Ahead(t, c) \intersect got
<1>4. IsFiniteSet(before \ after) /\ IsFiniteSet(after \ before)
  BY <1>3, FS_Difference
<1>5. out \in Nat /\ in \in Nat
  BY <1>4, FS_CardinalityType
<1>6. /\ new \in DrainRecord
      /\ new.always = d.always \intersect after /\ new.removed = d.removed + out
      /\ new.added = d.added + in /\ new.got = d.got /\ new.cursor = c
  <2>1. PICK a, o, i : /\ new = [d EXCEPT !.always = a, !.removed = o, !.added = i]
                       /\ a = d.always \intersect after /\ o = d.removed + out /\ i = d.added + in
    OBVIOUS
  <2>2. a \subseteq STRING /\ o \in Nat /\ i \in Nat
    <3> HIDE DEF out, in
    <3> QED BY <1>2, <1>5, <2>1
  <2>3. /\ new \in DrainRecord /\ new.always = a /\ new.removed = o /\ new.added = i
        /\ new.got = d.got /\ new.cursor = d.cursor
    BY <2>1, <2>2 DEF DrainRecord
  <2> QED BY <2>1, <2>3
<1>7. IsFiniteSet(missed) /\ IsFiniteSet(repeats)
  <2>1. missed \subseteq Behind(s, c) /\ repeats \subseteq Ahead(s, c)
    OBVIOUS
  <2> QED BY <1>3, <2>1, FS_Subset
<1>8. /\ d.always \subseteq before
      /\ Cardinality(missed) <= d.removed
      /\ Len(d.got) + Cardinality(repeats) <= Cardinality(got) + d.added
  BY DEF Tallied
<1>9. /\ Cardinality(missed) \in Nat /\ Cardinality(repeats) \in Nat /\ Cardinality(got) \in Nat
  BY <1>3, <1>7, FS_CardinalityType
<1>10. SUFFICES /\ Cardinality(missed2) <= d.removed + out
                /\ Len(d.got) + Cardinality(repeats2) <= Cardinality(got) + (d.added + in)
  <2>1. d.always \intersect after \subseteq after
    OBVIOUS
  <2> HIDE DEF out, in
  <2> QED BY <1>6, <2>1 DEF Tallied
<1>11. CASE SameKeys(s, t)
  <2>1. Behind(s, c) = Behind(t, c) /\ Ahead(s, c) = Ahead(t, c)
    BY <1>1, <1>2, <1>11, SameSides
  <2>2. missed2 \subseteq missed /\ repeats2 = repeats
    BY <2>1
  <2>3. Cardinality(missed2) <= Cardinality(missed) /\ Cardinality(missed2) \in Nat
    BY <1>7, <2>2, FS_Subset, FS_CardinalityType
  <2> HIDE DEF out, in, missed, missed2, repeats, repeats2, got, c, before, after
  <2> QED BY <1>2, <1>5, <1>8, <1>9, <2>2, <2>3
<1>12. ASSUME NEW p \in Nat, TakenOut(s, t, p)
       PROVE  /\ Cardinality(missed2) <= d.removed + out
              /\ Len(d.got) + Cardinality(repeats2) <= Cardinality(got) + (d.added + in)
  <2>1. PICK k, x : /\ k \in before \ after
                    /\ Behind(t, c) \subseteq Behind(s, c) \union {x} /\ Ahead(t, c) \subseteq Ahead(s, c)
    BY <1>1, <1>2, <1>12, Shifts
  <2>2. missed2 \subseteq missed \union {x} /\ repeats2 \subseteq repeats
    BY <2>1
  <2>3. out >= 1
    <3>1. before \ after # {}
      BY <2>1
    <3>2. out # 0
      BY <1>4, <3>1, FS_EmptySet
    <3> HIDE DEF out
    <3> QED BY <1>5, <3>2
  <2>4. Cardinality(missed2) <= Cardinality(missed) + 1 /\ Cardinality(missed2) \in Nat
    BY <1>7, <2>2, OneMore
  <2>5. Cardinality(repeats2) <= Cardinality(repeats) /\ Cardinality(repeats2) \in Nat
    BY <1>7, <2>2, FS_Subset, FS_CardinalityType
  <2> HIDE DEF out, in, missed, missed2, repeats, repeats2, got, c, before, after
  <2>6. Cardinality(missed2) <= d.removed + out
    BY <1>2, <1>5, <1>8, <1>9, <2>3, <2>4
  <2>7. Len(d.got) + Cardinality(repeats2) <= Cardinality(got) + (d.added + in)
    BY <1>2, <1>5, <1>8, <1>9, <2>3, <2>5
  <2> QED BY <2>6, <2>7
<1>13. ASSUME NEW p \in Nat, TakenOut(t, s, p)
       PROVE  /\ Cardinality(missed2) <= d.removed + out
              /\ Len(d.got) + Cardinality(repeats2) <= Cardinality(got) + (d.added + in)
  <2>1. PICK k, y : /\ k \in after \ before
                    /\ Behind(t, c) \subseteq Behind(s, c) \union {k}
                    /\ Ahead(t, c) \subseteq Ahead(s, c) \union {y}
    BY <1>1, <1>2, <1>13, Shifts
  <2>2. missed2 \subseteq missed /\ repeats2 \subseteq repeats \union {y}
    BY <1>8, <2>1
  <2>3. in >= 1
    <3>1. after \ before # {}
      BY <2>1
    <3>2. in # 0
      BY <1>4, <3>1, FS_EmptySet
    <3> HIDE DEF in
    <3> QED BY <1>5, <3>2
  <2>4. Cardinality(missed2) <= Cardinality(missed) /\ Cardinality(missed2) \in Nat
    BY <1>7, <2>2, FS_Subset, FS_CardinalityType
  <2>5. Cardinality(repeats2) <= Cardinality(repeats) + 1 /\ Cardinality(repeats2) \in Nat
    BY <1>7, <2>2, OneMore
  <2> HIDE DEF out, in, missed, missed2, repeats, repeats2, got, c, before, after
  <2>6. Cardinality(missed2) <= d.removed + out
    BY <1>2, <1>5, <1>8, <1>9, <2>3, <2>4
  <2>7. Len(d.got) + Cardinality(repeats2) <= Cardinality(got) + (d.added + in)
    <3>1. PICK len, one, two, all, sum, more :
            /\ len = Len(d.got) /\ one = Cardinality(repeats) /\ two = Cardinality(repeats2)
            /\ all = Cardinality(got) /\ sum = d.added /\ more = in
      OBVIOUS
    <3>2. /\ len \in Nat /\ one \in Nat /\ two \in Nat /\ all \in Nat /\ sum \in Nat
          /\ more \in Nat /\ more >= 1 /\ two <= one + 1 /\ len + one <= all + sum
      BY <1>2, <1>5, <1>8, <1>9, <2>3, <2>5, <3>1
    <3>3. len + two <= all + (sum + more)
      BY <3>2
    <3> QED BY <3>1, <3>3
  <2> QED BY <2>6, <2>7
<1> QED BY <1>1, <1>11, <1>12, <1>13, NearIs

\* The lesser of two numbers.
LEMMA MinTwo == \A a, b \in Nat : Min({a, b}) = IF a <= b THEN a ELSE b
<1> TAKE a, b \in Nat
<1>1. \A n \in {a, b} : (\A m \in {a, b} : n <= m) => n = IF a <= b THEN a ELSE b
  OBVIOUS
<1>2. \E n \in {a, b} : \A m \in {a, b} : n <= m
  OBVIOUS
<1> QED BY <1>1, <1>2 DEF Min

\* What a page adds to the drain (NextPage).
PageKeys(page) == [n \in DOMAIN page.items |-> page.items[n].key]

\* A page holds the keys beyond the cursor, up to its end.
LEMMA PageIs ==
  ASSUME NEW kind, NEW s, MapOf(kind, s), NEW c \in Nat,
         NEW page, page = Paginate(s, c, PageSize),
         NEW keys, keys = PageKeys(page)
  PROVE  /\ keys \in Seq(STRING) /\ IsFiniteSet(ToSet(keys)) /\ Cardinality(ToSet(keys)) = Len(keys)
         /\ ToSet(keys) \subseteq Ahead(s, c)
         /\ page.next # NoCursor =>
              /\ page.next \in Nat
              /\ Behind(s, page.next) \subseteq Behind(s, c) \union ToSet(keys)
              /\ Ahead(s, page.next) \subseteq Ahead(s, c) \ ToSet(keys)
         /\ page.next = NoCursor => ListedKeys(s) \subseteq Behind(s, c) \union ToSet(keys)
<1>1. /\ s \in Seq(Known) /\ DOMAIN s = 1 .. Len(s) /\ Len(s) \in Nat
      /\ \A a, b \in 1 .. Len(s) : s[a].key = s[b].key => a = b
      /\ \A n \in 1 .. Len(s) : s[n] \in Known
  BY DEF MapOf
<1>2. PageSize \in Nat \ {0}
  BY CatalogAssumption
<1> DEFINE far == c + PageSize
<1>3. PICK hi \in Nat : /\ hi = Min({far, Len(s)})
                        /\ hi = IF far <= Len(s) THEN far ELSE Len(s)
  <2>1. far \in Nat
    BY <1>2
  <2>2. Min({far, Len(s)}) = IF far <= Len(s) THEN far ELSE Len(s)
    BY <1>1, <2>1, MinTwo
  <2> QED BY <1>1, <2>1, <2>2
<1>4. PICK sub : sub = SubSeq(s, c + 1, hi)
  OBVIOUS
<1>5. page.items = sub /\ page.next = IF far < Len(s) THEN far ELSE NoCursor
  BY <1>3, <1>4 DEF Paginate
<1> DEFINE l == IF c + 1 <= hi THEN hi - c ELSE 0
<1>6. /\ sub \in Seq(Known) /\ Len(sub) = l /\ l \in Nat
      /\ \A i \in 1 .. l : sub[i] = s[c + i] /\ c + i \in 1 .. Len(s)
  <2>1. \A i \in c + 1 .. hi : s[i] \in Known
    BY <1>1, <1>3
  <2>2. c + 1 \in Int /\ hi \in Int
    BY <1>3
  <2>3. /\ sub \in Seq(Known)
        /\ Len(sub) = IF c + 1 <= hi THEN hi - (c + 1) + 1 ELSE 0
        /\ \A i \in 1 .. hi - (c + 1) + 1 : sub[i] = s[c + 1 + i - 1]
    BY <1>4, <2>1, <2>2, SubSeqProperties
  <2>4. \A i \in 1 .. l : i \in 1 .. hi - (c + 1) + 1 /\ c + 1 + i - 1 = c + i /\ c + i \in 1 .. Len(s)
    BY <1>1, <1>3
  <2>5. Len(sub) = l /\ l \in Nat
    BY <1>3, <2>3
  <2> QED BY <2>3, <2>4, <2>5
<1> HIDE DEF l
<1>7. keys = [n \in 1 .. l |-> sub[n].key]
  <2>1. DOMAIN sub = 1 .. l
    BY <1>6
  <2> QED BY <1>5, <2>1 DEF PageKeys
<1>7a. \A i \in 1 .. l : keys[i] = s[c + i].key
  BY <1>6, <1>7
<1>8. \A i \in 1 .. l : sub[i].key \in STRING
  BY <1>1, <1>6 DEF Known, Items
<1>9. keys \in Seq(STRING) /\ Len(keys) = l
  <2>1. l \in Nat
    BY <1>6
  <2> QED BY <1>7, <1>8, <2>1
<1>10. ToSet(keys) = {keys[i] : i \in 1 .. l}
  <2>1. DOMAIN keys = 1 .. l
    BY <1>7
  <2> QED BY <2>1 DEF ToSet
<1>11. IsFiniteSet(ToSet(keys)) /\ Cardinality(ToSet(keys)) = l
  <2>1. ASSUME NEW a \in 1 .. l, NEW b \in 1 .. l, keys[a] = keys[b] PROVE a = b
    <3>1. c + a \in 1 .. Len(s) /\ c + b \in 1 .. Len(s)
      BY <1>6
    <3>2. s[c + a].key = s[c + b].key
      BY <1>7a, <2>1
    <3>3. c + a = c + b
      BY <1>1, <3>1, <3>2
    <3>4. a \in Nat /\ b \in Nat
      BY <1>6
    <3> QED BY <3>3, <3>4
  <2>2. l \in Nat
    BY <1>6
  <2>3. PICK T : T = ToSet(keys)
    OBVIOUS
  <2>4. DOMAIN keys = 1 .. l /\ T = {keys[i] : i \in 1 .. l}
    BY <1>7, <1>10, <2>3
  <2>5. IsFiniteSet(T) /\ ((\A a, b \in 1 .. l : keys[a] = keys[b] => a = b) => Cardinality(T) = l)
    BY <2>2, <2>4, ImageCounted
  <2> QED BY <2>1, <2>3, <2>5
<1>12. \A e : e \in ToSet(keys) <=> \E n \in 1 .. Len(s) : n > c /\ n <= hi /\ s[n].key = e
  <2>1. ASSUME NEW e \in ToSet(keys) PROVE \E n \in 1 .. Len(s) : n > c /\ n <= hi /\ s[n].key = e
    <3>1. PICK i \in 1 .. l : e = s[c + i].key
      BY <1>7a, <1>10
    <3>2. c + i \in 1 .. Len(s) /\ c + i > c /\ c + i <= hi
      BY <1>3, <1>6 DEF l
    <3> QED BY <3>1, <3>2
  <2>2. ASSUME NEW n \in 1 .. Len(s), n > c, n <= hi PROVE s[n].key \in ToSet(keys)
    <3>1. n - c \in 1 .. l /\ c + (n - c) = n
      BY <1>3, <2>2 DEF l
    <3>2. keys[n - c] = s[n].key
      BY <1>7a, <3>1
    <3> QED BY <1>10, <3>1, <3>2
  <2> QED BY <2>1, <2>2
<1>13. ToSet(keys) \subseteq Ahead(s, c)
  BY <1>1, <1>12, SidesAre
<1>14. CASE page.next # NoCursor
  <2>0. far \in Nat /\ far > c /\ Len(s) \in Nat
    BY <1>1, <1>2
  <2>1. far < Len(s) /\ page.next = far /\ hi = far /\ far \in Nat /\ far > c
    <3> HIDE DEF far
    <3>1. far < Len(s) /\ page.next = far
      BY <1>5, <1>14
    <3> QED BY <1>3, <2>0, <3>1
  <2>2. ASSUME NEW e \in Behind(s, far) PROVE e \in Behind(s, c) \union ToSet(keys)
    <3>1. PICK n \in 1 .. Len(s) : n <= far /\ s[n].key = e
      BY <1>1, <2>1, SidesAre
    <3> QED BY <1>1, <1>12, <2>1, <3>1, SidesAre
  <2>3. ASSUME NEW e \in Ahead(s, far) PROVE e \in Ahead(s, c) \ ToSet(keys)
    <3>1. PICK n \in 1 .. Len(s) : n > far /\ s[n].key = e
      BY <1>1, <2>1, SidesAre
    <3>2. n > c /\ ~(n <= hi)
      BY <2>1, <3>1
    <3>3. e \in Ahead(s, c)
      BY <1>1, <3>1, <3>2, SidesAre
    <3>4. e \notin ToSet(keys)
      BY <1>1, <1>12, <3>1, <3>2
    <3> QED BY <3>3, <3>4
  <2> HIDE DEF far
  <2> QED BY <1>9, <1>11, <1>13, <1>14, <2>1, <2>2, <2>3
<1>15. CASE page.next = NoCursor
  <2>1. ~(far < Len(s)) /\ hi = Len(s)
    BY <1>1, <1>2, <1>3, <1>5, <1>15 DEF NoCursor
  <2>2. ASSUME NEW e \in ListedKeys(s) PROVE e \in Behind(s, c) \union ToSet(keys)
    <3>1. PICK n \in 1 .. Len(s) : s[n].key = e
      BY <1>1, SidesAre
    <3>2. n <= c \/ (n > c /\ n <= hi)
      BY <2>1
    <3> QED BY <1>1, <1>12, <3>1, <3>2, SidesAre
  <2> QED BY <1>9, <1>11, <1>13, <1>15, <2>2
<1> QED BY <1>14, <1>15

\* What two lists joined hold.
LEMMA ConcatIs ==
  ASSUME NEW a \in Seq(STRING), NEW b \in Seq(STRING)
  PROVE  /\ a \o b \in Seq(STRING) /\ Len(a \o b) = Len(a) + Len(b)
         /\ ToSet(a \o b) = ToSet(a) \union ToSet(b)
<1>1. PICK r : r = a \o b
  OBVIOUS
<1>2. /\ r \in Seq(STRING) /\ Len(r) = Len(a) + Len(b)
      /\ \A i \in 1 .. Len(a) + Len(b) : r[i] = IF i <= Len(a) THEN a[i] ELSE b[i - Len(a)]
  BY <1>1, ConcatProperties
<1>3. /\ DOMAIN a = 1 .. Len(a) /\ DOMAIN b = 1 .. Len(b) /\ DOMAIN r = 1 .. Len(r)
      /\ Len(a) \in Nat /\ Len(b) \in Nat
  BY <1>2
<1>4. \A e : e \in ToSet(r) <=> \E i \in 1 .. Len(r) : r[i] = e
  BY <1>3 DEF ToSet
<1>5. \A e : e \in ToSet(a) \union ToSet(b) <=>
               (\E i \in 1 .. Len(a) : a[i] = e) \/ (\E i \in 1 .. Len(b) : b[i] = e)
  BY <1>3 DEF ToSet
<1>6. ASSUME NEW i \in 1 .. Len(r)
      PROVE  (\E j \in 1 .. Len(a) : a[j] = r[i]) \/ (\E j \in 1 .. Len(b) : b[j] = r[i])
  <2>1. CASE i <= Len(a)
    <3>1. i \in 1 .. Len(a) /\ i \in 1 .. Len(a) + Len(b)
      BY <1>2, <1>3, <2>1
    <3> QED BY <1>2, <2>1, <3>1
  <2>2. CASE ~(i <= Len(a))
    <3>1. i - Len(a) \in 1 .. Len(b) /\ i \in 1 .. Len(a) + Len(b)
      BY <1>2, <1>3, <2>2
    <3> QED BY <1>2, <2>2, <3>1
  <2> QED BY <2>1, <2>2
<1>7. ASSUME NEW i \in 1 .. Len(a) PROVE \E j \in 1 .. Len(r) : r[j] = a[i]
  <2>1. i \in 1 .. Len(r) /\ i <= Len(a) /\ i \in 1 .. Len(a) + Len(b)
    BY <1>2, <1>3
  <2> QED BY <1>2, <2>1
<1>8. ASSUME NEW i \in 1 .. Len(b) PROVE \E j \in 1 .. Len(r) : r[j] = b[i]
  <2>1. /\ Len(a) + i \in 1 .. Len(r) /\ ~(Len(a) + i <= Len(a)) /\ Len(a) + i - Len(a) = i
        /\ Len(a) + i \in 1 .. Len(a) + Len(b)
    BY <1>2, <1>3
  <2>2. r[Len(a) + i] = b[i]
    BY <1>2, <2>1
  <2> QED BY <2>1, <2>2
<1>9. ToSet(r) = ToSet(a) \union ToSet(b)
  BY <1>4, <1>5, <1>6, <1>7, <1>8
<1> QED BY <1>1, <1>2, <1>9

\* What a page adds to the drain's account: nothing missed, and what it repeats had
\* been counted as met again.
LEMMA TalliedPages ==
  ASSUME NEW d \in DrainRecord, NEW kind, NEW s, MapOf(kind, s), Tallied(d, s),
         NEW page, page = Paginate(s, d.cursor, PageSize),
         NEW keys, keys = PageKeys(page),
         NEW new, new.always = d.always, new.removed = d.removed, new.added = d.added,
         new.got = d.got \o keys, new.cursor = page.next
  PROVE  /\ new.got \in Seq(STRING)
         /\ page.next # NoCursor => page.next \in Nat /\ Tallied(new, s)
         /\ page.next = NoCursor =>
              /\ Cardinality(new.always \ ToSet(new.got)) <= new.removed
              /\ Len(new.got) <= Cardinality(ToSet(new.got)) + new.added
<1> DEFINE got == ToSet(d.got)
           K == ToSet(keys)
<1>1. d.cursor \in Nat /\ d.got \in Seq(STRING) /\ d.removed \in Nat /\ d.added \in Nat
  BY DEF DrainRecord
<1>0. PICK c \in Nat : c = d.cursor
  BY <1>1
<1>2. s \in Seq(Known)
  BY DEF MapOf
<1>3. /\ keys \in Seq(STRING) /\ IsFiniteSet(K) /\ Cardinality(K) = Len(keys)
      /\ K \subseteq Ahead(s, c)
      /\ page.next # NoCursor =>
           /\ page.next \in Nat
           /\ Behind(s, page.next) \subseteq Behind(s, c) \union K
           /\ Ahead(s, page.next) \subseteq Ahead(s, c) \ K
      /\ page.next = NoCursor => ListedKeys(s) \subseteq Behind(s, c) \union K
  <2>1. page = Paginate(s, c, PageSize)
    BY <1>0
  <2> HIDE DEF K
  <2> QED BY <2>1, PageIs DEF K
<1>4. /\ IsFiniteSet(Behind(s, c)) /\ IsFiniteSet(Ahead(s, c))
  BY <1>1, <1>2, SidesFinite
<1>5. IsFiniteSet(got)
  BY <1>1, SidesFinite
<1>6. new.got \in Seq(STRING) /\ Len(new.got) = Len(d.got) + Len(keys) /\ ToSet(new.got) = got \union K
  <2> HIDE DEF K
  <2>1. PICK a \in Seq(STRING), b \in Seq(STRING) : a = d.got /\ b = keys
    BY <1>1, <1>3
  <2>2. a \o b \in Seq(STRING) /\ Len(a \o b) = Len(a) + Len(b) /\ ToSet(a \o b) = ToSet(a) \union ToSet(b)
    BY ConcatIs
  <2> QED BY <2>1, <2>2 DEF K
<1> DEFINE missed == (d.always \intersect Behind(s, c)) \ got
           repeats == Ahead(s, c) \intersect got
           again == got \intersect K
<1>7. /\ d.always \subseteq ListedKeys(s)
      /\ Cardinality(missed) <= d.removed
      /\ Len(d.got) + Cardinality(repeats) <= Cardinality(got) + d.added
  BY <1>0 DEF Tallied
<1>8. IsFiniteSet(missed) /\ IsFiniteSet(repeats) /\ IsFiniteSet(again)
  <2>1. missed \subseteq Behind(s, c) /\ repeats \subseteq Ahead(s, c) /\ again \subseteq got
    OBVIOUS
  <2> HIDE DEF missed, repeats, again, got, K
  <2> QED BY <1>4, <1>5, <2>1, FS_Subset
<1>9. PICK lg, lk, nm, nr, na, ng, nu \in Nat :
        /\ lg = Len(d.got) /\ lk = Len(keys) /\ nm = Cardinality(missed) /\ nr = Cardinality(repeats)
        /\ na = Cardinality(again) /\ ng = Cardinality(got) /\ nu = Cardinality(got \union K)
        /\ nu = ng + lk - na
  <2>1. /\ IsFiniteSet(got \union K)
        /\ Cardinality(got \union K) = Cardinality(got) + Cardinality(K) - Cardinality(again)
    BY <1>3, <1>5, FS_Union
  <2>2. /\ Cardinality(missed) \in Nat /\ Cardinality(repeats) \in Nat /\ Cardinality(again) \in Nat
        /\ Cardinality(got) \in Nat /\ Cardinality(got \union K) \in Nat
    BY <1>5, <1>8, <2>1, FS_CardinalityType
  <2>3. Len(d.got) \in Nat /\ Len(keys) \in Nat
    BY <1>1, <1>3
  <2> HIDE DEF missed, repeats, again, got, K
  <2> QED BY <1>3, <2>1, <2>2, <2>3
<1>10. again \subseteq repeats
  BY <1>3
<1>11. PICK rem, add \in Nat : rem = d.removed /\ add = d.added
  BY <1>1
<1>12. nm <= rem /\ lg + nr <= ng + add
  <2> HIDE DEF missed, repeats, again, got, K
  <2> QED BY <1>7, <1>9, <1>11
<1>13. CASE page.next # NoCursor
  <2> DEFINE missed2 == (new.always \intersect Behind(s, new.cursor)) \ ToSet(new.got)
             repeats2 == Ahead(s, new.cursor) \intersect ToSet(new.got)
  <2>1. missed2 \subseteq missed
    BY <1>3, <1>6, <1>13
  <2>2. repeats2 \subseteq repeats \ again
    BY <1>3, <1>6, <1>13
  <2>3. Cardinality(missed2) <= nm /\ Cardinality(missed2) \in Nat
    BY <1>8, <1>9, <2>1, FS_Subset, FS_CardinalityType
  <2>4. Cardinality(repeats2) <= nr - na /\ Cardinality(repeats2) \in Nat
    <3>1. repeats \intersect again = again
      BY <1>10
    <3> HIDE DEF missed, repeats, again, got, K, missed2, repeats2
    <3>0. /\ IsFiniteSet(repeats \ again)
          /\ Cardinality(repeats \ again) = Cardinality(repeats) - Cardinality(repeats \intersect again)
      BY <1>8, FS_Difference
    <3>2. IsFiniteSet(repeats \ again) /\ Cardinality(repeats \ again) = nr - na
      BY <1>9, <3>0, <3>1
    <3>3. IsFiniteSet(repeats2) /\ Cardinality(repeats2) <= Cardinality(repeats \ again)
      BY <2>2, <3>2, FS_Subset
    <3>4. Cardinality(repeats2) \in Nat
      BY <3>3, FS_CardinalityType
    <3> QED BY <3>2, <3>3, <3>4
  <2>5. PICK m2, r2 \in Nat : m2 = Cardinality(missed2) /\ r2 = Cardinality(repeats2)
    BY <2>3, <2>4
  <2>6. m2 <= rem /\ (lg + lk) + r2 <= nu + add
    <3>1. nu = ng + lk - na /\ m2 <= nm /\ r2 <= nr - na
      BY <1>9, <2>3, <2>4, <2>5
    <3> QED BY <1>12, <3>1
  <2>7. Cardinality(missed2) <= new.removed
    BY <1>11, <2>5, <2>6
  <2>8. Len(new.got) + Cardinality(repeats2) <= Cardinality(ToSet(new.got)) + new.added
    <3>1. Len(new.got) = lg + lk /\ Cardinality(ToSet(new.got)) = nu /\ new.added = add
      BY <1>6, <1>9, <1>11
    <3> QED BY <2>5, <2>6, <3>1
  <2>9. Tallied(new, s)
    BY <1>7, <2>7, <2>8 DEF Tallied
  <2> QED BY <1>3, <1>6, <1>13, <2>9
<1>14. CASE page.next = NoCursor
  <2> DEFINE left == new.always \ ToSet(new.got)
  <2>1. left \subseteq missed
    BY <1>3, <1>6, <1>7, <1>14
  <2>2. Cardinality(left) <= nm /\ Cardinality(left) \in Nat
    BY <1>8, <1>9, <2>1, FS_Subset, FS_CardinalityType
  <2>3. na <= nr
    BY <1>8, <1>9, <1>10, FS_Subset
  <2>4. lg + lk <= nu + add
    <3>1. nu = ng + lk - na
      BY <1>9
    <3> QED BY <1>12, <2>3, <3>1
  <2>5. PICK nl \in Nat : nl = Cardinality(left)
    BY <2>2
  <2>6. nl <= rem
    BY <1>12, <2>2, <2>5
  <2>7. Cardinality(left) <= new.removed
    BY <1>11, <2>5, <2>6
  <2>8. Len(new.got) = lg + lk /\ Cardinality(ToSet(new.got)) = nu /\ new.added = add
    BY <1>6, <1>9, <1>11
  <2> QED BY <1>6, <1>14, <2>4, <2>7, <2>8
<1> QED BY <1>13, <1>14

(***************************************************************************)
(* The drain of a listing                                                  *)
(***************************************************************************)
\* An open drain of a serving server has its account in balance with the list as it
\* is now, and one that has ended had it so.
DrainInv ==
  /\ drain.state # "idle" => phase \in {"up", "closed"}
  /\ drain.state = "open" =>
       /\ drain \in DrainRecord
       /\ Tallied(drain, Listed(registry, metaTools, drain.source, drain.caller))
  /\ DrainLosesLittle

\* The invariant of the drain holds at the start.
LEMMA DrainInit == SCInit => DrainInv
BY DEF SCInit, DrainInv, NoDrain, DrainLosesLittle

\* The registry changes in one place.
LEMMA DrainMoves ==
  ASSUME CatalogInv, DrainInv, NEW reg, Kept(reg),
         \A k \in ItemKinds : Near(Known, registry[k], reg[k]),
         registry' = reg, drain' = Watched(reg, metaTools), UNCHANGED <<options, phase, metaTools>>
  PROVE  DrainInv'
<1>1. CASE drain.state # "open"
  <2>1. drain' = drain
    BY <1>1 DEF Watched
  <2> QED BY <1>1, <2>1 DEF DrainInv, DrainLosesLittle
<1>2. CASE drain.state = "open"
  <2>1. /\ drain \in DrainRecord
        /\ Tallied(drain, Listed(registry, metaTools, drain.source, drain.caller))
        /\ phase \in {"up", "closed"}
    BY <1>2 DEF DrainInv
  <2>2. drain.source \in Sources /\ drain.caller \in Callers
    BY <2>1 DEF DrainRecord
  <2>3. PICK s, t : /\ s = Listed(registry, metaTools, drain.source, drain.caller)
                    /\ t = Listed(reg, metaTools, drain.source, drain.caller)
    OBVIOUS
  <2>4. Kept(registry)
    BY DEF CatalogInv, CatalogShape
  <2>5. (\E kind : MapOf(kind, s)) /\ (\E kind : MapOf(kind, t)) /\ Near(Known, s, t)
    BY <2>2, <2>3, <2>4, ListedMap, ListedNear
  <2>6. PICK new : new = [drain EXCEPT !.always = @ \intersect ListedKeys(t),
                            !.removed = @ + Cardinality(ListedKeys(s) \ ListedKeys(t)),
                            !.added = @ + Cardinality(ListedKeys(t) \ ListedKeys(s))]
    OBVIOUS
  <2>7. new \in DrainRecord /\ Tallied(new, t)
    BY <2>1, <2>3, <2>5, <2>6, TalliedMoves
  <2>8. drain' = new
    BY <1>2, <2>3, <2>6 DEF Watched
  <2>9. new.state = "open" /\ new.source = drain.source /\ new.caller = drain.caller
    BY <1>2, <2>1, <2>6 DEF DrainRecord
  <2>10. Listed(registry, metaTools, drain.source, drain.caller)' = t
    BY <2>3, <2>8, <2>9 DEF Listed, ListedTools, ListedOthers
  <2> QED BY <2>1, <2>7, <2>8, <2>9, <2>10 DEF DrainInv, DrainLosesLittle
<1> QED BY <1>1, <1>2

\* Every step of the server keeps the invariant of the drain.
LEMMA DrainNext == CatalogInv /\ DrainInv /\ [SCNext]_scVars => DrainInv'
<1> SUFFICES ASSUME CatalogInv, DrainInv, [SCNext]_scVars PROVE DrainInv'
  OBVIOUS
<1>1. ASSUME UNCHANGED drain, drain.state = "idle" PROVE DrainInv'
  BY <1>1 DEF DrainInv, DrainLosesLittle
<1>2. CASE Instantiate \/ Expose \/ Start \/ Connected
  <2>1. UNCHANGED drain /\ phase \in {"new", "scanned", "exposed", "starting"}
    BY <1>2 DEF Instantiate, Expose, Start, Connected
  <2> QED BY <1>1, <2>1 DEF DrainInv
<1>3. ASSUME UNCHANGED <<options, registry, metaTools, drain>>,
             UNCHANGED phase \/ phase' \in {"up", "closed"}
      PROVE  DrainInv'
  BY <1>3 DEF DrainInv, DrainLosesLittle, Listed, ListedTools, ListedOthers
<1>4. CASE Destroy \/ UNCHANGED scVars
  BY <1>3, <1>4 DEF Destroy, scVars
<1>5. Kept(registry) /\ \A k \in ItemKinds : registry[k] \in Seq(Known) /\ MapOf(k, registry[k])
  BY DEF CatalogInv, CatalogShape, Kept, MapOf
<1>6. ASSUME NEW item \in Dynamic, Register(item) PROVE DrainInv'
  <2>1. item \in Known /\ item.kind \in ItemKinds
    BY DynamicKnown DEF Known, Items
  <2>2. PICK reg : reg = Put(registry, item)
    OBVIOUS
  <2>3. Kept(reg)
    BY <1>5, <2>1, <2>2, PutKeeps
  <2>4. ASSUME NEW k \in ItemKinds PROVE Near(Known, registry[k], reg[k])
    <3>1. CASE k = item.kind
      <4>1. reg[k] = MapSet(registry[k], item)
        BY <1>5, <2>2, <3>1 DEF Put, Kept
      <4> QED BY <1>5, <2>1, <4>1, SetNear
    <3>2. CASE k # item.kind
      <4>1. reg[k] = registry[k]
        BY <1>5, <2>2, <3>2 DEF Put, Kept
      <4> QED BY <1>5, <4>1, SelfNear
    <3> QED BY <3>1, <3>2
  <2>5. registry' = reg /\ drain' = Watched(reg, metaTools) /\ UNCHANGED <<options, phase, metaTools>>
    BY <1>6, <2>2 DEF Register
  <2> QED BY <2>3, <2>4, <2>5, DrainMoves
<1>7. ASSUME NEW kind \in ItemKinds, NEW gone \in KeysOf(registry, kind), Unregister(kind, gone)
      PROVE  DrainInv'
  <2> DEFINE left == Without(registry[kind], {i \in ToSet(registry[kind]) : i.key = gone})
  <2>1. PICK reg : reg = [registry EXCEPT ![kind] = left]
    OBVIOUS
  <2>2. MapOf(kind, left) /\ Near(Known, registry[kind], left)
    BY <1>5, LeftIs, LeftNear
  <2>3. registry' = reg /\ drain' = Watched(reg, metaTools) /\ UNCHANGED <<options, phase, metaTools>>
    BY <1>7, <2>1 DEF Unregister
  <2> HIDE DEF left
  <2>4. \A k \in ItemKinds : reg[k] = IF k = kind THEN left ELSE registry[k]
    BY <1>5, <2>1 DEF Kept
  <2>5. Kept(reg)
    <3>1. DOMAIN reg = ItemKinds /\ reg = [k \in ItemKinds |-> reg[k]]
      BY <1>5, <2>1 DEF Kept
    <3> QED BY <1>5, <2>2, <2>4, <3>1 DEF Kept
  <2>6. \A k \in ItemKinds : Near(Known, registry[k], reg[k])
    BY <1>5, <2>2, <2>4, SelfNear
  <2> QED BY <2>3, <2>5, <2>6, DrainMoves
<1>8. ASSUME NEW source \in Sources, NEW caller \in Callers, Open(source, caller) PROVE DrainInv'
  <2>1. PICK s, kind : s = Listed(registry, metaTools, source, caller) /\ MapOf(kind, s)
    BY <1>5, ListedMap
  <2>2. PICK d : d = [state |-> "open", source |-> source, caller |-> caller, cursor |-> NoCursor,
                      pages |-> 0, got |-> <<>>, removed |-> 0, added |-> 0,
                      always |-> ListedKeys(s)]
    OBVIOUS
  <2>3. drain' = d /\ phase = "up" /\ UNCHANGED <<options, phase, registry, metaTools>>
    BY <1>8, <2>1, <2>2 DEF Open
  <2>4. s \in Seq(Known) /\ NoCursor \in Nat
    BY <2>1 DEF MapOf, NoCursor
  <2>5. ListedKeys(s) \subseteq STRING
    BY <2>4 DEF ListedKeys, Known, Items
  <2>6. d \in DrainRecord
    BY <2>2, <2>4, <2>5 DEF DrainRecord
  <2>7. Tallied(d, s)
    <3>1. ToSet(<<>>) = {} /\ Len(<<>>) = 0
      BY DEF ToSet
    <3>2. Behind(s, NoCursor) = {}
      BY <2>4, SidesAre DEF NoCursor
    <3>3. /\ (d.always \intersect Behind(s, d.cursor)) \ ToSet(d.got) = {}
          /\ Ahead(s, d.cursor) \intersect ToSet(d.got) = {}
          /\ d.got = <<>> /\ d.always = ListedKeys(s) /\ d.removed = 0 /\ d.added = 0
      BY <2>2, <3>1, <3>2
    <3>4. Cardinality({}) = 0
      BY FS_EmptySet
    <3>5. ToSet(d.got) = {} /\ Len(d.got) = 0
      BY <3>1, <3>3
    <3>6. d.always \subseteq ListedKeys(s)
      BY <3>3
    <3>7. Cardinality((d.always \intersect Behind(s, d.cursor)) \ ToSet(d.got)) <= d.removed
      <4>1. PICK X : X = (d.always \intersect Behind(s, d.cursor)) \ ToSet(d.got)
        OBVIOUS
      <4>2. Cardinality(X) = 0 /\ d.removed = 0
        BY <3>3, <3>4, <4>1
      <4> QED BY <4>1, <4>2
    <3>8. Len(d.got) + Cardinality(Ahead(s, d.cursor) \intersect ToSet(d.got))
            <= Cardinality(ToSet(d.got)) + d.added
      <4>1. PICK X, Y : X = Ahead(s, d.cursor) \intersect ToSet(d.got) /\ Y = ToSet(d.got)
        OBVIOUS
      <4>2. Cardinality(X) = 0 /\ Cardinality(Y) = 0 /\ d.added = 0
        BY <3>3, <3>4, <3>5, <4>1
      <4> QED BY <3>5, <4>1, <4>2
    <3> QED BY <3>6, <3>7, <3>8 DEF Tallied
  <2>8. Listed(registry, metaTools, drain.source, drain.caller)' = s
    BY <2>1, <2>2, <2>3 DEF Listed, ListedTools, ListedOthers
  <2>9. d.state = "open"
    BY <2>2
  <2> QED BY <2>3, <2>6, <2>7, <2>8, <2>9 DEF DrainInv, DrainLosesLittle
<1>9. CASE NextPage
  <2>1. /\ drain \in DrainRecord /\ phase = "up"
        /\ Tallied(drain, Listed(registry, metaTools, drain.source, drain.caller))
        /\ UNCHANGED <<options, phase, registry, metaTools>>
    BY <1>9 DEF DrainInv, NextPage
  <2>2. drain.source \in Sources /\ drain.caller \in Callers /\ drain.pages \in Nat
    BY <2>1 DEF DrainRecord
  <2>3. PICK s, kind : s = Listed(registry, metaTools, drain.source, drain.caller) /\ MapOf(kind, s)
    BY <1>5, <2>2, ListedMap
  <2>4. PICK page : page = Paginate(s, drain.cursor, PageSize)
    OBVIOUS
  <2>5. PICK keys : keys = PageKeys(page)
    OBVIOUS
  <2>6. PICK pages \in Nat, st \in {"open", "done", "cut"} :
          /\ pages = drain.pages + 1
          /\ st = IF page.next = NoCursor THEN "done" ELSE IF pages = MaxPages THEN "cut" ELSE "open"
    BY <2>2
  <2>7. PICK new : new = [drain EXCEPT !.got = @ \o keys, !.cursor = page.next, !.pages = pages, !.state = st]
    OBVIOUS
  <2>8. drain' = new
    BY <1>9, <2>3, <2>4, <2>5, <2>6, <2>7 DEF NextPage, PageKeys
  <2>9. /\ new.always = drain.always /\ new.removed = drain.removed /\ new.added = drain.added
        /\ new.got = drain.got \o keys /\ new.cursor = page.next /\ new.state = st
        /\ new.source = drain.source /\ new.caller = drain.caller
    BY <2>1, <2>7 DEF DrainRecord
  <2>10. /\ new.got \in Seq(STRING)
         /\ page.next # NoCursor => page.next \in Nat /\ Tallied(new, s)
         /\ page.next = NoCursor =>
              /\ Cardinality(new.always \ ToSet(new.got)) <= new.removed
              /\ Len(new.got) <= Cardinality(ToSet(new.got)) + new.added
    BY <2>1, <2>3, <2>4, <2>5, <2>9, TalliedPages
  <2>11. Listed(registry, metaTools, drain.source, drain.caller)' = s
    BY <2>1, <2>3, <2>8, <2>9 DEF Listed, ListedTools, ListedOthers
  <2>12. CASE page.next = NoCursor
    <3>1. st = "done"
      BY <2>6, <2>12
    <3> QED BY <2>1, <2>8, <2>9, <2>10, <2>12, <3>1 DEF DrainInv, DrainLosesLittle
  <2>13. CASE page.next # NoCursor
    <3>1. st # "done"
      BY <2>6, <2>13
    <3>2. new \in DrainRecord
      BY <2>1, <2>6, <2>7, <2>10, <2>13 DEF DrainRecord
    <3> QED BY <2>1, <2>8, <2>9, <2>10, <2>11, <2>13, <3>1, <3>2 DEF DrainInv, DrainLosesLittle
  <2> QED BY <2>12, <2>13
<1> QED BY <1>2, <1>4, <1>6, <1>7, <1>8, <1>9 DEF SCNext

\* A listing drained to its end misses at most one item for each that vanished from
\* it meanwhile, and repeats at most one for each that came (paginator, drainAllPages).
THEOREM DrainsLoseLittle == SCSpec => []DrainLosesLittle
<1>1. CatalogInv /\ DrainInv => DrainLosesLittle
  BY DEF DrainInv
<1> QED BY <1>1, CatalogInit, CatalogNext, DrainInit, DrainNext, PTL DEF SCSpec
====
