----------------------- MODULE StreamableSessionsProofs -----------------------
(***************************************************************************)
(* Proofs about StreamableSessions, for any sessions, principals, uris and *)
(* items: a transport is closed once, and a session stays with the         *)
(* principal that opened it, whatever requests, cleanups and registry      *)
(* events overlap.                                                         *)
(***************************************************************************)
EXTENDS StreamableSessions, SequenceTheorems, TLAPS

\* The binding is on record while the session can be found, and nobody was let
\* in before there was one.
Bound ==
  \A s \in Sessions :
    /\ phase[s] = "none" => admitted[s] = {}
    /\ phase[s] # "none" => owner[s] \in Principals
    /\ phase[s] = "live" => sessionAuth[s] = owner[s]

IInv == TypeOK /\ ClosedOnce /\ Bound /\ \A s \in Sessions : admitted[s] \subseteq {owner[s]}

-----------------------------------------------------------------------------
(* A sequence without repetitions, as the keys of a Map are. *)

LEMMA AppendedOnce ==
  ASSUME NEW S, NEW q \in Seq(S), IsInjective(q), NEW x \in S, x \notin ToSet(q)
  PROVE  /\ Append(q, x) \in Seq(S)
         /\ IsInjective(Append(q, x))
         /\ ToSet(Append(q, x)) = ToSet(q) \union {x}
<1> PICK r : r = Append(q, x)
  OBVIOUS
<1>1. /\ r \in Seq(S) /\ Len(r) = Len(q) + 1 /\ r[Len(q) + 1] = x
      /\ \A j \in 1..Len(q) : r[j] = q[j]
  BY AppendProperties
<1>2. \A a, b \in 1..Len(q) : q[a] = q[b] => a = b
  BY DEF IsInjective
<1>3. \A a \in 1..Len(q) : q[a] # x
  BY DEF ToSet
<1>4. IsInjective(r)
  BY <1>1, <1>2, <1>3 DEF IsInjective
<1>5. ToSet(r) = ToSet(q) \union {x}
  BY <1>1 DEF ToSet
<1> QED BY <1>1, <1>4, <1>5

\* Of two positions left none is left out but that of x.
LEMMA RemovedOnce ==
  ASSUME NEW S, NEW q \in Seq(S), IsInjective(q), NEW x
  PROVE  /\ RemoveFirst(q, x) \in Seq(S)
         /\ IsInjective(RemoveFirst(q, x))
         /\ ToSet(RemoveFirst(q, x)) = ToSet(q) \ {x}
<1>1. CASE ~\E i \in 1..Len(q) : q[i] = x
  BY <1>1 DEF RemoveFirst, ToSet
<1>2. CASE \E i \in 1..Len(q) : q[i] = x
  <2>1. PICK i \in 1..Len(q) : q[i] = x
    BY <1>2
  <2>2. SelectInSeq(q, LAMBDA v : v = x) = i
    <3>1. {n \in 1..Len(q) : q[n] = x} = {i}
      BY <2>1 DEF IsInjective
    <3> QED BY <3>1 DEF SelectInSeq, Min
  <2> DEFINE before == SubSeq(q, 1, i-1)
             after == SubSeq(q, i+1, Len(q))
  <2>3. RemoveFirst(q, x) = before \o after
    BY <2>1, <2>2 DEF RemoveFirst, RemoveAt
  <2>4. /\ before \in Seq(S) /\ Len(before) = i - 1
        /\ \A j \in 1..i-1 : before[j] = q[j]
    OBVIOUS
  <2>5. /\ after \in Seq(S) /\ Len(after) = Len(q) - i
        /\ \A j \in 1..Len(q)-i : after[j] = q[i + j]
    OBVIOUS
  <2> HIDE DEF before, after
  <2>6. PICK r : r = before \o after
    OBVIOUS
  <2>7. /\ r \in Seq(S) /\ Len(r) = Len(q) - 1
        /\ \A j \in 1..Len(q)-1 : r[j] = IF j < i THEN q[j] ELSE q[j+1]
    <3>1. /\ r \in Seq(S)
          /\ Len(r) = Len(before) + Len(after)
          /\ \A j \in 1..Len(before) + Len(after) :
               r[j] = IF j <= Len(before) THEN before[j] ELSE after[j - Len(before)]
      BY <2>4, <2>5, <2>6, ConcatProperties
    <3>2. ASSUME NEW j \in 1..Len(q)-1
          PROVE  r[j] = IF j < i THEN q[j] ELSE q[j+1]
      <4>0. /\ Len(q) \in Nat /\ i \in Nat
            /\ j \in 1..Len(before) + Len(after)
            /\ (j <= Len(before)) <=> j < i
        BY <2>4, <2>5
      <4>1. CASE j < i
        <5>1. r[j] = before[j]
          BY <4>0, <4>1, <3>1
        <5>2. j \in 1..i-1
          BY <4>0, <4>1
        <5> QED BY <4>1, <5>1, <5>2, <2>4
      <4>2. CASE ~(j < i)
        <5>1. r[j] = after[j - Len(before)]
          BY <4>0, <4>2, <3>1
        <5>2. /\ Len(before) = i - 1 /\ j - (i - 1) \in 1..Len(q)-i
              /\ i + (j - (i - 1)) = j + 1
          BY <4>0, <4>2, <2>4
        <5>3. after[j - (i - 1)] = q[i + (j - (i - 1))]
          BY <5>2, <2>5
        <5> QED BY <4>2, <5>1, <5>2, <5>3
      <4> QED BY <4>1, <4>2
    <3> QED BY <3>1, <3>2, <2>4, <2>5
  <2>8. IsInjective(r)
    <3>1. \A a, b \in 1..Len(q) : q[a] = q[b] => a = b
      BY DEF IsInjective
    <3>2. ASSUME NEW a \in 1..Len(q)-1, NEW b \in 1..Len(q)-1, r[a] = r[b], a < b
          PROVE  FALSE
      BY <3>1, <3>2, <2>7
    <3>3. \A a, b \in 1..Len(q)-1 : r[a] = r[b] => a = b
      BY <3>2
    <3> QED BY <3>3, <2>7 DEF IsInjective
  <2>9. ToSet(r) = ToSet(q) \ {x}
    <3>1. \A j \in 1..Len(r) : r[j] \in ToSet(q) \ {x}
      BY <2>1, <2>7 DEF IsInjective, ToSet
    <3>2. ASSUME NEW j \in 1..Len(q), q[j] # x PROVE q[j] \in ToSet(r)
      <4>1. CASE j < i
        BY <4>1, <2>7 DEF ToSet
      <4>2. CASE j > i
        <5>1. j - 1 \in 1..Len(q)-1 /\ r[j - 1] = q[j]
          BY <4>2, <2>7
        <5> QED BY <5>1, <2>7 DEF ToSet
      <4> QED BY <4>1, <4>2, <3>2, <2>1
    <3> QED BY <3>1, <3>2, <2>7 DEF ToSet
  <2> QED BY <2>3, <2>6, <2>7, <2>8, <2>9
<1> QED BY <1>1, <1>2

-----------------------------------------------------------------------------
(* Types, and what is closed. *)

Types ==
  /\ registry \subseteq Items
  /\ contexts \subseteq Sessions \union {Pending}
  /\ handles \in [Sessions -> SUBSET Items]
  /\ offered \in [Sessions -> SUBSET Items]
  /\ reading \in [Sessions -> Messages \union {NoMessage}]
  /\ destroying \in {"no", "looping", "done"}
  /\ awaited \subseteq Sessions
  /\ subs \subseteq [label : {Pending}, uri : Uris, server : Sessions]
  /\ asked \in [Sessions -> SUBSET Uris]

\* Where the session stands, in all that is kept about it.
Standing ==
  /\ phase \in [Sessions -> {"none", "initializing", "stray", "live",
                             "closingTransport", "closingServer", "closed"}]
  /\ servers \in Seq(Sessions) /\ IsInjective(servers)
  /\ ToSet(servers) = {s \in Sessions : phase[s] = "live"}
  /\ sessionAuth \in [Sessions -> Principals \union {Nobody}]
  /\ owner \in [Sessions -> Principals \union {Nobody}]
  /\ admitted \in [Sessions -> SUBSET Principals]
  /\ closes \in [Sessions -> Nat]
  /\ ClosedOnce
  /\ Bound
  /\ \A s \in Sessions : admitted[s] \subseteq {owner[s]}

LEMMA InTwoParts == IInv <=> Types /\ Standing
BY DEF IInv, TypeOK, Types, Standing

LEMMA InitKeeps == Init => IInv
<1> SUFFICES ASSUME Init PROVE Types /\ Standing
  BY InTwoParts
<1>1. Types
  BY DEF Init, Types
<1>2. IsInjective(<<>>) /\ ToSet(<<>>) = {} /\ <<>> \in Seq(Sessions)
  BY DEF IsInjective, ToSet
<1>3. Standing
  BY <1>2 DEF Init, Standing, ClosedOnce, Bound
<1> QED BY <1>1, <1>3

\* A session that can be found lets in the principal that opened it, only.
LEMMA AdmitsOwner ==
  ASSUME Standing, NEW s \in Sessions, NEW p \in Principals, Admits(s, p)
  PROVE  phase[s] = "live" /\ p = owner[s]
<1>1. phase[s] = "live"
  BY DEF Admits, Known, Standing
<1>2. sessionAuth[s] = owner[s] /\ owner[s] \in Principals
  BY <1>1 DEF Standing, Bound
<1> QED BY <1>1, <1>2, LabelsAssumption DEF Admits, BindingAdmits

\* cleanupSession takes a live session out of every map at once.
LEMMA CleanupKeeps ==
  ASSUME Types, Standing, NEW s \in Sessions, Cleanup(s), owner' = owner,
         \/ admitted' = admitted
         \/ \E p \in Principals : Admits(s, p) /\ admitted' = [admitted EXCEPT ![s] = @ \union {p}]
  PROVE  Standing' /\ subs' \subseteq subs /\ contexts' \subseteq contexts
         /\ handles' \in [Sessions -> SUBSET Items]
<1>1. /\ servers' \in Seq(Sessions) /\ IsInjective(servers')
      /\ ToSet(servers') = ToSet(servers) \ {s}
  BY RemovedOnce DEF Cleanup, Forget, Standing
<1>2. phase[s] = "live"
  BY DEF Cleanup, Known, Standing
<1>3. /\ phase' = [phase EXCEPT ![s] = "closingTransport"]
      /\ closes' = [closes EXCEPT ![s] = @ + 1]
      /\ sessionAuth' = [sessionAuth EXCEPT ![s] = Nobody]
      /\ subs' = {e \in subs : e.label # s}
      /\ contexts' = contexts \ {s}
      /\ handles' = [handles EXCEPT ![s] = {}]
  BY DEF Cleanup, Forget, RemoveSession
<1>4. ClosedOnce'
  BY <1>2, <1>3 DEF Standing, ClosedOnce
<1>5. /\ admitted' \in [Sessions -> SUBSET Principals]
      /\ \A t \in Sessions : admitted'[t] \subseteq {owner[t]}
      /\ \A t \in Sessions : t # s => admitted'[t] = admitted[t]
  <2>1. CASE admitted' = admitted
    BY <2>1 DEF Standing
  <2>2. ASSUME NEW p \in Principals, Admits(s, p),
               admitted' = [admitted EXCEPT ![s] = @ \union {p}]
        PROVE  /\ admitted' \in [Sessions -> SUBSET Principals]
               /\ \A t \in Sessions : admitted'[t] \subseteq {owner[t]}
               /\ \A t \in Sessions : t # s => admitted'[t] = admitted[t]
    BY <2>2, AdmitsOwner DEF Standing
  <2> QED BY <2>1, <2>2
<1>6. Bound'
  BY <1>2, <1>3, <1>5 DEF Standing, Bound
<1>7. /\ phase' \in [Sessions -> {"none", "initializing", "stray", "live",
                                   "closingTransport", "closingServer", "closed"}]
      /\ ToSet(servers') = {t \in Sessions : phase'[t] = "live"}
      /\ sessionAuth' \in [Sessions -> Principals \union {Nobody}]
      /\ closes' \in [Sessions -> Nat]
  BY <1>1, <1>2, <1>3 DEF Standing
<1>8. Standing'
  BY <1>1, <1>4, <1>5, <1>6, <1>7 DEF Standing
<1>9. handles' \in [Sessions -> SUBSET Items]
  BY <1>3 DEF Types
<1> QED BY <1>3, <1>8, <1>9

\* Types and standing are kept by every step.
LEMMA NextKeeps == Types /\ Standing /\ [Next]_vars => Types' /\ Standing'
<1> SUFFICES ASSUME Types, Standing, [Next]_vars PROVE Types' /\ Standing'
  OBVIOUS
<1>1. ASSUME NEW s \in Sessions, NEW p \in Principals, PostNew(s, p)
      PROVE  Types' /\ Standing'
  <2>1. Types'
    BY <1>1 DEF PostNew, Types, loop
  <2>2. ClosedOnce'
    BY <1>1 DEF PostNew, Standing, ClosedOnce
  <2>3. \A t \in Sessions : admitted'[t] \subseteq {owner'[t]}
    BY <1>1 DEF PostNew, Standing, Bound
  <2>4. Bound'
    BY <1>1 DEF PostNew, Standing, Bound
  <2> QED BY <1>1, <2>1, <2>2, <2>3, <2>4 DEF PostNew, Standing
<1>2. ASSUME NEW s \in Sessions, Initialized(s)
      PROVE  Types' /\ Standing'
  <2>1. Types'
    BY <1>2 DEF Initialized, Types, loop, history
  <2>2. s \notin ToSet(servers)
    BY <1>2 DEF Initialized, Standing
  <2>3. /\ servers' \in Seq(Sessions) /\ IsInjective(servers')
        /\ ToSet(servers') = ToSet(servers) \union {s}
    BY <1>2, <2>2, AppendedOnce DEF Initialized, Standing
  <2>4. ClosedOnce'
    BY <1>2 DEF Initialized, Standing, ClosedOnce, history
  <2>5. Bound'
    BY <1>2 DEF Initialized, Standing, Bound, history
  <2> QED BY <1>2, <2>1, <2>3, <2>4, <2>5 DEF Initialized, Standing, history
<1>3. ASSUME NEW s \in Sessions, NotInitialized(s)
      PROVE  Types' /\ Standing'
  <2>1. Types'
    BY <1>3 DEF NotInitialized, Types, loop, history, maps
  <2>2. ClosedOnce' /\ Bound'
    BY <1>3 DEF NotInitialized, Standing, ClosedOnce, Bound, history, maps
  <2> QED BY <1>3, <2>1, <2>2 DEF NotInitialized, Standing, history, maps
<1>4. ASSUME NEW s \in Sessions, NEW p \in Principals, Admits(s, p),
             admitted' = [admitted EXCEPT ![s] = @ \union {p}],
             UNCHANGED <<phase, maps, owner, closes>>
      PROVE  Standing'
  <2>1. phase[s] = "live" /\ p = owner[s]
    BY <1>4, AdmitsOwner
  <2>2. ClosedOnce' /\ Bound'
    BY <1>4, <2>1 DEF Standing, ClosedOnce, Bound, maps
  <2> QED BY <1>4, <2>1, <2>2 DEF Standing, maps
<1>5. ASSUME NEW s \in Sessions, NEW m \in Messages, NEW p \in Principals, Post(s, m, p)
      PROVE  Types' /\ Standing'
  BY <1>4, <1>5 DEF Post, Types, loop, maps
<1>6. ASSUME NEW s \in Sessions, NEW p \in Principals, Get(s, p)
      PROVE  Types' /\ Standing'
  BY <1>4, <1>6 DEF Get, Types, loop, maps
<1>7. ASSUME UNCHANGED <<phase, servers, sessionAuth, owner, admitted, closes>>
      PROVE  Standing'
  BY <1>7 DEF Standing, ClosedOnce, Bound
<1>8. ASSUME NEW s \in Sessions, Handle(s)
      PROVE  Types' /\ Standing'
  <2>1. reading[s] \in Messages /\ reading[s].uri \in Uris
    BY <1>8 DEF Handle, Types, Messages
  <2>2. subs' \subseteq [label : {Pending}, uri : Uris, server : Sessions]
    <3>1. subs' \subseteq subs \union {Entry(Pending, reading[s].uri, s)}
      BY <1>8 DEF Handle, Subscribe, Unsubscribe
    <3> QED BY <3>1, <2>1 DEF Types, Entry
  <2>3. asked' \in [Sessions -> SUBSET Uris]
    BY <1>8, <2>1 DEF Handle, Types
  <2> QED BY <1>7, <1>8, <2>2, <2>3 DEF Handle, Types, loop, maps
<1>9. ASSUME NEW i \in Items, Register(i) \/ Unregister(i)
      PROVE  Types' /\ Standing'
  <2>1. /\ offered' \in [Sessions -> SUBSET Items]
        /\ handles' \in [Sessions -> SUBSET Items]
        /\ registry' \subseteq Items
    BY <1>9 DEF Register, Unregister, Types
  <2>2. UNCHANGED <<phase, servers, contexts, sessionAuth, reading, loop, subs, history>>
    BY <1>9 DEF Register, Unregister
  <2> QED BY <1>7, <2>1, <2>2 DEF Types, loop, history
<1>10. ASSUME NEW s \in Sessions, TransportClosed(s)
       PROVE  Types' /\ Standing'
  <2>1. ~Known(s)
    BY <1>10 DEF TransportClosed, Known, Standing
  <2>2. Types'
    BY <1>10 DEF TransportClosed, Types, loop, maps
  <2>3. ClosedOnce' /\ Bound'
    BY <1>10, <2>1 DEF TransportClosed, Standing, ClosedOnce, Bound, maps
  <2> QED BY <1>10, <2>1, <2>2, <2>3 DEF TransportClosed, Standing, maps
<1>11. ASSUME NEW s \in Sessions, ServerClosed(s)
       PROVE  Types' /\ Standing'
  <2>1. Types'
    BY <1>11 DEF ServerClosed, Types, loop, history, maps
  <2>2. ClosedOnce' /\ Bound'
    BY <1>11 DEF ServerClosed, Standing, ClosedOnce, Bound, history, maps
  <2> QED BY <1>11, <2>1, <2>2 DEF ServerClosed, Standing, history, maps
<1>12. ASSUME NEW s \in Sessions, NEW p \in Principals, Delete(s, p)
       PROVE  Types' /\ Standing'
  <2>1. /\ Standing' /\ subs' \subseteq subs /\ contexts' \subseteq contexts
        /\ handles' \in [Sessions -> SUBSET Items]
    BY <1>12, CleanupKeeps DEF Delete
  <2> QED BY <1>12, <2>1 DEF Delete, Types, loop
<1>13. ASSUME NEW s \in Sessions, DestroyNext(s)
       PROVE  Types' /\ Standing'
  <2>1. /\ Standing' /\ subs' \subseteq subs /\ contexts' \subseteq contexts
        /\ handles' \in [Sessions -> SUBSET Items]
    BY <1>13, CleanupKeeps DEF DestroyNext
  <2> QED BY <1>13, <2>1 DEF DestroyNext, Types
<1>14. ASSUME \/ Destroy \/ Destroyed
              \/ \E s \in Sessions : DestroyContinues(s)
              \/ UNCHANGED vars
       PROVE  Types' /\ Standing'
  <2>1. UNCHANGED <<registry, phase, maps, offered, reading, subs, history>>
        /\ destroying' \in {"no", "looping", "done"} /\ awaited' \subseteq Sessions
    BY <1>14 DEF Destroy, Destroyed, DestroyContinues, vars, loop, Types
  <2> QED BY <1>7, <2>1 DEF Types, maps, history
<1> QED
  BY <1>1, <1>2, <1>3, <1>5, <1>6, <1>8, <1>9, <1>10, <1>11, <1>12, <1>13, <1>14
     DEF Next, CleanupStep, DestroyStep

-----------------------------------------------------------------------------
THEOREM Invariant == Spec => []IInv
<1>1. Init => IInv
  BY InitKeeps
<1>2. IInv /\ [Next]_vars => IInv'
  <2> SUFFICES ASSUME IInv, [Next]_vars PROVE IInv'
    OBVIOUS
  <2>1. Types /\ Standing
    BY InTwoParts
  <2>2. Types' /\ Standing'
    BY <2>1, NextKeeps
  <2> QED BY <2>2 DEF IInv, TypeOK, Types, Standing
<1> QED BY <1>1, <1>2, PTL DEF Spec

\* Whichever of DELETE, onclose and onModuleDestroy come to a session's cleanup,
\* in whatever order, its transport is closed once and no more.
THEOREM ClosesOnce == Spec => []ClosedOnce
<1>1. IInv => ClosedOnce
  BY DEF IInv
<1> QED BY <1>1, Invariant, PTL

\* Nobody but the principal that initialized a session gets a request through,
\* at any moment of the session's life.
THEOREM BindingKept == Spec => []BindingHolds
<1>1. IInv => BindingHolds
  BY DEF IInv, BindingHolds
<1> QED BY <1>1, Invariant, PTL
=============================================================================
