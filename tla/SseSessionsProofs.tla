--------------------------- MODULE SseSessionsProofs ---------------------------
(***************************************************************************)
(* Proofs about SseSessions, for any sessions, uris and items.  It         *)
(* implements UpdateFeed: the subscriptions and the links alone decide who *)
(* is sent what.  Its maps agree whatever cleanups overlap, and what a     *)
(* server offers can be told from the registry.                            *)
(***************************************************************************)
EXTENDS SseSessions, SequenceTheorems, TLAPS

\* What the mapping needs of the types.
FeedTyped ==
  /\ link \in [Sessions -> {"none", "open", "closed"}]
  /\ reading \in [Sessions -> Messages \union {NoMessage}]
  /\ received \in [Sessions -> SUBSET Uris]

\* The entries of a session carry its own label, so that removeSession finds them.
OwnLabels ==
  \A e \in subs : e.label \in Sessions /\ e.uri \in Uris
                  /\ e = Entry(e.label, e.uri, e.label)

\* Only a session that has connected can have asked for anything.
NothingBefore ==
  \A s \in Sessions : link[s] = "none" =>
    reading[s] = NoMessage /\ \A e \in subs : e.label # s

IInv == FeedTyped /\ OwnLabels /\ NothingBefore

OpenLinks == {s \in Sessions : link[s] = "open"}

Wants == [s \in Sessions |-> {u \in Uris : link[s] = "open" /\ s \in Subscribers(subs, u)}]

LEMMA InitKeeps == Init => IInv
BY DEF Init, IInv, FeedTyped, OwnLabels, NothingBefore

\* The POSTs the handlers can see.
LEMMA MessagesAre ==
  ASSUME NEW m \in Messages \union {NoMessage}, m # NoMessage
  PROVE  m.do \in {"subscribe", "unsubscribe"} /\ m.uri \in Uris
BY DEF Messages

\* Every way cleanupSession begins.
LEMMA BeginKeeps ==
  ASSUME IInv, NEW s \in Sessions, NEW c \in Causes, Begin(s, c),
         UNCHANGED <<reading, received>>
  PROVE  IInv'
<1>1. link' = [link EXCEPT ![s] = "closed"] /\ subs' = RemoveSession(subs, s)
  BY DEF Begin
<1> QED
  BY <1>1 DEF IInv, FeedTyped, OwnLabels, NothingBefore, RemoveSession

LEMMA NextKeeps == IInv /\ [Next]_vars => IInv'
<1> SUFFICES ASSUME IInv, [Next]_vars PROVE IInv'
  OBVIOUS
<1> USE DEF IInv, FeedTyped, OwnLabels, NothingBefore
<1>1. ASSUME NEW s \in Sessions, Connect(s) PROVE IInv'
  BY <1>1 DEF Connect
<1>2. ASSUME NEW s \in Sessions, Handle(s) PROVE IInv'
  <2>1. link[s] # "none" /\ link' = link /\ received' = received
        /\ reading' = [reading EXCEPT ![s] = NoMessage] /\ reading[s].uri \in Uris
    BY <1>2, MessagesAre DEF Handle
  <2>2. \A e \in subs' : e \in subs \/ e = Entry(s, reading[s].uri, s)
    BY <1>2 DEF Handle, Subscribe, Unsubscribe
  <2>3. OwnLabels'
    BY <2>1, <2>2 DEF Entry
  <2>4. FeedTyped'
    BY <2>1
  <2>5. NothingBefore'
    BY <2>1, <2>2 DEF Entry
  <2> QED
    BY <2>3, <2>4, <2>5
<1>3. ASSUME NEW s \in Sessions, CloseEvent(s) PROVE IInv'
  BY <1>3, BeginKeeps DEF CloseEvent, Causes
<1>4. ASSUME NEW s \in Sessions, DestroyNext(s) PROVE IInv'
  BY <1>4, BeginKeeps DEF DestroyNext, Causes
<1>5. ASSUME NEW s \in Sessions, NEW m \in Messages, Post(s, m) PROVE IInv'
  BY <1>5 DEF Post
<1>6. ASSUME NEW s \in Sessions, NEW c \in Causes, CleanupStep(s, c) PROVE IInv'
  BY <1>6 DEF CleanupStep, TransportClosed, ServerClosed
<1>7. ASSUME NEW u \in Uris, Notify(u) PROVE IInv'
  BY <1>7 DEF Notify
<1>8. ASSUME NEW i \in Items, Register(i) \/ Unregister(i) PROVE IInv'
  BY <1>8 DEF Register, Unregister
<1>9. CASE Destroy \/ Destroyed \/ UNCHANGED vars
  BY <1>9 DEF Destroy, Destroyed, vars
<1> QED
  BY <1>1, <1>2, <1>3, <1>4, <1>5, <1>6, <1>7, <1>8, <1>9 DEF Next

-----------------------------------------------------------------------------
(* The refinement. *)

LEMMA InitMaps == Init => Feed!Init
BY DEF Init, Feed!Init

\* A step that leaves links, subscriptions and streams alone is a stutter.
LEMMA Stutters ==
  ASSUME UNCHANGED <<link, subs, received>>
  PROVE  UNCHANGED Feed!vars
BY DEF Feed!vars

LEMMA BeginMaps ==
  ASSUME IInv, NEW s \in Sessions, NEW c \in Causes, Begin(s, c), received' = received
  PROVE  Feed!Next
<1>1. link' = [link EXCEPT ![s] = "closed"] /\ subs' = RemoveSession(subs, s)
  BY DEF Begin
<1>2. OpenLinks' = OpenLinks \ {s}
  BY <1>1 DEF IInv, FeedTyped, OpenLinks
<1>3. Wants' = [Wants EXCEPT ![s] = {}]
  <2>1. ASSUME NEW r \in Sessions, r # s, NEW u \in Uris
        PROVE  r \in Subscribers(subs, u)' <=> r \in Subscribers(subs, u)
    BY <1>1, <2>1 DEF Subscribers, RemoveSession, IInv, OwnLabels, Entry
  <2> QED
    BY <1>1, <2>1 DEF IInv, FeedTyped, Wants
<1>4. Feed!Closes(s)
  BY <1>2, <1>3 DEF Feed!Closes, OpenLinks, Wants
<1> QED
  BY <1>4 DEF Feed!Next

LEMMA NextMaps == IInv /\ [Next]_vars => [Feed!Next]_(Feed!vars)
<1> SUFFICES ASSUME IInv, [Next]_vars PROVE [Feed!Next]_(Feed!vars)
  OBVIOUS
<1>0. FeedTyped /\ OwnLabels /\ NothingBefore
  BY DEF IInv
<1>1. ASSUME NEW s \in Sessions, Connect(s) PROVE [Feed!Next]_(Feed!vars)
  <2>1. OpenLinks' = OpenLinks \union {s}
    BY <1>0, <1>1 DEF Connect, OpenLinks, FeedTyped
  <2>2. \A u \in Uris : s \notin Subscribers(subs, u)
    BY <1>0, <1>1 DEF Connect, NothingBefore, OwnLabels, Subscribers, Entry
  <2>3. Wants' = Wants
    BY <1>0, <1>1, <2>2 DEF Connect, Wants, FeedTyped
  <2>4. Feed!Opens(s)
    BY <1>1, <2>1, <2>3 DEF Connect, Feed!Opens, OpenLinks, Wants
  <2> QED
    BY <2>4 DEF Feed!Next
<1>2. ASSUME NEW s \in Sessions, Handle(s) PROVE [Feed!Next]_(Feed!vars)
  <2>0. PICK u \in Uris : u = reading[s].uri
    BY <1>0, <1>2, MessagesAre DEF Handle, FeedTyped
  <2>1. UNCHANGED <<link, received>> /\ OpenLinks' = OpenLinks
    BY <1>2 DEF Handle, OpenLinks
  <2>2. OwnLabels'
    BY NextKeeps DEF IInv
  <2>3. ASSUME NEW r \in Sessions, NEW v \in Uris, r # s \/ v # u
        PROVE  r \in Subscribers(subs', v) <=> r \in Subscribers(subs, v)
    <3>1. Entry(r, v, r) # Entry(s, u, s)
      BY <2>3 DEF Entry
    <3>2. Entry(r, v, r) \in subs' <=> Entry(r, v, r) \in subs
      BY <1>2, <2>0, <2>3, <3>1 DEF Handle, Subscribe, Unsubscribe, EntriesAt, Entry
    <3> QED
      BY <1>0, <2>2, <3>2 DEF OwnLabels, Subscribers, Entry
  <2>4. s \in Subscribers(subs', u) <=> reading[s].do = "subscribe"
    <3>1. CASE reading[s].do = "subscribe"
      <4>1. Entry(s, u, s) \in subs'
        BY <1>2, <2>0, <3>1 DEF Handle, Subscribe
      <4> QED
        BY <3>1, <4>1 DEF Subscribers, Entry
    <3>2. CASE reading[s].do # "subscribe"
      <4>1. subs' = subs \ EntriesAt(subs, s, u)
        BY <1>2, <2>0, <3>2 DEF Handle, Unsubscribe
      <4> QED
        BY <1>0, <3>2, <4>1 DEF EntriesAt, Subscribers, OwnLabels, Entry
    <3> QED
      BY <3>1, <3>2
  <2>5. CASE link[s] # "open"
    <3>1. Wants' = Wants
      BY <2>1, <2>3, <2>5 DEF Wants
    <3> QED
      BY <2>1, <3>1 DEF Feed!vars, OpenLinks, Wants
  <2>6. CASE link[s] = "open" /\ reading[s].do = "subscribe"
    <3>1. Wants' = [Wants EXCEPT ![s] = @ \union {u}]
      BY <2>1, <2>3, <2>4, <2>6 DEF Wants
    <3>2. Feed!Asks(s, u)
      BY <2>1, <2>6, <3>1 DEF Feed!Asks, OpenLinks, Wants
    <3> QED
      BY <3>2 DEF Feed!Next
  <2>7. CASE link[s] = "open" /\ reading[s].do # "subscribe"
    <3>1. Wants' = [Wants EXCEPT ![s] = @ \ {u}]
      <4>1. {v \in Uris : link'[s] = "open" /\ s \in Subscribers(subs', v)}
              = {v \in Uris : link[s] = "open" /\ s \in Subscribers(subs, v)} \ {u}
        BY <2>1, <2>3, <2>4, <2>7
      <4>2. ASSUME NEW r \in Sessions, r # s
            PROVE  {v \in Uris : link'[r] = "open" /\ r \in Subscribers(subs', v)}
                     = {v \in Uris : link[r] = "open" /\ r \in Subscribers(subs, v)}
        BY <2>1, <2>3, <4>2
      <4> QED
        BY <4>1, <4>2 DEF Wants
    <3>2. Feed!Withdraws(s, u)
      BY <2>1, <2>7, <3>1 DEF Feed!Withdraws, OpenLinks, Wants
    <3> QED
      BY <3>2 DEF Feed!Next
  <2> QED
    BY <2>5, <2>6, <2>7
<1>3. ASSUME NEW s \in Sessions, CloseEvent(s) \/ DestroyNext(s)
      PROVE  [Feed!Next]_(Feed!vars)
  BY <1>3, BeginMaps DEF CloseEvent, DestroyNext, Causes
<1>4. ASSUME NEW s \in Sessions, NEW m \in Messages, Post(s, m)
      PROVE  [Feed!Next]_(Feed!vars)
  BY <1>4, Stutters DEF Post
<1>5. ASSUME NEW s \in Sessions, NEW c \in Causes, CleanupStep(s, c)
      PROVE  [Feed!Next]_(Feed!vars)
  BY <1>5, Stutters DEF CleanupStep, TransportClosed, ServerClosed
<1>6. ASSUME NEW u \in Uris, Notify(u) PROVE [Feed!Next]_(Feed!vars)
  <2>1. received' = [s \in Sessions |->
                       IF u \in Wants[s] THEN received[s] \union {u} ELSE received[s]]
    BY <1>6 DEF Notify, Reachable, Wants
  <2>2. Feed!Updated(u)
    BY <1>6, <2>1 DEF Notify, Feed!Updated, Wants
  <2> QED
    BY <2>2 DEF Feed!Next
<1>7. ASSUME NEW i \in Items, Register(i) \/ Unregister(i)
      PROVE  [Feed!Next]_(Feed!vars)
  BY <1>7, Stutters DEF Register, Unregister
<1>8. CASE Destroy \/ Destroyed \/ UNCHANGED vars
  BY <1>8, Stutters DEF Destroy, Destroyed, vars
<1> QED
  BY <1>1, <1>2, <1>3, <1>4, <1>5, <1>6, <1>7, <1>8 DEF Next

\* The SSE service keeps the promise of resource subscriptions: an update reaches
\* every open session that is subscribed to it, no other, and none after its
\* stream has closed, however late its messages are handled
\* (ResourceSubscriptionManager, SseService.cleanupSession).
THEOREM FeedKept == Spec => KeepsFeed
BY InitKeeps, NextKeeps, InitMaps, NextMaps, PTL DEF Spec, KeepsFeed, Feed!Spec

-----------------------------------------------------------------------------
(* The maps.                                                               *)
(* First, a sequence without repetitions, as the keys of a Map are (the    *)
(* same lemmas as in StreamableSessionsProofs).                            *)

LEMMA AppendedOnce ==
  ASSUME NEW S, NEW q \in Seq(S), IsInjective(q), NEW x \in S, x \notin ToSet(q)
  PROVE  /\ Append(q, x) \in Seq(S)
         /\ IsInjective(Append(q, x))
         /\ ToSet(Append(q, x)) = ToSet(q) \union {x}
<1> PICK r : r = Append(q, x)
  OBVIOUS
<1>1. /\ r \in Seq(S) /\ Len(r) = Len(q) + 1 /\ r[Len(q) + 1] = x
      /\ \A j \in 1..Len(q) : r[j] = q[j]
  BY AppendProperties
<1>2. \A a, b \in 1..Len(q) : q[a] = q[b] => a = b
  BY DEF IsInjective
<1>3. \A a \in 1..Len(q) : q[a] # x
  BY DEF ToSet
<1>4. IsInjective(r)
  BY <1>1, <1>2, <1>3 DEF IsInjective
<1>5. ToSet(r) = ToSet(q) \union {x}
  BY <1>1 DEF ToSet
<1> QED BY <1>1, <1>4, <1>5

\* Of two positions left none is left out but that of x.
LEMMA RemovedOnce ==
  ASSUME NEW S, NEW q \in Seq(S), IsInjective(q), NEW x
  PROVE  /\ RemoveFirst(q, x) \in Seq(S)
         /\ IsInjective(RemoveFirst(q, x))
         /\ ToSet(RemoveFirst(q, x)) = ToSet(q) \ {x}
<1>1. CASE ~\E i \in 1..Len(q) : q[i] = x
  BY <1>1 DEF RemoveFirst, ToSet
<1>2. CASE \E i \in 1..Len(q) : q[i] = x
  <2>1. PICK i \in 1..Len(q) : q[i] = x
    BY <1>2
  <2>2. SelectInSeq(q, LAMBDA v : v = x) = i
    <3>1. {n \in 1..Len(q) : q[n] = x} = {i}
      BY <2>1 DEF IsInjective
    <3> QED BY <3>1 DEF SelectInSeq, Min
  <2> DEFINE before == SubSeq(q, 1, i-1)
             after == SubSeq(q, i+1, Len(q))
  <2>3. RemoveFirst(q, x) = before \o after
    BY <2>1, <2>2 DEF RemoveFirst, RemoveAt
  <2>4. /\ before \in Seq(S) /\ Len(before) = i - 1
        /\ \A j \in 1..i-1 : before[j] = q[j]
    OBVIOUS
  <2>5. /\ after \in Seq(S) /\ Len(after) = Len(q) - i
        /\ \A j \in 1..Len(q)-i : after[j] = q[i + j]
    OBVIOUS
  <2> HIDE DEF before, after
  <2>6. PICK r : r = before \o after
    OBVIOUS
  <2>7. /\ r \in Seq(S) /\ Len(r) = Len(q) - 1
        /\ \A j \in 1..Len(q)-1 : r[j] = IF j < i THEN q[j] ELSE q[j+1]
    <3>1. /\ r \in Seq(S)
          /\ Len(r) = Len(before) + Len(after)
          /\ \A j \in 1..Len(before) + Len(after) :
               r[j] = IF j <= Len(before) THEN before[j] ELSE after[j - Len(before)]
      BY <2>4, <2>5, <2>6, ConcatProperties
    <3>2. ASSUME NEW j \in 1..Len(q)-1
          PROVE  r[j] = IF j < i THEN q[j] ELSE q[j+1]
      <4>0. /\ Len(q) \in Nat /\ i \in Nat
            /\ j \in 1..Len(before) + Len(after)
            /\ (j <= Len(before)) <=> j < i
        BY <2>4, <2>5
      <4>1. CASE j < i
        <5>1. r[j] = before[j]
          BY <4>0, <4>1, <3>1
        <5>2. j \in 1..i-1
          BY <4>0, <4>1
        <5> QED BY <4>1, <5>1, <5>2, <2>4
      <4>2. CASE ~(j < i)
        <5>1. r[j] = after[j - Len(before)]
          BY <4>0, <4>2, <3>1
        <5>2. /\ Len(before) = i - 1 /\ j - (i - 1) \in 1..Len(q)-i
              /\ i + (j - (i - 1)) = j + 1
          BY <4>0, <4>2, <2>4
        <5>3. after[j - (i - 1)] = q[i + (j - (i - 1))]
          BY <5>2, <2>5
        <5> QED BY <4>2, <5>1, <5>2, <5>3
      <4> QED BY <4>1, <4>2
    <3> QED BY <3>1, <3>2, <2>4, <2>5
  <2>8. IsInjective(r)
    <3>1. \A a, b \in 1..Len(q) : q[a] = q[b] => a = b
      BY DEF IsInjective
    <3>2. ASSUME NEW a \in 1..Len(q)-1, NEW b \in 1..Len(q)-1, r[a] = r[b], a < b
          PROVE  FALSE
      BY <3>1, <3>2, <2>7
    <3>3. \A a, b \in 1..Len(q)-1 : r[a] = r[b] => a = b
      BY <3>2
    <3> QED BY <3>3, <2>7 DEF IsInjective
  <2>9. ToSet(r) = ToSet(q) \ {x}
    <3>1. \A j \in 1..Len(r) : r[j] \in ToSet(q) \ {x}
      BY <2>1, <2>7 DEF IsInjective, ToSet
    <3>2. ASSUME NEW j \in 1..Len(q), q[j] # x PROVE q[j] \in ToSet(r)
      <4>1. CASE j < i
        BY <4>1, <2>7 DEF ToSet
      <4>2. CASE j > i
        <5>1. j - 1 \in 1..Len(q)-1 /\ r[j - 1] = q[j]
          BY <4>2, <2>7
        <5> QED BY <5>1, <2>7 DEF ToSet
      <4> QED BY <4>1, <4>2, <3>2, <2>1
    <3> QED BY <3>1, <3>2, <2>7 DEF ToSet
  <2> QED BY <2>3, <2>6, <2>7, <2>8, <2>9
<1> QED BY <1>1, <1>2


\* What the five maps hold, and how far each cleanup has come: one that waits
\* for the server, or is done, has left no transport, and none began before the
\* session did.
Tracked ==
  /\ link \in [Sessions -> {"none", "open", "closed"}]
  /\ servers \in Seq(Sessions) /\ IsInjective(servers)
  /\ ToSet(servers) = contexts
  /\ contexts \subseteq Sessions
  /\ transports \subseteq contexts
  /\ handles \in [Sessions -> SUBSET Items]
  /\ \A s \in Sessions : s \notin contexts => handles[s] = {}
  /\ pings = {s \in Sessions : link[s] = "open"}
  /\ cleaning \in [Sessions -> [Causes -> {"idle", "transport", "server", "done"}]]
  /\ \A s \in Sessions, c \in Causes :
       /\ cleaning[s][c] \in {"server", "done"} => s \notin transports
       /\ cleaning[s][c] = "done" => s \notin contexts
       /\ link[s] = "none" => cleaning[s][c] = "idle" /\ s \notin contexts

\* While the listeners are attached, a tracked server offers what it started
\* with and what it has a handle for, and each item with a handle is registered.
Explained ==
  /\ registry \subseteq Items
  /\ offered \in [Sessions -> SUBSET Items]
  /\ atConnect \in [Sessions -> SUBSET Items]
  /\ destroying \in {"no", "looping", "done"}
  /\ \A s \in Sessions : link[s] = "none" => atConnect[s] = {}
  /\ Listening => \A t \in contexts :
       /\ offered[t] \subseteq atConnect[t] \union handles[t]
       /\ handles[t] \subseteq registry
       /\ \A i \in registry \ offered[t] :
            \E s \in Sessions \ {t} : i \in atConnect[s]

MInv == Tracked /\ Explained

LEMMA MapsInit == Init => MInv
<1> SUFFICES ASSUME Init PROVE MInv
  OBVIOUS
<1>1. IsInjective(<<>>) /\ ToSet(<<>>) = {} /\ <<>> \in Seq(Sessions)
  BY DEF IsInjective, ToSet
<1>2. Tracked
  BY <1>1 DEF Init, Tracked
<1>3. Explained
  BY DEF Init, Explained
<1> QED BY <1>2, <1>3 DEF MInv

\* cleanupSession up to its first await.
LEMMA BeginTracks ==
  ASSUME MInv, NEW s \in Sessions, NEW c \in Causes, link[s] # "none", Begin(s, c),
         UNCHANGED <<registry, transports, servers, offered, destroying, atConnect>>
  PROVE  MInv'
<1> USE DEF MInv
<1>0. /\ link' = [link EXCEPT ![s] = "closed"] /\ pings' = pings \ {s}
      /\ \/ UNCHANGED <<contexts, handles>>
         \/ s \notin ToSet(servers) /\ Forget(s)
  BY DEF Begin
<1>1. /\ handles' \in [Sessions -> SUBSET Items]
      /\ contexts' = contexts
      /\ \A t \in contexts : handles'[t] = handles[t]
      /\ \A t \in Sessions : t \notin contexts => handles'[t] = {}
  <2>1. CASE UNCHANGED <<contexts, handles>>
    BY <2>1 DEF Tracked
  <2>2. CASE s \notin ToSet(servers) /\ Forget(s)
    BY <2>2 DEF Forget, Tracked
  <2> QED BY <1>0, <2>1, <2>2
<1>2. \E k \in {"transport", "server", "done"} :
        /\ cleaning' = [cleaning EXCEPT ![s][c] = k]
        /\ k \in {"server", "done"} => s \notin transports
        /\ k = "done" => s \notin contexts
  BY DEF Begin, Tracked
<1>3. \A t \in Sessions, d \in Causes :
        /\ cleaning'[t][d] \in {"server", "done"} => t \notin transports
        /\ cleaning'[t][d] = "done" => t \notin contexts
        /\ t # s => cleaning'[t][d] = cleaning[t][d]
  BY <1>2 DEF Tracked
<1>4. cleaning' \in [Sessions -> [Causes -> {"idle", "transport", "server", "done"}]]
  BY <1>2 DEF Tracked
<1>5. Tracked'
  <2>1. link' \in [Sessions -> {"none", "open", "closed"}]
        /\ pings' = {t \in Sessions : link'[t] = "open"}
        /\ \A t \in Sessions : link'[t] = "none" => t # s /\ link[t] = "none"
    BY <1>0 DEF Tracked
  <2>2. \A t \in Sessions, d \in Causes :
          link'[t] = "none" => cleaning'[t][d] = "idle" /\ t \notin contexts
    BY <1>3, <2>1 DEF Tracked
  <2> QED BY <1>1, <1>3, <1>4, <2>1, <2>2 DEF Tracked
<1>6. Explained'
  BY <1>0, <1>1 DEF Explained, Listening, Tracked
<1> QED BY <1>5, <1>6

\* A registration that passes a tracked server by was stopped by one before it.
LEMMA PassedBy ==
  ASSUME Tracked, NEW i \in Items, NEW t \in contexts, t \notin Reached(i), i \notin offered[t]
  PROVE  \E s \in contexts \ {t} : i \in offered[s]
<1>1. PICK k \in DOMAIN servers : servers[k] = t
  BY DEF Tracked, ToSet
<1>2. PICK m \in 1..k : Conflicts(servers[m], i)
  BY <1>1 DEF Reached
<1> QED BY <1>2 DEF Conflicts

LEMMA RegisterTracks ==
  ASSUME MInv, NEW i \in Items, Register(i) \/ Unregister(i)
  PROVE  MInv'
<1> USE DEF MInv
<1>0. UNCHANGED <<transports, servers, contexts, pings, link, cleaning, destroying, atConnect>>
  BY DEF Register, Unregister, maps
<1>1. CASE Register(i)
  <2> DEFINE reached == IF Listening THEN Reached(i) ELSE {}
  <2>1. reached \subseteq contexts
    BY DEF Reached
  <2>2. /\ registry' = registry \union {i}
        /\ offered' = [t \in Sessions |->
                         IF t \in reached THEN offered[t] \union {i} ELSE offered[t]]
        /\ handles' = [t \in Sessions |->
                         IF t \in reached THEN handles[t] \union {i} ELSE handles[t]]
    BY <1>1 DEF Register, KeepHandle
  <2>3. Listening => \A t \in contexts : t \in reached \/ i \in offered[t]
                       \/ \E s \in contexts \ {t} : i \in offered[s]
    BY PassedBy
  <2> HIDE DEF reached
  <2>4. Tracked'
    BY <1>0, <2>1, <2>2 DEF Tracked
  <2>5. offered' \in [Sessions -> SUBSET Items] /\ registry' \subseteq Items
    BY <2>2 DEF Explained
  <2>6. ASSUME Listening, NEW t \in contexts
        PROVE  /\ offered'[t] \subseteq atConnect[t] \union handles'[t]
               /\ handles'[t] \subseteq registry'
               /\ \A j \in registry' \ offered'[t] :
                    \E s \in Sessions \ {t} : j \in atConnect[s]
    <3>1. /\ offered[t] \subseteq atConnect[t] \union handles[t] /\ handles[t] \subseteq registry
          /\ offered[t] \subseteq offered'[t]
      BY <2>2, <2>6 DEF Explained, Tracked
    <3>2. \A j \in registry \ offered[t] : \E s \in Sessions \ {t} : j \in atConnect[s]
      BY <2>6 DEF Explained
    <3>3. ASSUME i \notin offered'[t], i \notin registry
          PROVE  \E s \in Sessions \ {t} : i \in atConnect[s]
      <4>1. PICK s \in contexts \ {t} : i \in offered[s]
        BY <2>2, <2>3, <2>6, <3>1, <3>3 DEF Tracked
      <4> QED BY <2>6, <3>3, <4>1 DEF Explained, Tracked
    <3>4. \A j \in registry' \ offered'[t] : \E s \in Sessions \ {t} : j \in atConnect[s]
      BY <2>2, <3>1, <3>2, <3>3
    <3>5. offered'[t] \subseteq atConnect[t] \union handles'[t] /\ handles'[t] \subseteq registry'
      BY <2>2, <3>1 DEF Tracked
    <3> QED BY <3>4, <3>5
  <2>7. Explained'
    BY <1>0, <2>5, <2>6 DEF Explained, Listening
  <2> QED BY <2>4, <2>7
<1>2. CASE Unregister(i)
  <2>1. PICK held \in SUBSET Sessions :
          /\ held = {t \in ToSet(servers) : Listening /\ i \in handles[t]}
          /\ offered' = [t \in Sessions |->
                           IF t \in held THEN offered[t] \ {i} ELSE offered[t]]
          /\ handles' = [t \in Sessions |->
                           IF t \in held THEN handles[t] \ {i} ELSE handles[t]]
    BY <1>2 DEF Unregister, Tracked
  <2>2. registry' = registry \ {i}
    BY <1>2 DEF Unregister
  <2>3. Tracked'
    BY <1>0, <2>1 DEF Tracked
  <2>4. offered' \in [Sessions -> SUBSET Items] /\ registry' \subseteq Items
    BY <2>1, <2>2 DEF Explained
  <2>5. ASSUME Listening, NEW t \in contexts
        PROVE  /\ offered'[t] \subseteq atConnect[t] \union handles'[t]
               /\ handles'[t] \subseteq registry'
               /\ \A j \in registry' \ offered'[t] :
                    \E s \in Sessions \ {t} : j \in atConnect[s]
    <3>1. t \in held <=> i \in handles[t]
      BY <2>1, <2>5 DEF Tracked
    <3> QED BY <2>1, <2>2, <2>5, <3>1 DEF Explained, Tracked
  <2>6. Explained'
    BY <1>0, <2>4, <2>5 DEF Explained, Listening
  <2> QED BY <2>3, <2>6
<1> QED BY <1>1, <1>2

LEMMA MapsNext == MInv /\ [Next]_vars => MInv'
<1> SUFFICES ASSUME MInv, [Next]_vars PROVE MInv'
  OBVIOUS
<1> USE DEF MInv
<1>1. ASSUME NEW s \in Sessions, Connect(s) PROVE MInv'
  <2>1. s \notin contexts /\ \A c \in Causes : cleaning[s][c] = "idle"
    BY <1>1 DEF Connect, Tracked, Causes
  <2>2. /\ servers' \in Seq(Sessions) /\ IsInjective(servers')
        /\ ToSet(servers') = contexts'
    BY <1>1, <2>1, AppendedOnce DEF Connect, Tracked
  <2>3. Tracked'
    BY <1>1, <2>1, <2>2 DEF Connect, Tracked
  <2>4. /\ atConnect' \in [Sessions -> SUBSET Items] /\ offered' \in [Sessions -> SUBSET Items]
        /\ \A t \in Sessions : atConnect[t] \subseteq atConnect'[t]
        /\ offered'[s] = registry /\ atConnect'[s] = registry /\ handles[s] = {}
        /\ \A t \in Sessions \ {s} : offered'[t] = offered[t] /\ atConnect'[t] = atConnect[t]
    BY <1>1, <2>1 DEF Connect, Explained, Tracked
  <2>5. ASSUME Listening, NEW t \in contexts'
        PROVE  /\ offered'[t] \subseteq atConnect'[t] \union handles[t]
               /\ handles[t] \subseteq registry
               /\ \A i \in registry \ offered'[t] :
                    \E r \in Sessions \ {t} : i \in atConnect'[r]
    <3>1. CASE t = s
      BY <2>4, <3>1
    <3>2. CASE t # s
      <4>1. t \in contexts /\ t \in Sessions
        BY <1>1, <3>2 DEF Connect, Tracked
      <4> QED BY <2>4, <2>5, <3>2, <4>1 DEF Explained
    <3> QED BY <3>1, <3>2
  <2>6. Explained'
    BY <1>1, <2>4, <2>5 DEF Connect, Explained, Listening, Tracked
  <2> QED BY <2>3, <2>6
<1>2. ASSUME NEW s \in Sessions, CloseEvent(s) PROVE MInv'
  BY <1>2, BeginTracks DEF CloseEvent, Causes
<1>3. ASSUME NEW s \in Sessions, DestroyNext(s) PROVE MInv'
  <2>1. link[s] # "none"
    BY <1>3 DEF DestroyNext, Tracked, Causes
  <2> QED BY <1>3, <2>1, BeginTracks DEF DestroyNext, Causes
<1>4. ASSUME NEW s \in Sessions, NEW c \in Causes, TransportClosed(s, c) PROVE MInv'
  <2>1. Tracked'
    BY <1>4 DEF TransportClosed, Tracked
  <2>2. Explained'
    BY <1>4 DEF TransportClosed, Explained, Listening
  <2> QED BY <2>1, <2>2
<1>5. ASSUME NEW s \in Sessions, NEW c \in Causes, ServerClosed(s, c) PROVE MInv'
  <2>1. /\ servers' \in Seq(Sessions) /\ IsInjective(servers')
        /\ ToSet(servers') = contexts' /\ contexts' = contexts \ {s}
    BY <1>5, RemovedOnce DEF ServerClosed, StopTracking, Forget, Tracked
  <2>2. handles' = [handles EXCEPT ![s] = {}] /\ s \notin transports
    BY <1>5 DEF ServerClosed, StopTracking, Forget, Tracked
  <2>3. Tracked'
    BY <1>5, <2>1, <2>2 DEF ServerClosed, Tracked
  <2>4. Explained'
    BY <1>5, <2>1, <2>2 DEF ServerClosed, Explained, Listening, Tracked
  <2> QED BY <2>3, <2>4
<1>6. ASSUME NEW i \in Items, Register(i) \/ Unregister(i) PROVE MInv'
  BY <1>6, RegisterTracks
<1>7. ASSUME UNCHANGED <<registry, maps, handles, offered, link, cleaning, atConnect>>,
             destroying' \in {"no", "looping", "done"}, Listening' => Listening
      PROVE  MInv'
  BY <1>7 DEF Tracked, Explained, maps
<1>8. CASE \/ \E s \in Sessions : Handle(s) \/ \E m \in Messages : Post(s, m)
           \/ \E u \in Uris : Notify(u)
           \/ UNCHANGED vars
  <2>1. UNCHANGED <<registry, maps, handles, offered, link, cleaning, atConnect, destroying>>
    BY <1>8 DEF Handle, Post, Notify, vars, maps
  <2> QED BY <1>7, <2>1 DEF Listening, Explained
<1>9. CASE Destroy \/ Destroyed
  BY <1>7, <1>9 DEF Destroy, Destroyed, Listening
<1> QED
  BY <1>1, <1>2, <1>3, <1>4, <1>5, <1>6, <1>8, <1>9 DEF Next, CleanupStep

\* The five maps of SseService agree however the cleanups of the close event and
\* of onModuleDestroy overlap.
THEOREM MapsStayTogether == Spec => []MapsAgree
<1>1. Init => IInv /\ MInv
  BY InitKeeps, MapsInit
<1>2. (IInv /\ MInv) /\ [Next]_vars => (IInv /\ MInv)'
  BY NextKeeps, MapsNext
<1>3. IInv /\ MInv => MapsAgree
  <2> SUFFICES ASSUME IInv, Tracked, Explained PROVE MapsAgree
    BY DEF MInv
  <2>1. subs \subseteq [label : Sessions, uri : Uris, server : Sessions]
    BY DEF IInv, OwnLabels, Entry
  <2>2. TypeOK
    BY <2>1 DEF TypeOK, IInv, FeedTyped, Tracked, Explained
  <2> QED BY <2>2 DEF MapsAgree, Tracked
<1> QED BY <1>1, <1>2, <1>3, PTL DEF Spec

\* What a tracked server offers beside the registry it had from the start, and
\* what it lacks of the registry another server had from the start.
THEOREM OffersAreExplained == Spec => []OffersExplained
<1>1. Init => MInv
  BY MapsInit
<1>2. MInv /\ [Next]_vars => MInv'
  BY MapsNext
<1>3. MInv => OffersExplained
  <2> SUFFICES ASSUME MInv, Listening, NEW n \in DOMAIN servers
               PROVE  /\ offered[servers[n]] \ registry \subseteq atConnect[servers[n]]
                      /\ \A i \in registry \ offered[servers[n]] :
                           \E s \in Sessions \ {servers[n]} : i \in atConnect[s]
    BY DEF OffersExplained
  <2>1. servers[n] \in contexts
    BY DEF MInv, Tracked, ToSet
  <2> QED BY <2>1 DEF MInv, Explained
<1> QED BY <1>1, <1>2, <1>3, PTL DEF Spec
================================================================================
