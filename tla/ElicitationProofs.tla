-------------------------- MODULE ElicitationProofs --------------------------
(***************************************************************************)
(* Proofs about Elicitation: types, and that no notifier outlives its      *)
(* wait, for any number of elicitations, submissions and waits.            *)
(***************************************************************************)
EXTENDS Elicitation, TLAPS

\* A submission that awaits a notifier holds a wait that has left the registry
\* and that no other submission holds.
NotifiedOnce ==
  \A p \in Posts :
    notified[p] # None =>
      /\ wait[notified[p]] = "notified"
      /\ \A q \in Posts : notified[q] = notified[p] => q = p

\* A record is being removed only once it is removed, and a submission that has
\* called a notifier has some wait behind it that is past waiting.
CalledOrRemoved ==
  /\ \A e \in removing : records[e] = "removed"
  /\ \A p \in Posts :
       form[p] \in {"notifying", "delivered"} =>
         \E w \in Waits : on[w] = about[p] /\ wait[w] \notin {"idle", "waiting"}

\* NotifierIsWaiting alone is not inductive: the outcome that Deliver gives to
\* a wait must not fall on one that is still registered, and what Finish and
\* Removed delete must not be the registration of a wait that is alone.
IInv == TypeOK /\ NotifierIsWaiting /\ NotifiedOnce /\ CalledOrRemoved

-----------------------------------------------------------------------------
(* Types. *)

LEMMA InitTyped == Init => TypeOK
BY ElicitationAssumption DEF Init, TypeOK, Elicitations

\* Looking a record up, and removing it, keep the store's types.
LEMMA StoreTyped ==
  ASSUME TypeOK, NEW e \in Elicitations, Drop(e) \/ Lookup(e)
  PROVE  /\ records' \in [Elicitations -> {"none", "pending", "complete", "removed"}]
         /\ expired' \subseteq Elicitations
         /\ results' \in [Elicitations -> {"none", "confirm", "cancel"}]
         /\ index' \in Elicitations \union {None}
BY DEF TypeOK, Drop, Lookup, store

\* The registry stays one when an entry is deleted.
LEMMA ForgetTyped ==
  ASSUME TypeOK, NEW e \in Elicitations
  PROVE  ForgetNotifier(e) \in [Elicitations -> Waits \union {None}]
BY DEF TypeOK, ForgetNotifier

LEMMA OutcomeTyped ==
  ASSUME NEW r \in {"none", "confirm", "cancel"}
  PROVE  Outcome(r) \in {"resolved", "cancelled", "lost"}
BY DEF Outcome

LEMMA NextTyped == IInv /\ [Next]_vars => TypeOK'
<1> SUFFICES ASSUME IInv, [Next]_vars PROVE TypeOK'
  OBVIOUS
<1> TypeOK /\ NotifierIsWaiting /\ NotifiedOnce /\ CalledOrRemoved
  BY DEF IInv
<1> USE ElicitationAssumption DEF TypeOK, store, posts, waits
<1>e. \A e \in Elicitations : e # None
  BY DEF Elicitations
<1>1. ASSUME NEW e \in Elicitations, Create(e) PROVE TypeOK'
  BY <1>1 DEF Create
<1>2. ASSUME NEW e \in Elicitations, Expire(e) PROVE TypeOK'
  BY <1>2 DEF Expire
<1>3. ASSUME NEW e \in Elicitations, CleanupExpired(e) PROVE TypeOK'
  BY <1>3, StoreTyped DEF CleanupExpired
<1>4. ASSUME NEW e \in Elicitations, Remove(e) PROVE TypeOK'
  BY <1>4, StoreTyped DEF Remove
<1>5. ASSUME NEW e \in Elicitations, Removed(e) PROVE TypeOK'
  BY <1>5 DEF Removed
<1>6. ASSUME NEW w \in Waits, NEW e \in Elicitations, Wait(w, e) PROVE TypeOK'
  BY <1>6, <1>e DEF Wait
<1>7. ASSUME NEW w \in Waits, NEW e \in Elicitations, WaitAborted(w, e) PROVE TypeOK'
  BY <1>7, <1>e, ForgetTyped DEF WaitAborted
<1>8. ASSUME NEW w \in Waits, Rejects(w) PROVE TypeOK'
  <2>1. on[w] \in Elicitations
    BY <1>8 DEF Rejects
  <2> QED BY <1>8, <2>1, ForgetTyped DEF Rejects
<1>9. ASSUME NEW p \in Posts, NEW e \in Elicitations,
             NEW a \in {"confirm", "cancel"}, Submit(p, e, a)
      PROVE  TypeOK'
  BY <1>9, <1>e, StoreTyped DEF Submit
<1>10. ASSUME NEW p \in Posts, FormStep(p) PROVE TypeOK'
  <2> form[p] # "idle" /\ about[p] \in Elicitations
    BY <1>10 DEF FormStep, Check, StoreResult, Notify, Deliver, Finish
  <2>1. CASE Check(p)
    BY <2>1, StoreTyped DEF Check
  <2>2. CASE StoreResult(p)
    BY <2>2 DEF StoreResult
  <2>3. CASE Notify(p)
    <3>1. notifiers[about[p]] # None => wait[notifiers[about[p]]] = "waiting"
      BY DEF NotifierIsWaiting
    <3>2. CASE notifiers[about[p]] = None
      BY <2>3, <3>2 DEF Notify
    <3>3. CASE notifiers[about[p]] # None
      <4>1. wait' \in [Waits -> {"idle", "waiting", "notified", "resolved", "cancelled",
                                "rejected", "lost", "stranded"}]
        BY <2>3, <3>3 DEF Notify
      <4>2. \A w \in Waits : wait'[w] # "idle" <=> on'[w] # None
        BY <2>3, <3>1, <3>3 DEF Notify
      <4>3. \A q \in Posts : /\ form'[q] # "idle" <=> about'[q] # None
                             /\ form'[q] # "idle" <=> choice'[q] # "none"
                             /\ form'[q] = "notifying" <=> notified'[q] # None
        BY <2>3, <3>3 DEF Notify
      <4>4. notifiers[about[p]] \in Waits
        BY <3>3
      <4>5. notified' = [notified EXCEPT ![p] = notifiers[about[p]]]
        BY <2>3, <3>3 DEF Notify
      <4>6. form' = [form EXCEPT ![p] = "notifying"]
        BY <2>3, <3>3 DEF Notify
      <4>7. notifiers' = [notifiers EXCEPT ![about[p]] = None]
        BY <2>3, <3>3 DEF Notify, ForgetNotifier
      <4>8. UNCHANGED <<store, removing, about, choice, on, late>>
        BY <2>3 DEF Notify
      <4> QED BY <4>1, <4>2, <4>3, <4>4, <4>5, <4>6, <4>7, <4>8
    <3> QED BY <3>2, <3>3
  <2>4. CASE Deliver(p)
    <3>1. Outcome(results[about[p]]) \in {"resolved", "cancelled", "lost"}
      BY OutcomeTyped
    <3>2. notified[p] # None /\ wait[notified[p]] = "notified"
      BY <2>4 DEF Deliver, NotifiedOnce
    <3> QED BY <2>4, <3>1, <3>2 DEF Deliver
  <2>5. CASE Finish(p)
    BY <2>5, ForgetTyped DEF Finish
  <2> QED BY <1>10, <2>1, <2>2, <2>3, <2>4, <2>5 DEF FormStep
<1>11. ASSUME NEW p \in Posts, SubmissionFails(p) PROVE TypeOK'
  BY <1>11 DEF SubmissionFails
<1>12. ASSUME NEW p \in Posts, DeliveryFails(p) PROVE TypeOK'
  <2>1. notified[p] # None /\ wait[notified[p]] = "notified"
    BY <1>12 DEF DeliveryFails, NotifiedOnce
  <2> QED BY <1>12, <2>1 DEF DeliveryFails
<1>13. CASE UNCHANGED vars
  BY <1>13 DEF vars
<1> QED
  BY <1>1, <1>2, <1>3, <1>4, <1>5, <1>6, <1>7, <1>8, <1>9, <1>10, <1>11, <1>12,
     <1>13
     DEF Next, Abort, Timeout

-----------------------------------------------------------------------------
(* The registry and the waits. *)

\* Removed records stay removed, and no record becomes one that never was.
LEMMA RecordStays ==
  ASSUME TypeOK, [Next]_vars, NEW e \in Elicitations
  PROVE  /\ records[e] = "removed" => records'[e] = "removed"
         /\ records[e] # "none" => records'[e] # "none"
<1> USE DEF TypeOK, store, posts, waits, Held, Lookup, Drop
<1>1. CASE UNCHANGED records
  BY <1>1
<1>2. ASSUME NEW d \in Elicitations, Create(d) \/ CleanupExpired(d) \/ Remove(d)
      PROVE  /\ records[e] = "removed" => records'[e] = "removed"
             /\ records[e] # "none" => records'[e] # "none"
  BY <1>2 DEF Create, CleanupExpired, Remove
<1>3. ASSUME NEW d \in Elicitations, Lookup(d)
      PROVE  /\ records[e] = "removed" => records'[e] = "removed"
             /\ records[e] # "none" => records'[e] # "none"
  BY <1>3
<1>4. ASSUME NEW p \in Posts, StoreResult(p)
      PROVE  /\ records[e] = "removed" => records'[e] = "removed"
             /\ records[e] # "none" => records'[e] # "none"
  BY <1>4 DEF StoreResult
<1>5. ASSUME NEW p \in Posts, Check(p)
      PROVE  /\ records[e] = "removed" => records'[e] = "removed"
             /\ records[e] # "none" => records'[e] # "none"
  <2>1. about[p] \in Elicitations
    BY <1>5 DEF Check
  <2> QED BY <1>5, <1>3, <2>1 DEF Check
<1> QED
  BY <1>1, <1>2, <1>3, <1>4, <1>5
     DEF Next, vars, Expire, Removed, Wait, WaitAborted, Abort, Timeout,
         Rejects, Submit, FormStep, Notify, Deliver, Finish, SubmissionFails,
         DeliveryFails

\* A wait that is past waiting stays so, on the same elicitation.
LEMMA PastStays ==
  ASSUME TypeOK, [Next]_vars, NEW w \in Waits, wait[w] \notin {"idle", "waiting"}
  PROVE  wait'[w] \notin {"idle", "waiting"} /\ on'[w] = on[w]
<1> USE DEF TypeOK, posts, waits
<1>1. CASE UNCHANGED <<wait, on>>
  BY <1>1
<1>2. ASSUME NEW p \in Posts, Notify(p) \/ Deliver(p) \/ DeliveryFails(p)
      PROVE  wait'[w] \notin {"idle", "waiting"} /\ on'[w] = on[w]
  <2>1. CASE Notify(p)
    BY <2>1 DEF Notify
  <2>2. CASE Deliver(p)
    <3>1. Outcome(results[about[p]]) \in {"resolved", "cancelled", "lost"}
      BY <2>2, OutcomeTyped DEF Deliver
    <3> QED BY <2>2, <3>1 DEF Deliver
  <2>3. CASE DeliveryFails(p)
    BY <2>3 DEF DeliveryFails
  <2> QED BY <1>2, <2>1, <2>2, <2>3
<1>3. ASSUME NEW v \in Waits, NEW e \in Elicitations,
             Wait(v, e) \/ WaitAborted(v, e) \/ Rejects(v)
      PROVE  wait'[w] \notin {"idle", "waiting"} /\ on'[w] = on[w]
  BY <1>3 DEF Wait, WaitAborted, Rejects
<1>4. 1 \in Elicitations
  BY ElicitationAssumption DEF Elicitations
<1> QED
  BY <1>1, <1>2, <1>3, <1>4
     DEF Next, vars, Create, CleanupExpired, Remove, Expire, Removed, Abort,
         Timeout, Submit, FormStep, Check, StoreResult, Finish, SubmissionFails

LEMMA NextCalled == IInv /\ [Next]_vars => CalledOrRemoved'
<1> SUFFICES ASSUME IInv, [Next]_vars PROVE CalledOrRemoved'
  OBVIOUS
<1> TypeOK /\ NotifierIsWaiting /\ NotifiedOnce /\ CalledOrRemoved
  BY DEF IInv
<1>t. TypeOK'
  BY NextTyped
<1>1. ASSUME NEW e \in removing' PROVE records'[e] = "removed"
  <2>1. e \in Elicitations
    BY <1>t DEF TypeOK
  <2>2. CASE e \in removing
    BY <2>1, <2>2, RecordStays DEF CalledOrRemoved
  <2>3. CASE e \notin removing
    <3>1. Remove(e)
      BY <1>1, <2>3
         DEF Next, vars, posts, waits, Create, CleanupExpired, Remove, Expire,
             Removed, Wait, WaitAborted, Abort, Timeout, Rejects, Submit, FormStep,
             Check, StoreResult, Notify, Deliver, Finish, SubmissionFails,
             DeliveryFails
    <3> QED BY <2>1, <3>1 DEF Remove, Drop, Held, TypeOK
  <2> QED BY <2>2, <2>3
<1>2. ASSUME NEW p \in Posts, form'[p] \in {"notifying", "delivered"}
      PROVE  \E w \in Waits : on'[w] = about'[p] /\ wait'[w] \notin {"idle", "waiting"}
  <2>1. CASE form[p] \in {"notifying", "delivered"} /\ about'[p] = about[p]
    <3>1. PICK w \in Waits : on[w] = about[p] /\ wait[w] \notin {"idle", "waiting"}
      BY <2>1 DEF CalledOrRemoved
    <3> QED BY <2>1, <3>1, PastStays
  <2>2. CASE Notify(p) /\ notifiers[about[p]] # None
    BY <2>2 DEF Notify, TypeOK, NotifierIsWaiting
  <2> QED
    BY <1>2, <2>1, <2>2
       DEF Next, vars, posts, waits, Create, CleanupExpired, Remove, Expire, Removed,
           Wait, WaitAborted, Abort, Timeout, Rejects, Submit, FormStep, Check,
           StoreResult, Notify, Deliver, Finish, SubmissionFails, DeliveryFails,
           TypeOK
<1> QED BY <1>1, <1>2 DEF CalledOrRemoved

\* What is registered belongs to a wait that is pending.
Registered ==
  \A e \in Elicitations :
    notifiers[e] # None => wait[notifiers[e]] = "waiting" /\ on[notifiers[e]] = e

\* What is registered for an elicitation other than the one a wait is on is not
\* that wait, and what is deleted cannot go wrong.
LEMMA NextRegistered == IInv /\ [Next]_vars => Registered'
<1> SUFFICES ASSUME IInv, [Next]_vars PROVE Registered'
  OBVIOUS
<1> TypeOK /\ Registered /\ NotifiedOnce
  BY DEF IInv, NotifierIsWaiting, Registered
<1> USE ElicitationAssumption DEF TypeOK, Registered, ForgetNotifier
<1>1. CASE UNCHANGED <<notifiers, wait, on>>
  BY <1>1
<1>2. ASSUME NEW e \in Elicitations, Removed(e) PROVE Registered'
  BY <1>2 DEF Removed, waits
<1>3. ASSUME NEW w \in Waits, NEW e \in Elicitations, Wait(w, e)
      PROVE  Registered'
  BY <1>3 DEF Wait
<1>4. ASSUME NEW w \in Waits, NEW e \in Elicitations, WaitAborted(w, e)
      PROVE  Registered'
  BY <1>4 DEF WaitAborted
<1>5. ASSUME NEW w \in Waits, Rejects(w) PROVE Registered'
  BY <1>5 DEF Rejects
<1>6. ASSUME NEW p \in Posts, Notify(p) PROVE Registered'
  BY <1>6 DEF Notify
<1>7. ASSUME NEW p \in Posts, Deliver(p) \/ DeliveryFails(p) PROVE Registered'
  <2>1. notified[p] # None /\ wait[notified[p]] = "notified"
    BY <1>7 DEF Deliver, DeliveryFails, NotifiedOnce
  <2> QED BY <1>7, <2>1 DEF Deliver, DeliveryFails
<1>8. ASSUME NEW p \in Posts, Finish(p) PROVE Registered'
  BY <1>8 DEF Finish, waits
<1> QED
  BY <1>1, <1>2, <1>3, <1>4, <1>5, <1>6, <1>7, <1>8
     DEF Next, vars, waits, Create, Expire, CleanupExpired, Remove, Abort,
         Timeout, Submit, FormStep, Check, StoreResult, SubmissionFails

\* A wait that is alone keeps its registration until a submission calls it.
LEMMA NextAlone ==
  ASSUME IInv, [Next]_vars, NEW w \in Waits,
         wait'[w] = "waiting", Alone(w)', records'[on'[w]] # "removed"
  PROVE  notifiers'[on'[w]] = w /\ (LookedUp(on[w])' => w \in late')
<1> TypeOK /\ NotifierIsWaiting /\ NotifiedOnce /\ CalledOrRemoved
  BY DEF IInv
<1>1. CASE \E d \in Elicitations : Wait(w, d)
  BY <1>1 DEF Wait, posts, TypeOK, LookedUp
<1>2. CASE ~ \E d \in Elicitations : Wait(w, d)
  <2>0. wait[w] = "waiting" /\ on[w] \in Elicitations /\ on'[w] = on[w]
    <3>1. wait[w] = "waiting"
      <4>1. wait[w] \in {"idle", "waiting"}
        BY PastStays
      <4>2. wait[w] # "idle"
        BY <1>2
           DEF Next, vars, posts, waits, Create, CleanupExpired, Remove, Expire,
               Removed, Wait, WaitAborted, Abort, Timeout, Rejects, Submit, FormStep,
               Check, StoreResult, Notify, Deliver, Finish, SubmissionFails,
               DeliveryFails, TypeOK, NotifiedOnce, NotifierIsWaiting
      <4> QED BY <4>1, <4>2
    <3>2. on'[w] = on[w]
      BY <3>1
         DEF Next, vars, posts, waits, Create, CleanupExpired, Remove, Expire,
             Removed, Wait, WaitAborted, Abort, Timeout, Rejects, Submit, FormStep,
             Check, StoreResult, Notify, Deliver, Finish, SubmissionFails,
             DeliveryFails, TypeOK
    <3> QED BY <3>1, <3>2 DEF TypeOK
  <2> PICK e \in Elicitations : e = on[w]
    BY <2>0
  <2>1. wait[w] = "waiting" /\ e \in Elicitations /\ on'[w] = e /\ on[w] = e
    BY <2>0
  <2>2. records[e] # "removed"
    BY <2>1, RecordStays
  <2>3. \A v \in Waits : v # w => on'[v] # e
    BY <2>1 DEF Alone
  <2>4. \A v \in Waits : v # w => on[v] # e
    BY <2>3, <2>1
       DEF Next, vars, posts, waits, Create, CleanupExpired, Remove, Expire,
           Removed, Wait, WaitAborted, Abort, Timeout, Rejects, Submit, FormStep,
           Check, StoreResult, Notify, Deliver, Finish, SubmissionFails,
           DeliveryFails, TypeOK
  <2>5. notifiers[e] = w /\ (LookedUp(e) => w \in late)
    BY <2>1, <2>2, <2>4 DEF NotifierIsWaiting, Alone
  <2>6. w \in late => w \in late'
    BY DEF Next, vars, posts, waits, Create, CleanupExpired, Remove, Expire,
           Removed, Wait, WaitAborted, Abort, Timeout, Rejects, Submit, FormStep,
           Check, StoreResult, Notify, Deliver, Finish, SubmissionFails, DeliveryFails
  <2>7. LookedUp(e)' => LookedUp(e)
    <3> SUFFICES ASSUME NEW p \in Posts, about'[p] = e,
                        form'[p] \in {"notifying", "delivered", "done"}
                 PROVE  about[p] = e /\ form[p] \in {"notifying", "delivered", "done"}
      BY DEF LookedUp
    <3>1. ~ (Notify(p) /\ about[p] = e)
      <4> SUFFICES ASSUME Notify(p), about[p] = e PROVE FALSE
        OBVIOUS
      <4>1. w # None
        BY ElicitationAssumption
      <4>2. wait'[w] = "notified"
        BY <2>5, <4>1 DEF Notify, TypeOK
      <4> QED BY <4>2
    <3> QED
      BY <3>1
         DEF Next, vars, posts, waits, Create, CleanupExpired, Remove, Expire,
             Removed, Wait, WaitAborted, Abort, Timeout, Rejects, Submit, FormStep,
             Check, StoreResult, Notify, Deliver, Finish, SubmissionFails,
             DeliveryFails, TypeOK
  <2>8. notifiers'[e] = w
    <3>0. e \in Elicitations
      OBVIOUS
    <3> USE <3>0, <2>5 DEF TypeOK, ForgetNotifier
    <3>1. CASE UNCHANGED notifiers
      BY <3>1
    <3>2. ASSUME NEW d \in Elicitations, Removed(d) PROVE d # e /\ notifiers'[e] = w
      BY <2>2, <3>2 DEF Removed, CalledOrRemoved
    <3>3. ASSUME NEW v \in Waits, NEW d \in Elicitations, Wait(v, d) \/ WaitAborted(v, d)
          PROVE  notifiers'[e] = w
      <4>1. on'[v] = d /\ v # w
        BY <2>1, <3>3 DEF Wait, WaitAborted
      <4>2. d # e
        BY <2>3, <4>1
      <4> QED BY <3>3, <4>2 DEF Wait, WaitAborted
    <3>4. ASSUME NEW v \in Waits, Rejects(v) PROVE notifiers'[e] = w
      <4>1. v # w
        BY <3>4 DEF Rejects
      <4>2. on[v] # e /\ on[v] \in Elicitations
        BY <2>4, <3>4, <4>1 DEF Rejects
      <4> QED BY <3>4, <4>2 DEF Rejects
    <3>5. ASSUME NEW p \in Posts, Notify(p) \/ Finish(p) PROVE notifiers'[e] = w
      <4>1. about[p] \in Elicitations
        BY <3>5 DEF Notify, Finish
      <4>2. CASE about[p] = e /\ Notify(p)
        <5>1. w # None
          BY ElicitationAssumption
        <5>2. wait'[w] = "notified"
          BY <4>2, <5>1 DEF Notify
        <5> QED BY <5>2
      <4>3. CASE about[p] = e /\ Finish(p)
        <5>1. PICK v \in Waits : on[v] = e /\ wait[v] \notin {"idle", "waiting"}
          BY <4>3 DEF Finish, CalledOrRemoved
        <5> QED BY <2>1, <2>4, <5>1
      <4>4. CASE about[p] # e
        BY <3>5, <4>1, <4>4 DEF Notify, Finish
      <4> QED BY <3>5, <4>2, <4>3, <4>4
    <3> QED
      BY <3>1, <3>2, <3>3, <3>4, <3>5
         DEF Next, vars, Create, Expire, CleanupExpired, Remove, Abort, Timeout,
             Submit, FormStep, Check, StoreResult, Deliver, SubmissionFails,
             DeliveryFails
  <2>9. LookedUp(on[w])' => LookedUp(e)'
    BY <2>1 DEF LookedUp
  <2> QED BY <2>1, <2>5, <2>6, <2>7, <2>8, <2>9
<1> QED BY <1>1, <1>2

LEMMA NextWaiting == IInv /\ [Next]_vars => NotifierIsWaiting'
<1> SUFFICES ASSUME IInv, [Next]_vars PROVE NotifierIsWaiting'
  OBVIOUS
<1>1. Registered'
  BY NextRegistered
<1>2. ASSUME NEW w \in Waits, wait'[w] = "waiting", Alone(w)',
             records'[on'[w]] # "removed"
      PROVE  notifiers'[on'[w]] = w /\ (LookedUp(on[w])' => w \in late')
  BY <1>2, NextAlone
<1> QED BY <1>1, <1>2 DEF NotifierIsWaiting, Registered

\* A wait is handed to one submission: it is registered when Notify takes it,
\* which no wait that another submission holds is.
LEMMA NextNotified == IInv /\ [Next]_vars => NotifiedOnce'
<1> SUFFICES ASSUME IInv, [Next]_vars PROVE NotifiedOnce'
  OBVIOUS
<1> TypeOK /\ NotifierIsWaiting /\ NotifiedOnce /\ CalledOrRemoved
  BY DEF IInv
<1> USE ElicitationAssumption DEF TypeOK, NotifiedOnce
<1>1. CASE UNCHANGED <<notified, wait>>
  BY <1>1
<1>2. ASSUME NEW w \in Waits, wait[w] \in {"idle", "waiting"}, UNCHANGED notified,
             \E s \in {"waiting", "rejected"} : wait' = [wait EXCEPT ![w] = s]
      PROVE  NotifiedOnce'
  BY <1>2
<1>3. ASSUME NEW p \in Posts, Notify(p) PROVE NotifiedOnce'
  <2>1. about[p] \in Elicitations
    BY <1>3 DEF Notify
  <2>2. notifiers[about[p]] # None => wait[notifiers[about[p]]] = "waiting"
    BY <2>1 DEF NotifierIsWaiting
  <2> QED BY <1>3, <2>1, <2>2 DEF Notify
<1>4. ASSUME NEW p \in Posts, Deliver(p) \/ DeliveryFails(p) PROVE NotifiedOnce'
  BY <1>4 DEF Deliver, DeliveryFails
<1>5. ASSUME NEW w \in Waits, Rejects(w) PROVE NotifiedOnce'
  BY <1>2, <1>5 DEF Rejects, posts
<1>6. ASSUME NEW w \in Waits, NEW e \in Elicitations, Wait(w, e) \/ WaitAborted(w, e)
      PROVE  NotifiedOnce'
  BY <1>2, <1>6 DEF Wait, WaitAborted, posts
<1> QED
  BY <1>1, <1>3, <1>4, <1>5, <1>6
     DEF Next, vars, posts, waits, Create, Expire, CleanupExpired, Remove,
         Removed, Abort, Timeout, Submit, FormStep, Check, StoreResult, Finish,
         SubmissionFails

\* The invariant holds at the start and is kept by every step.
LEMMA Invariant == Spec => []IInv
<1>1. Init => IInv
  BY InitTyped, ElicitationAssumption
     DEF Init, IInv, NotifierIsWaiting, NotifiedOnce, CalledOrRemoved
<1>2. IInv /\ [Next]_vars => IInv'
  BY NextTyped, NextWaiting, NextNotified, NextCalled DEF IInv
<1> QED BY <1>1, <1>2, PTL DEF Spec

\* The state keeps its types.
THEOREM TypeCorrect == Spec => []TypeOK
<1>1. IInv => TypeOK
  BY DEF IInv
<1> QED BY Invariant, <1>1, PTL

\* No notifier outlives its wait, and no wait that is alone on a record that is
\* not removed loses its notifier or is passed by unless it was called too late,
\* for any number of elicitations, submissions and waits.
THEOREM NotifiersWait == Spec => []NotifierIsWaiting
<1>1. IInv => NotifierIsWaiting
  BY DEF IInv
<1> QED BY Invariant, <1>1, PTL

-----------------------------------------------------------------------------
(* Where answers come from. *)

\* A stored result is that of a submission; one that is on its way to a wait is
\* for that wait's elicitation, and missing only if the record was removed.
Origins ==
  /\ \A e \in Elicitations, a \in {"confirm", "cancel"} : results[e] = a => Stored(e, a)
  /\ \A p \in Posts : about[p] # None => records[about[p]] # "none"
  /\ \A p \in Posts : notified[p] # None => on[notified[p]] = about[p]
  /\ \A p \in Posts : form[p] \in {"stored", "notifying"} =>
       results[about[p]] # "none" \/ records[about[p]] = "removed"

AInv == IInv /\ Origins /\ AnsweredBySubmission

\* A submission that has stored its action remains one.
LEMMA StoredStays ==
  ASSUME TypeOK, [Next]_vars, NEW e \in Elicitations, NEW a, Stored(e, a)
  PROVE  Stored(e, a)'
<1> PICK p \in Posts : /\ about[p] = e /\ choice[p] = a
                       /\ form[p] \in {"stored", "notifying", "delivered", "done"}
  BY DEF Stored
<1> SUFFICES /\ about'[p] = e /\ choice'[p] = a
             /\ form'[p] \in {"stored", "notifying", "delivered", "done"}
  BY DEF Stored
<1> USE DEF TypeOK, store, posts, waits
<1>1. CASE UNCHANGED <<form, about, choice>>
  BY <1>1
<1>2. ASSUME NEW q \in Posts, NEW d \in Elicitations,
             NEW b \in {"confirm", "cancel"}, Submit(q, d, b)
      PROVE  UNCHANGED <<form[p], about[p], choice[p]>>
  BY <1>2 DEF Submit
<1>3. ASSUME NEW q \in Posts, Check(q)
      PROVE  UNCHANGED <<form[p], about[p], choice[p]>>
  BY <1>3 DEF Check
<1>4. ASSUME NEW q \in Posts,
             \/ StoreResult(q) \/ Notify(q) \/ Deliver(q) \/ Finish(q)
             \/ SubmissionFails(q) \/ DeliveryFails(q)
      PROVE  /\ about'[p] = e /\ choice'[p] = a
             /\ form'[p] \in {"stored", "notifying", "delivered", "done"}
  BY <1>4 DEF StoreResult, Notify, Deliver, Finish, SubmissionFails, DeliveryFails
<1> QED
  BY <1>1, <1>2, <1>3, <1>4
     DEF Next, vars, Create, Expire, CleanupExpired, Remove, Removed, Wait,
         WaitAborted, Abort, Timeout, Rejects, FormStep

\* A result changes only when a submission stores its action, or is lost with
\* its record.
LEMMA ResultSteps ==
  ASSUME TypeOK, [Next]_vars, NEW e \in Elicitations
  PROVE  /\ \/ results'[e] \in {results[e], "none"}
            \/ \E a \in {"confirm", "cancel"} : results'[e] = a /\ Stored(e, a)'
         /\ results[e] # "none" /\ records[e] # "none" =>
              results'[e] # "none" \/ records'[e] = "removed"
<1> DEFINE Goal == /\ \/ results'[e] \in {results[e], "none"}
                      \/ \E a \in {"confirm", "cancel"} : results'[e] = a /\ Stored(e, a)'
                   /\ results[e] # "none" /\ records[e] # "none" =>
                        results'[e] # "none" \/ records'[e] = "removed"
<1> USE DEF TypeOK, store, posts, waits
<1>1. CASE UNCHANGED results
  BY <1>1
<1>2. ASSUME NEW d \in Elicitations, Drop(d) PROVE Goal
  <2>1. d # e => UNCHANGED results[e]
    BY <1>2 DEF Drop
  <2>2. d = e => results'[e] = "none"
    BY <1>2 DEF Drop
  <2>3. d = e /\ records[e] # "none" => records'[e] = "removed"
    BY <1>2 DEF Drop, Held
  <2> QED BY <2>1, <2>2, <2>3
<1>3. ASSUME NEW d \in Elicitations, Lookup(d) PROVE Goal
  BY <1>1, <1>2, <1>3 DEF Lookup
<1>4. ASSUME NEW p \in Posts, StoreResult(p) PROVE Goal
  <2>1. about[p] \in Elicitations
    BY <1>4 DEF StoreResult
  <2>2. CASE about[p] = e
    <3>1. results'[e] = choice[p] /\ about'[p] = e /\ choice'[p] = choice[p] /\ form'[p] = "stored"
      BY <1>4, <2>2 DEF StoreResult
    <3>2. choice[p] \in {"confirm", "cancel"}
      BY <1>4 DEF StoreResult
    <3>3. ASSUME NEW a, a = choice[p] PROVE Stored(e, a)'
      BY <3>1, <3>3 DEF Stored
    <3> QED BY <3>1, <3>2, <3>3
  <2>3. CASE about[p] # e
    BY <1>1, <1>4, <2>1, <2>3 DEF StoreResult
  <2> QED BY <2>2, <2>3
<1>5. ASSUME NEW p \in Posts, Check(p) PROVE Goal
  <2>1. about[p] \in Elicitations
    BY <1>5 DEF Check
  <2> QED BY <1>5, <1>3, <2>1 DEF Check
<1> HIDE DEF Goal
<1>6. Goal
  BY <1>1, <1>2, <1>3, <1>4, <1>5
     DEF Next, vars, Create, CleanupExpired, Remove, Expire, Removed, Wait,
         WaitAborted, Abort, Timeout, Rejects, Submit, FormStep, Notify, Deliver,
         Finish, SubmissionFails, DeliveryFails, Goal
<1> QED BY <1>6 DEF Goal

LEMMA NextOrigins == AInv /\ [Next]_vars => Origins'
<1> SUFFICES ASSUME AInv, [Next]_vars PROVE Origins'
  OBVIOUS
<1> TypeOK /\ NotifierIsWaiting /\ NotifiedOnce /\ Origins
  BY DEF AInv, IInv
<1>t. TypeOK'
  BY NextTyped DEF AInv
<1>n. \A p \in Posts : form[p] # "idle" => about[p] \in Elicitations
  BY DEF TypeOK
<1>1. ASSUME NEW e \in Elicitations, NEW a \in {"confirm", "cancel"}, results'[e] = a
      PROVE  Stored(e, a)'
  <2>1. CASE results[e] = a
    BY <2>1, StoredStays DEF Origins
  <2>2. CASE results[e] # a
    BY <1>1, <2>2, ResultSteps
  <2> QED BY <2>1, <2>2
<1>2. ASSUME NEW p \in Posts, about'[p] # None PROVE records'[about'[p]] # "none"
  <2>1. about'[p] \in Elicitations
    BY <1>2, <1>t DEF TypeOK
  <2>2. CASE about'[p] = about[p]
    BY <1>2, <2>1, <2>2, RecordStays DEF Origins
  <2>3. CASE about'[p] # about[p]
    <3>1. PICK q \in Posts, e \in Elicitations, a \in {"confirm", "cancel"} :
            Submit(q, e, a) /\ about'[p] = e
      BY <1>2, <2>3
         DEF Next, vars, posts, Create, CleanupExpired, Remove, Expire, Removed, Wait,
             WaitAborted, Abort, Timeout, Rejects, Submit, FormStep, Check,
             StoreResult, Notify, Deliver, Finish, SubmissionFails, DeliveryFails,
             TypeOK
    <3> QED BY <3>1, RecordStays DEF Submit
  <2> QED BY <2>2, <2>3
<1>3. ASSUME NEW p \in Posts, notified'[p] # None PROVE on'[notified'[p]] = about'[p]
  <2>1. CASE UNCHANGED <<notified[p], about[p], on>>
    BY <1>3, <2>1 DEF Origins
  <2>2. CASE Notify(p)
    BY <1>3, <2>2, <1>n DEF Notify, TypeOK, NotifierIsWaiting
  <2>3. ASSUME NEW w \in Waits, wait[w] = "idle", UNCHANGED <<notified, about>>,
               \E e \in Elicitations : on' = [on EXCEPT ![w] = e]
        PROVE  on'[notified'[p]] = about'[p]
    BY <1>3, <2>3 DEF Origins, NotifiedOnce, TypeOK
  <2> QED
    BY <1>3, <2>1, <2>2, <2>3, <1>n
       DEF Next, vars, posts, waits, Create, CleanupExpired, Remove, Expire, Removed,
           Wait, WaitAborted, Abort, Timeout, Rejects, Submit, FormStep, Check,
           StoreResult, Notify, Deliver, Finish, SubmissionFails, DeliveryFails,
           TypeOK
<1>4. ASSUME NEW p \in Posts, form'[p] \in {"stored", "notifying"}
      PROVE  results'[about'[p]] # "none" \/ records'[about'[p]] = "removed"
  <2>1. CASE form[p] \in {"stored", "notifying"} /\ UNCHANGED about[p]
    <3> DEFINE e == about[p]
    <3>1. e \in Elicitations /\ about'[p] = e
      BY <2>1, <1>n
    <3>2. records[e] # "none" /\ (results[e] # "none" \/ records[e] = "removed")
      BY <2>1 DEF Origins, TypeOK
    <3> HIDE DEF e
    <3>3. results'[e] # "none" \/ records'[e] = "removed"
      BY <3>1, <3>2, ResultSteps, RecordStays
    <3> QED BY <3>1, <3>3
  <2>2. CASE StoreResult(p)
    BY <2>2, <1>n DEF StoreResult, TypeOK
  <2> QED
    BY <1>4, <2>1, <2>2
       DEF Next, vars, posts, waits, Create, CleanupExpired, Remove, Expire, Removed,
           Wait, WaitAborted, Abort, Timeout, Rejects, Submit, FormStep, Check,
           StoreResult, Notify, Deliver, Finish, SubmissionFails, DeliveryFails,
           TypeOK
<1> QED BY <1>1, <1>2, <1>3, <1>4 DEF Origins

\* Only Deliver gives a wait an answer, from the result as it is.
LEMMA NextAnswered == AInv /\ [Next]_vars => AnsweredBySubmission'
<1> SUFFICES ASSUME AInv, [Next]_vars, NEW w \in Waits
             PROVE  /\ wait'[w] = "resolved" => Stored(on[w], "confirm")'
                    /\ wait'[w] = "cancelled" => Stored(on[w], "cancel")'
                    /\ wait'[w] = "lost" => records'[on'[w]] = "removed"
  BY DEF AnsweredBySubmission
<1> TypeOK /\ NotifierIsWaiting /\ NotifiedOnce /\ Origins /\ AnsweredBySubmission
  BY DEF AInv, IInv
<1>1. CASE UNCHANGED <<wait[w], on[w]>>
  <2>1. wait[w] # "idle" => on[w] \in Elicitations
    BY DEF TypeOK
  <2>2. ASSUME NEW a, Stored(on[w], a), on[w] \in Elicitations
        PROVE  Stored(on[w], a)'
    BY <1>1, <2>2, StoredStays DEF Stored
  <2> QED BY <1>1, <2>1, <2>2, RecordStays DEF AnsweredBySubmission
<1>2. CASE \E p \in Posts : Deliver(p) /\ notified[p] = w
  <2> PICK p \in Posts : Deliver(p) /\ notified[p] = w
    BY <1>2
  <2> DEFINE e == about[p]
  <2>1. e \in Elicitations /\ on[w] = e /\ UNCHANGED on
    BY DEF Deliver, TypeOK, Origins
  <2>2. wait'[w] = Outcome(results[e])
    BY DEF Deliver, TypeOK
  <2>3. results[e] # "none" \/ records[e] = "removed"
    BY DEF Deliver, Origins
  <2>4. results[e] \in {"none", "confirm", "cancel"}
    BY <2>1 DEF TypeOK
  <2> HIDE DEF e
  <2>5. CASE results[e] = "confirm"
    <3>1. Stored(on[w], "confirm")'
      BY <2>1, <2>5, StoredStays DEF Origins, Stored
    <3> QED BY <2>2, <2>5, <3>1 DEF Outcome
  <2>6. CASE results[e] = "cancel"
    <3>1. Stored(on[w], "cancel")'
      BY <2>1, <2>6, StoredStays DEF Origins, Stored
    <3> QED BY <2>2, <2>6, <3>1 DEF Outcome
  <2>7. CASE results[e] = "none"
    <3>1. records'[on'[w]] = "removed"
      BY <2>1, <2>3, <2>7, RecordStays
    <3> QED BY <2>2, <2>7, <3>1 DEF Outcome
  <2> QED BY <2>4, <2>5, <2>6, <2>7
<1>3. CASE wait'[w] \in {"waiting", "notified", "rejected", "stranded"}
  BY <1>3
<1> QED
  BY <1>1, <1>2, <1>3
     DEF Next, vars, waits, posts, Create, CleanupExpired, Remove, Expire, Removed,
         Wait, WaitAborted, Abort, Timeout, Rejects, Submit, FormStep, Check,
         StoreResult, Notify, Deliver, Finish, SubmissionFails, DeliveryFails,
         TypeOK

\* A wait is answered only by what a user did on its own form, for any number
\* of elicitations, submissions and waits.
THEOREM AnswersFromForms == Spec => []AnsweredBySubmission
<1>1. Init => AInv
  BY InitTyped, ElicitationAssumption
     DEF Init, AInv, IInv, NotifierIsWaiting, NotifiedOnce, CalledOrRemoved, Origins,
         AnsweredBySubmission
<1>2. AInv /\ [Next]_vars => AInv'
  BY NextTyped, NextWaiting, NextNotified, NextCalled, NextOrigins, NextAnswered
     DEF AInv, IInv
<1>3. AInv => AnsweredBySubmission
  BY DEF AInv
<1> QED BY <1>1, <1>2, <1>3, PTL DEF Spec
-----------------------------------------------------------------------------
(* The store's three maps. *)

\* Records are made in the order of their numbers.
Numbered ==
  \A d, e \in Elicitations : d < e /\ records[d] = "none" => records[e] = "none"

SInv == TypeOK /\ Numbered /\ StoreAgrees

\* Whatever removes a record takes its result and its place in the index along,
\* and makes no number free again.
LEMMA DropKeeps ==
  ASSUME SInv, NEW e \in Elicitations, Drop(e) \/ Lookup(e)
  PROVE  Numbered' /\ StoreAgrees'
<1> USE DEF SInv, TypeOK, Numbered, StoreAgrees, Held
<1>1. CASE Drop(e)
  <2>1. /\ records' \in [Elicitations -> {"none", "pending", "complete", "removed"}]
        /\ \A d \in Elicitations :
             /\ records'[d] = IF d = e /\ Held(e) THEN "removed" ELSE records[d]
             /\ results'[d] = IF d = e THEN "none" ELSE results[d]
    BY <1>1, StoreTyped DEF Drop
  <2>2. index' # None => index' = index /\ index # e /\ index \in Elicitations
    BY <1>1 DEF Drop
  <2>3. Numbered'
    BY <2>1
  <2>4. \A d \in Elicitations : records'[d] = "complete" => results'[d] # "none"
    BY <2>1
  <2>5. index' # None => Held(index)' /\ \A d \in Elicitations : d > index' => records'[d] = "none"
    BY <2>1, <2>2
  <2> QED BY <2>3, <2>4, <2>5
<1>2. CASE UNCHANGED store
  BY <1>2 DEF store
<1> QED BY <1>1, <1>2 DEF Lookup

LEMMA NextStore == SInv /\ [Next]_vars => Numbered' /\ StoreAgrees'
<1> SUFFICES ASSUME SInv, [Next]_vars PROVE Numbered' /\ StoreAgrees'
  OBVIOUS
<1> USE DEF SInv, TypeOK, Numbered, StoreAgrees, Held
<1>1. CASE UNCHANGED <<records, results, index>>
  BY <1>1
<1>2. ASSUME NEW e \in Elicitations, Create(e) PROVE Numbered' /\ StoreAgrees'
  <2>1. \A d \in Elicitations : records'[d] = IF d = e THEN "pending" ELSE records[d]
    BY <1>2 DEF Create
  <2>2. \A d \in Elicitations : d < e => records[d] # "none"
    BY <1>2 DEF Create, Elicitations
  <2>3. \A d \in Elicitations : d > e => records[d] = "none"
    BY <1>2 DEF Create
  <2>4. index' = e /\ results' = results
    BY <1>2 DEF Create
  <2>5. Numbered'
    <3>1. ASSUME NEW c \in Elicitations, NEW d \in Elicitations,
                 c < d, records'[c] = "none"
          PROVE  records'[d] = "none"
      BY <3>1, <2>1, <2>2 DEF Elicitations
    <3> QED BY <3>1
  <2>6. Held(index)' /\ \A d \in Elicitations : d > index' => records'[d] = "none"
    BY <2>1, <2>3, <2>4 DEF Elicitations
  <2>7. \A d \in Elicitations : records'[d] = "complete" => results'[d] # "none"
    BY <2>1, <2>4
  <2> QED BY <2>5, <2>6, <2>7
<1>3. ASSUME NEW e \in Elicitations, Drop(e) \/ Lookup(e) PROVE Numbered' /\ StoreAgrees'
  BY <1>3, DropKeeps
<1>4. ASSUME NEW p \in Posts, StoreResult(p) PROVE Numbered' /\ StoreAgrees'
  <2>1. about[p] \in Elicitations /\ choice[p] # "none"
    BY <1>4 DEF StoreResult
  <2>2. /\ records' = [records EXCEPT ![about[p]] = IF Held(about[p]) THEN "complete" ELSE @]
        /\ results' = [results EXCEPT ![about[p]] = choice[p]]
        /\ index' = index
    BY <1>4 DEF StoreResult
  <2> QED BY <2>1, <2>2
<1>5. ASSUME NEW p \in Posts, Check(p) PROVE Numbered' /\ StoreAgrees'
  BY <1>5, <1>3 DEF Check
<1> QED
  BY <1>1, <1>2, <1>3, <1>4, <1>5
     DEF Next, vars, store, posts, waits, CleanupExpired, Remove, Expire, Removed,
         Wait, WaitAborted, Abort, Timeout, Rejects, Submit, FormStep, Notify,
         Deliver, Finish, SubmissionFails, DeliveryFails

\* The index leads to the newest record while that is held, and a completed
\* record has its result, for any number of elicitations and submissions
\* (storeResult and removeElicitation of the store, in any order).
THEOREM StoreInStep == Spec => []StoreAgrees
<1>1. Init => Numbered /\ StoreAgrees
  BY DEF Init, Numbered, StoreAgrees
<1>2. SInv /\ [Next]_vars => Numbered' /\ StoreAgrees'
  BY NextStore
<1>3. SInv <=> TypeOK /\ Numbered /\ StoreAgrees
  BY DEF SInv
<1> QED BY TypeCorrect, <1>1, <1>2, <1>3, PTL DEF Spec
=============================================================================
