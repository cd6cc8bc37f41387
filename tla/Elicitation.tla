----------------------------- MODULE Elicitation -----------------------------
(***************************************************************************)
(* URL elicitations: ElicitationService and its controller over a store.   *)
(* Handlers wait for forms with waitForCompletion, users submit them, the  *)
(* store expires them.  Each store method takes effect at once; since a    *)
(* store may be remote, anything may happen at the await around it, and    *)
(* the method may reject, which then has no effect.                        *)
(*                                                                         *)
(* All elicitations are of one user and one metadata.type, so they share   *)
(* one entry of userTypeIndex.  They are numbered as they are created.     *)
(***************************************************************************)
EXTENDS Naturals

CONSTANTS
  Count,        \* elicitations that are created
  Posts,        \* submissions of a form
  Waits,        \* calls of waitForCompletion
  TimedWaits,   \* those of them with timeoutMs
  None          \* no call of waitForCompletion, no elicitation

ASSUME ElicitationAssumption ==
  /\ Count \in Nat \ {0}
  /\ TimedWaits \subseteq Waits
  /\ None \notin Waits \union Nat

Elicitations == 1..Count

VARIABLES
  records,    \* store.elicitations: the status of each record
  expired,    \* records whose expiresAt has passed
  results,    \* store.results: the action of each
  index,      \* store.userTypeIndex for the one key
  notifiers,  \* notifierRegistry: the wait whose notifier it holds
  removing,   \* removeElicitation calls that await the store
  form,       \* where each submission stands
  about,      \* its elicitation
  choice,     \* its action
  notified,   \* the wait whose notifier the submission awaits
  wait,       \* where each wait stands
  on,         \* its elicitation
  \* History, which no guard reads:
  late        \* waits called after a submission had looked for a notifier

store == <<records, expired, results, index>>
posts == <<form, about, choice, notified>>
waits == <<wait, on, late>>
vars == <<store, notifiers, removing, posts, waits>>

Init ==
  /\ records = [e \in Elicitations |-> "none"]
  /\ expired = {}
  /\ results = [e \in Elicitations |-> "none"]
  /\ index = None
  /\ notifiers = [e \in Elicitations |-> None]
  /\ removing = {}
  /\ form = [p \in Posts |-> "idle"]
  /\ about = [p \in Posts |-> None]
  /\ choice = [p \in Posts |-> "none"]
  /\ notified = [p \in Posts |-> None]
  /\ wait = [w \in Waits |-> "idle"]
  /\ on = [w \in Waits |-> None]
  /\ late = {}

(***************************************************************************)
(* The store                                                               *)
(***************************************************************************)
Held(e) == records[e] \in {"pending", "complete"}

\* Slip: the index keeps pointing at a removed record.
DropKeepsIndex(e) ==
  /\ records' = [records EXCEPT ![e] = "removed"]
  /\ expired' = expired \ {e}
  /\ results' = [results EXCEPT ![e] = "none"]
  /\ UNCHANGED index

\* removeElicitation of the store.
Drop(e) ==
  /\ records' = [records EXCEPT ![e] = IF Held(e) THEN "removed" ELSE @]
  /\ expired' = expired \ {e}
  /\ results' = [results EXCEPT ![e] = "none"]
  /\ index' = IF index = e THEN None ELSE index

\* getElicitation: a record that has expired is removed by looking at it.
Lookup(e) ==
  IF Held(e) /\ e \in expired THEN Drop(e) ELSE UNCHANGED store

Open(e) == records[e] = "pending" /\ e \notin expired

\* createElicitation.
Create(e) ==
  /\ records[e] = "none"
  /\ \A d \in 1..(e - 1) : records[d] # "none"
  /\ records' = [records EXCEPT ![e] = "pending"]
  /\ index' = e
  /\ UNCHANGED <<expired, results, notifiers, removing, posts, waits>>

\* expiresAt passes.
Expire(e) ==
  /\ Held(e) /\ e \notin expired
  /\ expired' = expired \union {e}
  /\ UNCHANGED <<records, results, index, notifiers, removing, posts, waits>>

\* The interval's cleanupExpired, one record at a time.
CleanupExpired(e) ==
  /\ Held(e) /\ e \in expired
  /\ Drop(e)
  /\ UNCHANGED <<notifiers, removing, posts, waits>>

\* removeElicitation of the service, up to its await.
Remove(e) ==
  /\ records[e] # "none" /\ e \notin removing
  /\ Held(e) \/ notifiers[e] # None
  /\ Drop(e)
  /\ removing' = removing \union {e}
  /\ UNCHANGED <<notifiers, posts, waits>>

Removed(e) ==
  /\ e \in removing
  /\ removing' = removing \ {e}
  /\ notifiers' = [notifiers EXCEPT ![e] = None]
  /\ UNCHANGED <<store, expired, posts, waits>>

(***************************************************************************)
(* waitForCompletion                                                       *)
(***************************************************************************)
\* Slip: a wait that ends leaves its notifier registered.
ForgetNotifierNot(e) == notifiers

\* The entry goes, whichever wait it belongs to.
ForgetNotifier(e) == [notifiers EXCEPT ![e] = None]

\* A submission of the elicitation is past its look-up of the notifier.
LookedUp(e) ==
  \E p \in Posts : about[p] = e /\ form[p] \in {"notifying", "delivered", "done"}

\* The notifier replaces one that another wait has registered.
Wait(w, e) ==
  /\ wait[w] = "idle" /\ records[e] # "none"
  /\ on' = [on EXCEPT ![w] = e]
  /\ late' = IF LookedUp(e) THEN late \union {w} ELSE late
  /\ wait' = [wait EXCEPT ![w] = "waiting"]
  /\ notifiers' = [notifiers EXCEPT ![e] = w]
  /\ UNCHANGED <<store, removing, posts>>

\* Called with a signal that is aborted already.
WaitAborted(w, e) ==
  /\ wait[w] = "idle" /\ records[e] # "none"
  /\ on' = [on EXCEPT ![w] = e]
  /\ wait' = [wait EXCEPT ![w] = "rejected"]
  /\ notifiers' = ForgetNotifier(e)
  /\ UNCHANGED <<store, removing, posts, late>>

Rejects(w) ==
  /\ wait[w] = "waiting"
  /\ wait' = [wait EXCEPT ![w] = "rejected"]
  /\ notifiers' = ForgetNotifier(on[w])
  /\ UNCHANGED <<store, removing, posts, on, late>>

Abort(w) == Rejects(w)

Timeout(w) == w \in TimedWaits /\ Rejects(w)

(***************************************************************************)
(* Submitting a form                                                       *)
(***************************************************************************)
\* The controller looks the record up; the api-key form only confirms.  A
\* submission that is turned away leaves no trace.
Submit(p, e, action) ==
  /\ form[p] = "idle" /\ records[e] # "none"
  /\ IF Open(e)
     THEN /\ form' = [form EXCEPT ![p] = "accepted"]
          /\ about' = [about EXCEPT ![p] = e]
          /\ choice' = [choice EXCEPT ![p] = action]
     ELSE UNCHANGED <<form, about, choice>>
  /\ Lookup(e)
  /\ UNCHANGED <<notifiers, removing, notified, waits>>

\* completeElicitation looks it up again.
Check(p) ==
  /\ form[p] = "accepted"
  /\ IF Open(about[p])
     THEN /\ form' = [form EXCEPT ![p] = "checked"]
          /\ UNCHANGED <<about, choice>>
     ELSE /\ form' = [form EXCEPT ![p] = "idle"]
          /\ about' = [about EXCEPT ![p] = None]
          /\ choice' = [choice EXCEPT ![p] = "none"]
  /\ Lookup(about[p])
  /\ UNCHANGED <<notifiers, removing, notified, waits>>

\* A store method rejects before the result is stored: the controller answers
\* with the error, and the user may submit again.
SubmissionFails(p) ==
  /\ form[p] \in {"accepted", "checked"}
  /\ form' = [form EXCEPT ![p] = "idle"]
  /\ about' = [about EXCEPT ![p] = None]
  /\ choice' = [choice EXCEPT ![p] = "none"]
  /\ UNCHANGED <<store, notifiers, removing, notified, waits>>

\* storeResult, into a store that may have lost the record meanwhile.
StoreResult(p) ==
  /\ form[p] = "checked"
  /\ results' = [results EXCEPT ![about[p]] = choice[p]]
  /\ records' = [records EXCEPT ![about[p]] = IF Held(about[p]) THEN "complete" ELSE @]
  /\ form' = [form EXCEPT ![p] = "stored"]
  /\ UNCHANGED <<expired, index, notifiers, removing, about, choice, notified, waits>>

\* The notifier is looked up and called, which ends the wait's timer, abort
\* listener and registration, and awaits the result.
Notify(p) ==
  LET w == notifiers[about[p]] IN
  /\ form[p] = "stored"
  /\ IF w = None
     THEN /\ form' = [form EXCEPT ![p] = "done"]
          /\ UNCHANGED <<notifiers, notified, wait>>
     ELSE /\ form' = [form EXCEPT ![p] = "notifying"]
          /\ notified' = [notified EXCEPT ![p] = w]
          /\ wait' = [wait EXCEPT ![w] = "notified"]
          /\ notifiers' = ForgetNotifier(about[p])
  /\ UNCHANGED <<store, removing, about, choice, on, late>>

\* Slip: every result resolves the promise.
OutcomeResolved(result) == IF result = "none" THEN "lost" ELSE "resolved"

\* What the wait makes of the stored result.
Outcome(result) ==
  CASE result = "confirm" -> "resolved"
    [] result = "cancel" -> "cancelled"
    [] result = "none" -> "lost"

\* Slip: a result that is gone by now ends nothing.
DeliverFound(p) ==
  /\ form[p] = "notifying"
  /\ wait' = IF results[about[p]] = "none"
             THEN wait
             ELSE [wait EXCEPT ![notified[p]] = Outcome(results[about[p]])]
  /\ notified' = [notified EXCEPT ![p] = None]
  /\ form' = [form EXCEPT ![p] = "delivered"]
  /\ UNCHANGED <<store, notifiers, removing, about, choice, on, late>>

\* The result as it is now settles the wait.
Deliver(p) ==
  /\ form[p] = "notifying"
  /\ wait' = [wait EXCEPT ![notified[p]] = Outcome(results[about[p]])]
  /\ notified' = [notified EXCEPT ![p] = None]
  /\ form' = [form EXCEPT ![p] = "delivered"]
  /\ UNCHANGED <<store, notifiers, removing, about, choice, on, late>>

\* The store rejects getResult, and the catch of completeElicitation takes the
\* rejection: nothing is left that could end the wait.
DeliveryFails(p) ==
  /\ form[p] = "notifying"
  /\ wait' = [wait EXCEPT ![notified[p]] = "stranded"]
  /\ notified' = [notified EXCEPT ![p] = None]
  /\ form' = [form EXCEPT ![p] = "done"]
  /\ UNCHANGED <<store, notifiers, removing, about, choice, on, late>>

\* completeElicitation deletes the registration again, if not another's.
Finish(p) ==
  /\ form[p] = "delivered"
  /\ form' = [form EXCEPT ![p] = "done"]
  /\ notifiers' = ForgetNotifier(about[p])
  /\ UNCHANGED <<store, removing, about, choice, notified, waits>>

FormStep(p) == Check(p) \/ StoreResult(p) \/ Notify(p) \/ Deliver(p) \/ Finish(p)

Next ==
  \/ \E e \in Elicitations : \/ Create(e) \/ Expire(e) \/ CleanupExpired(e)
                             \/ Remove(e) \/ Removed(e)
  \/ \E w \in Waits, e \in Elicitations : Wait(w, e) \/ WaitAborted(w, e)
  \/ \E w \in Waits : Abort(w) \/ Timeout(w)
  \/ \E p \in Posts, e \in Elicitations, a \in {"confirm", "cancel"} : Submit(p, e, a)
  \/ \E p \in Posts : FormStep(p) \/ SubmissionFails(p) \/ DeliveryFails(p)

\* Store methods settle and timers fire; users and handlers owe nothing.
Spec ==
  /\ Init /\ [][Next]_vars
  /\ \A p \in Posts : WF_vars(FormStep(p))
  /\ \A w \in Waits : WF_vars(Timeout(w))

(***************************************************************************)
(* Properties                                                              *)
(***************************************************************************)
\* Every variable keeps its shape, and a submission refers to a wait exactly
\* while it awaits that wait's notifier, to an elicitation once accepted.
TypeOK ==
  /\ records \in [Elicitations -> {"none", "pending", "complete", "removed"}]
  /\ expired \subseteq Elicitations
  /\ results \in [Elicitations -> {"none", "confirm", "cancel"}]
  /\ index \in Elicitations \union {None}
  /\ notifiers \in [Elicitations -> Waits \union {None}]
  /\ removing \subseteq Elicitations
  /\ form \in [Posts -> {"idle", "accepted", "checked", "stored",
                         "notifying", "delivered", "done"}]
  /\ about \in [Posts -> Elicitations \union {None}]
  /\ choice \in [Posts -> {"none", "confirm", "cancel"}]
  /\ notified \in [Posts -> Waits \union {None}]
  /\ wait \in [Waits -> {"idle", "waiting", "notified", "resolved", "cancelled",
                         "rejected", "lost", "stranded"}]
  /\ on \in [Waits -> Elicitations \union {None}]
  /\ late \subseteq Waits
  /\ \A p \in Posts : /\ form[p] # "idle" <=> about[p] # None
                      /\ form[p] # "idle" <=> choice[p] # "none"
                      /\ form[p] = "notifying" <=> notified[p] # None
  /\ \A w \in Waits : wait[w] # "idle" <=> on[w] # None

\* No other wait was called for the elicitation of this one.
Alone(w) == \A v \in Waits : v # w => on[v] # on[w]

\* No notifier outlives its wait: what is registered for an elicitation belongs
\* to a wait for it that is still pending, whatever submissions, aborts,
\* timeouts and further waits have happened (cleanup of waitForCompletion).
\* And no wait loses its notifier but to another wait or with its record: a
\* pending one is registered, and no submission has looked for a notifier and
\* passed it by, unless the wait was called after that (completeElicitation).
NotifierIsWaiting ==
  /\ \A e \in Elicitations :
       notifiers[e] # None => wait[notifiers[e]] = "waiting" /\ on[notifiers[e]] = e
  /\ \A w \in Waits :
       wait[w] = "waiting" /\ Alone(w) /\ records[on[w]] # "removed" =>
         /\ notifiers[on[w]] = w
         /\ LookedUp(on[w]) => w \in late

Stored(e, action) ==
  \E p \in Posts : /\ about[p] = e /\ choice[p] = action
                   /\ form[p] \in {"stored", "notifying", "delivered", "done"}

\* A wait is answered only by what a user did on its own form: it resolves on a
\* confirmation, is cancelled by a cancellation, and is told the result is
\* missing only when the record was removed in between.
AnsweredBySubmission ==
  \A w \in Waits :
    /\ wait[w] = "resolved" => Stored(on[w], "confirm")
    /\ wait[w] = "cancelled" => Stored(on[w], "cancel")
    /\ wait[w] = "lost" => records[on[w]] = "removed"

\* The store's three maps agree: the index leads to a record that is held and
\* that is the newest, and a completed record has its result, in spite of
\* submissions that store theirs after the record has gone.
StoreAgrees ==
  /\ index # None => Held(index) /\ \A e \in Elicitations : e > index => records[e] = "none"
  /\ \A e \in Elicitations : records[e] = "complete" => results[e] # "none"

Ended == {"resolved", "cancelled", "rejected", "lost"}

\* A wait with a timeout ends, though its notifier may be replaced, deleted on
\* account of another, or called and left without a result.  The one way for it
\* to hang is that the store rejects getResult after the notifier has cleared
\* the timer: completeElicitation catches that, and nobody rejects the wait.
TimedWaitsSettle ==
  \A w \in TimedWaits :
    wait[w] = "waiting" ~> wait[w] \in Ended \union {"stranded"}

=============================================================================
