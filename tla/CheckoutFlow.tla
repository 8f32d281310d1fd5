---------------------------- MODULE CheckoutFlow ----------------------------
(***************************************************************************)
(* One checkout session of the gateway, as the UCP tools and the ACP       *)
(* endpoints share it: the session kept in Redis, its lock, the            *)
(* idempotency claims of its calls, and checkout.Flow, which turns a ready *)
(* session into an order of the Django store and folds order events back   *)
(* into it.                                                                *)
(*                                                                         *)
(* A request is served by a worker (a goroutine of some pod).  The worker  *)
(* takes one step per Redis or Django call; between two calls any other    *)
(* worker may run.  What a handler has read lives in its snapshot snap[w], *)
(* and every Save writes the snapshot back without looking at what is      *)
(* stored by then, as Store.Save does.                                     *)
(*                                                                         *)
(* UcpCheckout and AcpCheckout extend this module with the handlers of the *)
(* two surfaces.                                                           *)
(***************************************************************************)
EXTENDS Naturals

CONSTANTS
    Worker,     \* goroutines serving calls and order events, over all pods
    Key,        \* idempotency keys the platform sends
    NoKey,      \* no claim held
    Free,       \* the lock key is absent
    Orphan,     \* the lock key is set, and no running handler's token fits it
    Protocol,   \* the surface that owns the session: "ucp" or "acp"
    LockLapse,  \* when a lock may lapse under its running holder, see MayLapse
    Faults,     \* which failures a run includes, see FaultKinds
    MaxOrders   \* bound on the orders Django is asked for, violations included

(* "crash": a pod dies under a handler; "redis": a Redis call fails, with  *)
(* its effect applied or not (the reply lost, or the request's context     *)
(* cancelled by a client that went away); "expiry": the TTLs of the        *)
(* session and of the claims run out.                                      *)
FaultKinds == {"crash", "redis", "expiry"}

ASSUME CheckoutConstants ==
    /\ NoKey \notin Key
    /\ Free # Orphan /\ Free \notin Worker /\ Orphan \notin Worker
    /\ Protocol \in {"ucp", "acp"}
    /\ LockLapse \in {"never", "persisted", "any"}
    /\ Faults \subseteq FaultKinds
    /\ MaxOrders \in Nat

VARIABLES
    stored,   \* the session Redis holds (status "absent": no such key)
    lock,     \* the session lock: Free, Orphan or the worker whose token it holds
    claim,    \* the state of every idempotency key, per scope
    pc,       \* where each worker is
    op,       \* the call each worker serves
    key,      \* the claim each worker has to settle, or NoKey
    snap,     \* the session as each worker read and changed it
    begun,    \* has the worker's call stored complete_in_progress?
    event,    \* the order each event handler was told of, 0 for the calls
    orders,   \* Django: the orders placed for this checkout, numbered 1..orders
    keyed,    \* history: how many of them were placed under each key
    cart,     \* Django: does the cart still exist?
    linked,   \* the orders whose order link is in Redis
    paid,     \* Django: the orders whose payment completed
    due       \* Django: those of them whose event it still has to deliver

store == <<stored, lock, claim, linked>>
django == <<orders, keyed, cart, paid, due>>
locals == <<pc, op, key, snap, begun, event>>
vars == <<stored, lock, claim, pc, op, key, snap, begun, event, orders,
          keyed, cart, linked, paid, due>>

-----------------------------------------------------------------------------
(* The session. *)

Open == {"incomplete", "ready"}
Terminal == {"completed", "canceled"}
Status == Open \cup Terminal \cup {"in_progress", "escalation", "absent"}

(* Pay ways by what completion does with them: collected later, Viva's     *)
(* hosted checkout, and the online ones the gateway does not finish.       *)
PayWay == {"collected", "hosted", "unsupported"}

(* details stands for Buyer.Complete, Fulfillment.Complete and a region    *)
(* where the country has them; order is the number of the order the        *)
(* session knows (0: none), link says that it holds a payment URL.         *)
Session == [status: Status, details: BOOLEAN, payWay: PayWay \cup {"none"},
            order: Nat, link: BOOLEAN]

(* A session with one field set.                                           *)
To(s, status) == [s EXCEPT !.status = status]
Detailed(s, d) == [s EXCEPT !.details = d]
PaidBy(s, p) == [s EXCEPT !.payWay = p]
Ordered(s, o) == [s EXCEPT !.order = o]
Linked(s, l) == [s EXCEPT !.link = l]

Fresh == [status |-> "incomplete", details |-> FALSE, payWay |-> "none",
          order |-> 0, link |-> FALSE]
Absent == To(Fresh, "absent")

(* ACP resolves the pay way at completion, so readiness needs none there.  *)
PayReady(s) == Protocol = "acp" \/ s.payWay # "none"

(* The pre-completion status follows the collected data; every other       *)
(* status belongs to the flow.                                             *)
Recompute(s) ==
    IF s.status \notin Open THEN s
    ELSE To(s, IF s.details /\ PayReady(s) THEN "ready" ELSE "incomplete")

(* ACP selects collect-later pay ways only.  UCP names an instrument,      *)
(* which is one of those too, or any pay way by its id where the hosted    *)
(* selection is negotiated.                                                *)
Selectable == IF Protocol = "acp" THEN {"collected"} ELSE PayWay

(* What a create call leaves in Redis: buyer, delivery and payment as far  *)
(* as the platform sent them.  Nobody knows the session's id before the    *)
(* call answers, so no other call meets it earlier.                        *)
Created == {Recompute(PaidBy(Detailed(Fresh, d), p)) :
               d \in BOOLEAN, p \in Selectable \cup {"none"}}

(* The scopes idempotency keys live in.  UCP claims a key for              *)
(* complete_checkout alone.                                                *)
Scope == IF Protocol = "acp" THEN {"complete", "update", "cancel"}
                             ELSE {"complete"}

Call == {"none", "replay", "complete", "update", "cancel", "event"}
Place == {"idle", "lock", "load", "edit", "choose", "claim", "resume",
          "payWay", "reserve", "persist", "create", "index", "pay",
          "spend", "free", "save", "record", "giveUp", "unlock"}

TypeOK ==
    /\ stored \in Session
    /\ lock \in Worker \cup {Free, Orphan}
    /\ claim \in [Scope \X Key -> {"none", "inflight", "done"}]
    /\ pc \in [Worker -> Place]
    /\ op \in [Worker -> Call]
    /\ key \in [Worker -> Key \cup {NoKey}]
    /\ snap \in [Worker -> Session]
    /\ begun \in [Worker -> BOOLEAN]
    /\ event \in [Worker -> 0..MaxOrders]
    /\ orders \in 0..MaxOrders
    /\ keyed \in [Key -> 0..orders]
    /\ cart \in BOOLEAN
    /\ linked \subseteq 1..orders
    /\ paid \subseteq 1..orders
    /\ due \subseteq paid

Init ==
    /\ stored \in Created
    /\ lock = Free
    /\ claim = [c \in Scope \X Key |-> "none"]
    /\ pc = [w \in Worker |-> "idle"]
    /\ op = [w \in Worker |-> "none"]
    /\ key = [w \in Worker |-> NoKey]
    /\ snap = [w \in Worker |-> Absent]
    /\ begun = [w \in Worker |-> FALSE]
    /\ event = [w \in Worker |-> 0]
    /\ orders = 0
    /\ keyed = [k \in Key |-> 0]
    /\ cart = TRUE
    /\ linked = {}
    /\ paid = {}
    /\ due = {}

-----------------------------------------------------------------------------
(* The store: lock, claims, session. *)

Goto(w, p) == pc' = [pc EXCEPT ![w] = p]
Hold(w, s) == snap' = [snap EXCEPT ![w] = s]
Failing == "redis" \in Faults

(* The handler is over: its locals are gone.                               *)
Forget(w) ==
    /\ pc' = [pc EXCEPT ![w] = "idle"]
    /\ op' = [op EXCEPT ![w] = "none"]
    /\ key' = [key EXCEPT ![w] = NoKey]
    /\ Hold(w, Absent)
    /\ begun' = [begun EXCEPT ![w] = FALSE]
    /\ event' = [event EXCEPT ![w] = 0]

(* Mutant: order events fold into the session without its lock.            *)
EventsSkipLock(w) ==
    /\ pc[w] = "lock"
    /\ IF op[w] = "event" THEN lock' = lock /\ Goto(w, "load")
       ELSE IF lock = Free THEN lock' = w /\ Goto(w, "load")
       ELSE lock' = lock /\ Goto(w, IF key[w] # NoKey THEN "giveUp" ELSE "unlock")
    /\ UNCHANGED <<stored, claim, linked, op, key, snap, begun, event, django>>

(* Store.Lock: set if absent.  A busy session ends the call, after the     *)
(* claim an ACP update or cancel already holds; a failed SETNX may have    *)
(* set a token that nobody will release.                                   *)
TakeLock(w) ==
    /\ pc[w] = "lock"
    /\ \/ /\ lock = Free
          /\ lock' = w
          /\ Goto(w, "load")
       \/ /\ \/ lock # Free /\ lock' = lock
             \/ Failing /\ lock = Free /\ lock' \in {Free, Orphan}
          /\ Goto(w, IF key[w] # NoKey THEN "giveUp" ELSE "unlock")
    /\ UNCHANGED <<stored, claim, linked, op, key, snap, begun, event, django>>

(* The deferred release: compare-and-delete, so a lock that lapsed and was *)
(* taken by another worker stays.  An error leaves the key to its TTL.     *)
Unlock(w) ==
    /\ pc[w] = "unlock"
    /\ lock' \in IF lock # w THEN {lock}
                 ELSE {Free} \cup (IF Failing THEN {Orphan} ELSE {})
    /\ Forget(w)
    /\ UNCHANGED <<stored, claim, linked, django>>

(* The answer to an event's delivery: the store stops repeating it.        *)
Answer(w) == due' = due \ {event[w]}

(* Load found no session, or failed: the lock is released and the claim,   *)
(* if one is held, given up.  An event of a session that is gone is over.  *)
LoadNothing(w) ==
    /\ pc[w] = "load"
    /\ \/ stored.status = "absent" /\ Answer(w)
       \/ Failing /\ due' = due
    /\ lock' \in IF lock # w THEN {lock}
                 ELSE {Free} \cup (IF Failing THEN {Orphan} ELSE {})
    /\ Goto(w, IF key[w] # NoKey THEN "giveUp" ELSE "unlock")
    /\ UNCHANGED <<stored, claim, linked, op, key, snap, begun,
                   event, orders, keyed, cart, paid>>

(* Load found the session: the handler goes on at place p with snapshot s. *)
Loaded(w, s, p) ==
    /\ Hold(w, s)
    /\ Goto(w, p)
    /\ UNCHANGED <<store, op, key, begun, event, django>>

(* Mutant: only a settled key is refused, one in flight is taken over.     *)
TakeUnsettledClaim(w, scope, k, p, q) ==
    LET c == <<scope, k>> IN
    /\ IF claim[c] # "done"
        THEN /\ claim' = [claim EXCEPT ![c] = "inflight"]
             /\ key' = [key EXCEPT ![w] = k]
             /\ Goto(w, p)
        ELSE Goto(w, q) /\ UNCHANGED <<claim, key>>
    /\ UNCHANGED <<stored, lock, linked, op, snap, begun, event, django>>

(* ClaimCompletion and claimIdem: set "inflight" if absent.  A claimed key *)
(* goes on at place p; a key already there, in flight or settled, and a    *)
(* failed SETNX all end the call at place q.                               *)
TakeClaim(w, scope, k, p, q) ==
    LET c == <<scope, k>> IN
    /\ \/ /\ claim[c] = "none"
          /\ claim' = [claim EXCEPT ![c] = "inflight"]
          /\ key' = [key EXCEPT ![w] = k]
          /\ Goto(w, p)
       \/ /\ \/ claim[c] # "none" /\ claim' = claim
             \/ /\ Failing /\ claim[c] = "none"
                /\ claim' \in {claim, [claim EXCEPT ![c] = "inflight"]}
          /\ key' = key
          /\ Goto(w, q)
    /\ UNCHANGED <<stored, lock, linked, op, snap, begun, event, django>>

(* The claims after the worker's key is settled, or released.              *)
Spent(w) == [claim EXCEPT ![<<op[w], key[w]>>] = "done"]
Freed(w) == [claim EXCEPT ![<<op[w], key[w]>>] = "none"]

(* MarkCompleted and storeIdem after an order that exists, or may: errors  *)
(* are ignored.  UCP does not save the session of an unknown outcome.      *)
SpendKey(w) ==
    /\ pc[w] = "spend"
    /\ claim' \in {Spent(w)} \cup (IF Failing THEN {claim} ELSE {})
    /\ Goto(w, IF Protocol = "ucp" /\ snap[w].order = 0
                 THEN "unlock" ELSE "save")
    /\ UNCHANGED <<stored, lock, linked, op, key, snap, begun, event, django>>

(* Mutant: a failed attempt spends its key too.                            *)
SpendFailedKey(w) ==
    /\ pc[w] = "free"
    /\ claim' = Spent(w)
    /\ key' = [key EXCEPT ![w] = NoKey]
    /\ Goto(w, "save")
    /\ UNCHANGED <<stored, lock, linked, op, snap, begun, event, django>>

(* ReleaseCompletion and releaseIdem after an attempt that placed nothing. *)
FreeKey(w) ==
    /\ pc[w] = "free"
    /\ claim' \in {Freed(w)} \cup (IF Failing THEN {claim} ELSE {})
    /\ key' = [key EXCEPT ![w] = NoKey]
    /\ Goto(w, "save")
    /\ UNCHANGED <<stored, lock, linked, op, snap, begun, event, django>>

(* Store.Save at the end of a handler: a blind write, or a delete once the *)
(* placed session's lifetime is over.                                      *)
SaveOutcome(s) ==
    {s} \cup (IF s.order # 0 /\ "expiry" \in Faults THEN {Absent} ELSE {})

Save(w) ==
    /\ pc[w] = "save"
    /\ \/ /\ stored' \in SaveOutcome(snap[w])
          /\ Answer(w)
          /\ Goto(w, IF key[w] # NoKey /\ op[w] \in {"update", "cancel"}
                       THEN "record" ELSE "unlock")
       \/ /\ Failing
          /\ stored' \in {stored} \cup SaveOutcome(snap[w])
          /\ due' = due
          /\ Goto(w, IF key[w] # NoKey /\ op[w] \in {"update", "cancel"}
                       THEN "giveUp" ELSE "unlock")
    /\ UNCHANGED <<lock, claim, linked, op, key, snap, begun, event,
                   orders, keyed, cart, paid>>

-----------------------------------------------------------------------------
(* Flow.Complete. *)

(* A session that is not ready is refused; so is a pay way the store no    *)
(* longer offers for the delivery, one the gateway cannot finish, and a    *)
(* failed lookup.                                                          *)
CheckPayWay(w) ==
    /\ pc[w] = "payWay"
    /\ \/ /\ snap[w].status = "ready"
          /\ snap[w].payWay \in {"collected", "hosted"}
          /\ Goto(w, "reserve")
       \/ Goto(w, "free")
    /\ UNCHANGED <<store, op, key, snap, begun, event, django>>

(* ReserveStock, or its refusal or failure.                                *)
ReserveStock(w) ==
    /\ pc[w] = "reserve"
    /\ Goto(w, "persist") \/ Goto(w, "free")
    /\ UNCHANGED <<store, op, key, snap, begun, event, django>>

(* complete_in_progress is stored before the order is asked for.  A failed *)
(* save makes the snapshot ready again, even if Redis applied it.          *)
InProgress(s) == To(s, "in_progress")

(* Mutant: the session reads in progress in the handler only.              *)
KeepInProgress(w) ==
    /\ pc[w] = "persist"
    /\ Hold(w, InProgress(snap[w]))
    /\ begun' = [begun EXCEPT ![w] = TRUE]
    /\ Goto(w, "create")
    /\ UNCHANGED <<store, op, key, event, django>>

Persist(w) ==
    /\ pc[w] = "persist"
    /\ \/ /\ stored' = InProgress(snap[w])
          /\ Hold(w, InProgress(snap[w]))
          /\ begun' = [begun EXCEPT ![w] = TRUE]
          /\ Goto(w, "create")
       \/ /\ Failing
          /\ stored' \in {stored, InProgress(snap[w])}
          /\ Goto(w, "free")
          /\ UNCHANGED <<snap, begun>>
    /\ UNCHANGED <<lock, claim, linked, op, key, event, django>>

(* Django places the order.  It deletes the cart of an order collected     *)
(* later and keeps the cart of one awaiting hosted payment.                *)
PlaceOrder(w) ==
    /\ cart /\ orders < MaxOrders
    /\ orders' = orders + 1
    /\ keyed' = [keyed EXCEPT ![key[w]] = @ + 1]
    /\ cart' = (snap[w].payWay = "hosted")
    /\ UNCHANGED <<paid, due>>

(* Mutant: a request without an answer counts as refused.                  *)
TimeoutIsRefusal(w) ==
    /\ pc[w] = "create"
    /\ \/ /\ PlaceOrder(w)
          /\ Hold(w, Ordered(snap[w], orders'))
          /\ Goto(w, "index")
       \/ /\ PlaceOrder(w) \/ UNCHANGED django
          /\ Hold(w, To(snap[w], "ready"))
          /\ Goto(w, "free")
    /\ UNCHANGED <<store, op, key, begun, event>>

(* Mutant: a request without an answer counts as placed.                   *)
TimeoutIsSuccess(w) ==
    /\ pc[w] = "create"
    /\ \/ /\ PlaceOrder(w)
          /\ Hold(w, Ordered(snap[w], orders'))
          /\ Goto(w, "index")
       \/ /\ PlaceOrder(w) \/ UNCHANGED django
          /\ snap' = snap
          /\ Goto(w, "index")
    /\ UNCHANGED <<store, op, key, begun, event>>

(* CreateOrder: placed and answered; no answer, with the order placed or   *)
(* not (ErrOrderOutcomeUnknown); refused with a 4xx, so nothing exists and *)
(* the snapshot is ready again.                                            *)
CreateOrder(w) ==
    /\ pc[w] = "create"
    /\ \/ /\ PlaceOrder(w)
          /\ Hold(w, Ordered(snap[w], orders'))
          /\ Goto(w, "index")
       \/ /\ PlaceOrder(w) \/ UNCHANGED django
          /\ snap' = snap
          /\ Goto(w, "spend")
       \/ /\ UNCHANGED django
          /\ Hold(w, To(snap[w], "ready"))
          /\ Goto(w, "free")
    /\ UNCHANGED <<store, op, key, begun, event>>

(* IndexOrder, whose failure is only logged; then an order collected later *)
(* completes the session, and a hosted one goes on to its payment link.    *)
IndexOrder(w) ==
    /\ pc[w] = "index"
    /\ linked' \in {linked \cup {snap[w].order}}
                   \cup (IF Failing THEN {linked} ELSE {})
    /\ \/ /\ snap[w].payWay # "hosted"
          /\ Hold(w, To(snap[w], "completed"))
          /\ Goto(w, "spend")
       \/ /\ snap[w].payWay = "hosted"
          /\ Hold(w, To(snap[w], "escalation"))
          /\ Goto(w, "pay")
    /\ UNCHANGED <<stored, lock, claim, op, key, begun, event, django>>

(* startPayment: the hosted payment link, or none.                         *)
StartPayment(w) ==
    /\ pc[w] = "pay"
    /\ \E made \in BOOLEAN : Hold(w, Linked(snap[w], made))
    /\ Goto(w, "spend")
    /\ UNCHANGED <<store, op, key, begun, event, django>>

(* ResumePayment's call for a session whose first link failed: a second    *)
(* failure ends the handler without a save.                                *)
ResumePayment(w) ==
    /\ pc[w] = "resume"
    /\ \/ /\ Hold(w, Linked(snap[w], TRUE))
          /\ Goto(w, "save")
       \/ /\ snap' = snap
          /\ Goto(w, "unlock")
    /\ UNCHANGED <<store, op, key, begun, event, django>>

(* ApplyOrderEvent, for a payment that completed: the order's link names   *)
(* the checkout.  A busy lock, a failed read and a failed save end in a    *)
(* 503, and the store sends the event again; later events of a paid order  *)
(* carry the same payment status.                                          *)
StartEvent(w, o) ==
    /\ pc[w] = "idle"
    /\ o \in linked \cap paid
    /\ op' = [op EXCEPT ![w] = "event"]
    /\ event' = [event EXCEPT ![w] = o]
    /\ Goto(w, "lock")
    /\ UNCHANGED <<store, key, snap, begun, django>>

(* OrderLinkFor finds no link: the answer is final and nothing is told.    *)
DropEvent(o) ==
    /\ o \in due \ linked
    /\ due' = due \ {o}
    /\ UNCHANGED <<store, locals, orders, keyed, cart, paid>>

(* Mutant: the event of an order whose completion never finished is        *)
(* answered without a change.                                              *)
CompleteEscalated(w) ==
    /\ pc[w] = "load" /\ op[w] = "event"
    /\ stored.status # "absent"
    /\ \/ /\ stored.status # "escalation"
          /\ Hold(w, stored)
          /\ Answer(w)
          /\ Goto(w, "unlock")
       \/ /\ stored.status = "escalation"
          /\ Hold(w, To(stored, "completed"))
          /\ due' = due
          /\ Goto(w, "save")
    /\ UNCHANGED <<store, op, key, begun, event, orders, keyed, cart, paid>>

LoadEvent(w) ==
    /\ pc[w] = "load" /\ op[w] = "event"
    /\ stored.status # "absent"
    /\ \/ /\ stored.status \in Terminal
          /\ Hold(w, stored)
          /\ Answer(w)
          /\ Goto(w, "unlock")
       \/ /\ stored.status \notin Terminal
          /\ Hold(w, To(stored, "completed"))
          /\ due' = due
          /\ Goto(w, "save")
    /\ UNCHANGED <<store, op, key, begun, event, orders, keyed, cart, paid>>

-----------------------------------------------------------------------------
(* What happens around the handlers. *)

(* The lock's TTL is ten seconds; one upstream call may take as long, and  *)
(* a read is tried three times.  "persisted": a lock lapses only under a   *)
(* handler that has stored complete_in_progress.                           *)
MayLapse(w) == LockLapse = "any" \/ (LockLapse = "persisted" /\ begun[w])

LapseLock(w) ==
    /\ lock = w /\ MayLapse(w)
    /\ lock' = Free
    /\ UNCHANGED <<stored, claim, linked, locals, django>>

(* Mutant: the lock is set without a TTL.                                  *)
KeepLock == FALSE /\ UNCHANGED vars

(* The TTL frees a lock nobody will release.                               *)
ExpireLock ==
    /\ lock = Orphan
    /\ lock' = Free
    /\ UNCHANGED <<stored, claim, linked, locals, django>>

(* A claim in flight lives one minute, less than a slow completion takes; a *)
(* settled one as long as a placed session.                                *)
ExpireClaim(c) ==
    /\ "expiry" \in Faults
    /\ \/ claim[c] = "inflight"
       \/ claim[c] = "done" /\ stored.status = "absent"
    /\ claim' = [claim EXCEPT ![c] = "none"]
    /\ UNCHANGED <<stored, lock, linked, locals, django>>

(* Reads do not extend a session's TTL; a session nobody saves ends.       *)
ExpireSession ==
    /\ "expiry" \in Faults
    /\ stored.status # "absent"
    /\ stored' = Absent
    /\ UNCHANGED <<lock, claim, linked, locals, django>>

(* A pod dies under a handler.  Its locals are gone; its lock and its      *)
(* claim wait for their TTLs.                                              *)
Crash(w) ==
    /\ "crash" \in Faults
    /\ pc[w] # "idle"
    /\ lock' = IF lock = w THEN Orphan ELSE lock
    /\ Forget(w)
    /\ UNCHANGED <<stored, claim, linked, django>>

(* The buyer pays, or the courier collects.                                *)
PayOrder ==
    /\ \E o \in (1..orders) \ paid :
        /\ paid' = paid \cup {o}
        /\ due' = due \cup {o}
    /\ UNCHANGED <<store, locals, orders, keyed, cart>>

(* The steps of checkout.Flow and of the handlers' shared calls.           *)
FlowStep(w) ==
    \/ TakeLock(w) \/ LoadNothing(w) \/ Unlock(w)
    \/ CheckPayWay(w) \/ ReserveStock(w) \/ Persist(w) \/ CreateOrder(w)
    \/ IndexOrder(w) \/ StartPayment(w) \/ SpendKey(w) \/ FreeKey(w)
    \/ Save(w) \/ LoadEvent(w)

Around ==
    \/ \E w \in Worker : LapseLock(w) \/ Crash(w)
    \/ \E w \in Worker, o \in 1..MaxOrders : StartEvent(w, o)
    \/ \E o \in 1..MaxOrders : DropEvent(o)
    \/ ExpireLock \/ ExpireSession \/ PayOrder
    \/ \E c \in Scope \X Key : ExpireClaim(c)

(* Redis drops a lock whose TTL ran out.  The store repeats an event until *)
(* it is answered: over and over it delivers one to an unlocked session,   *)
(* and one of these deliveries gets the lock.  Pods do not die for ever.   *)
LockFairness == WF_vars(ExpireLock)
EventFairness ==
    /\ SF_vars(lock = Free /\ \E w \in Worker, o \in due : StartEvent(w, o))
    /\ SF_vars(\E w \in Worker : op[w] = "event" /\ lock = Free /\ TakeLock(w))
    /\ <>[][~ \E w \in Worker : Crash(w)]_vars

-----------------------------------------------------------------------------
(* Properties of the checkout, whichever surface drives it. *)

(* A checkout places one order, whichever keys its completions come with:  *)
(* flow.go stores complete_in_progress first so that a second completion   *)
(* meets it.                                                               *)
AtMostOneOrder == orders <= 1

(* The session shows a placed order: once one exists, no reader finds a    *)
(* session that is still to be edited or completed.                        *)
OpenHasNoOrder == stored.status \in Open => orders = 0

(* A canceled session leaves no order behind, neither one it placed before *)
(* nor one a racing completion places afterwards.                          *)
CanceledHasNoOrder == stored.status = "canceled" => orders = 0

(* A key is spent only for an order that exists or may: the platform that  *)
(* repeats it must not be shown a session that still waits to be completed *)
(* and that this key can never complete.                                   *)
SpentKeyClosesSession ==
    (\E k \in Key : claim[<<"complete", k>>] = "done")
        => stored.status \notin Open

(* Two orders are never placed under one idempotency key, even where the   *)
(* session lock fails to keep two completions apart.                       *)
OneOrderPerKey == \A k \in Key : keyed[k] <= 1

(* A session that knows its order keeps it, and goes nowhere but to        *)
(* completed: not back to an editable state, not to canceled.  (Where the  *)
(* lock never lapses: an event that loaded the session before a slow       *)
(* completion saved its order would otherwise write the order away.)       *)
KnownOrderStays ==
    [][stored.order # 0 =>
        \/ stored'.status = "absent"
        \/ /\ stored'.order = stored.order
           /\ stored'.status \in {stored.status, "completed"}]_vars

(* What the buyer paid for is shown as completed, whatever state the       *)
(* completion left the session in: the store repeats the event until a     *)
(* handler has found the session unlocked and saved it.                    *)
PaidIsShown ==
    (due \cap linked # {}) ~> (stored.status \in {"completed", "absent"})

(* The promise of CheckoutLifecycle, with the stored status and the store's *)
(* orders as its state.                                                    *)
Lifecycle == INSTANCE CheckoutLifecycle
                WITH status <- stored.status, placed <- orders
ImplementsLifecycle == Lifecycle!Spec
=============================================================================
