---------------------------- MODULE AcpCheckout ----------------------------
(***************************************************************************)
(* The ACP endpoints on one checkout session: update, complete and cancel, *)
(* over the store and the flow of CheckoutFlow.  Every POST carries an     *)
(* Idempotency-Key: update and cancel claim theirs before they lock the    *)
(* session, complete claims its own after it has read the session.         *)
(***************************************************************************)
EXTENDS CheckoutFlow

ASSUME AcpSession == Protocol = "acp"

StartComplete(w) ==
    /\ pc[w] = "idle"
    /\ op' = [op EXCEPT ![w] = "complete"]
    /\ Goto(w, "lock")
    /\ UNCHANGED <<store, key, snap, begun, event, django>>

StartKeyed(w, call) ==
    /\ pc[w] = "idle"
    /\ op' = [op EXCEPT ![w] = call]
    /\ Goto(w, "claim")
    /\ UNCHANGED <<store, key, snap, begun, event, django>>

(* A replay of a settled key goes on to lock, read and render; one with    *)
(* another body is refused, like a key in flight.                          *)
ClaimKeyed(w) ==
    /\ pc[w] = "claim" /\ op[w] \in {"update", "cancel"}
    /\ \E k \in Key :
        \/ TakeClaim(w, op[w], k, "lock", "unlock")
        \/ /\ claim[<<op[w], k>>] = "done"
           /\ op' = [op EXCEPT ![w] = "replay"]
           /\ Goto(w, "lock")
           /\ UNCHANGED <<store, key, snap, begun, event, django>>

ClaimComplete(w) ==
    /\ pc[w] = "claim" /\ op[w] = "complete"
    /\ \E k \in Key : TakeClaim(w, "complete", k, "choose", "unlock")

(* releaseIdem of a call that fails before it has saved or placed          *)
(* anything.                                                               *)
GiveUp(w) ==
    /\ pc[w] = "giveUp"
    /\ claim' \in {Freed(w)} \cup (IF Failing THEN {claim} ELSE {})
    /\ key' = [key EXCEPT ![w] = NoKey]
    /\ Goto(w, "unlock")
    /\ UNCHANGED <<stored, lock, linked, op, snap, begun, event, django>>

(* storeIdem of an update or a cancel that was saved.                      *)
Record(w) ==
    /\ pc[w] = "record"
    /\ claim' \in {Spent(w)} \cup (IF Failing THEN {claim} ELSE {})
    /\ Goto(w, "unlock")
    /\ UNCHANGED <<stored, lock, linked, op, key, snap, begun, event, django>>

Loading(w, call) == pc[w] = "load" /\ op[w] = call /\ stored.status # "absent"

LoadReplay(w) == Loading(w, "replay") /\ Loaded(w, stored, "unlock")

Settled == Terminal \cup {"in_progress"}

LoadUpdate(w) ==
    /\ Loading(w, "update")
    /\ Loaded(w, stored, IF stored.status \in Settled THEN "giveUp" ELSE "edit")

(* The lookups and cart writes of an update, then selectPayWay: the        *)
(* store's collect-later method for the delivery, if it has one.           *)
Edit(w) ==
    /\ pc[w] = "edit"
    /\ \/ /\ \E d \in BOOLEAN, p \in {"collected", "none"} :
                Hold(w, Recompute(PaidBy(Detailed(snap[w], d), p)))
          /\ Goto(w, "save")
       \/ /\ snap' = snap
          /\ Goto(w, "giveUp")
    /\ UNCHANGED <<store, op, key, begun, event, django>>

LoadComplete(w) ==
    /\ Loading(w, "complete")
    /\ Loaded(w, stored, IF stored.status \in {"completed", "in_progress"}
                          THEN "unlock" ELSE "claim")

(* complete takes no payment instrument.  It may bring the buyer's data;   *)
(* the session must then be ready, and the store must have a collect-later *)
(* pay way for it.                                                         *)
Choose(w) ==
    /\ pc[w] = "choose"
    /\ \/ \E d \in {snap[w].details, TRUE} :
            LET s == Recompute(Detailed(snap[w], d)) IN
            /\ s.status # "incomplete"
            /\ Hold(w, PaidBy(s, "collected"))
            /\ Goto(w, "payWay")
       \/ /\ snap' = snap
          /\ Goto(w, "giveUp")
    /\ UNCHANGED <<store, op, key, begun, event, django>>

(* Mutant: a completion in progress is canceled.                           *)
CancelInProgress(w) ==
    /\ Loading(w, "cancel")
    /\ IF stored.status \in Terminal
        THEN Loaded(w, stored, "giveUp")
        ELSE Loaded(w, To(stored, "canceled"), "save")

LoadCancel(w) ==
    /\ Loading(w, "cancel")
    /\ IF stored.status \in Settled
        THEN Loaded(w, stored, "giveUp")
        ELSE Loaded(w, To(stored, "canceled"), "save")

HandlerStep(w) ==
    \/ ClaimKeyed(w) \/ ClaimComplete(w) \/ GiveUp(w) \/ Record(w)
    \/ LoadReplay(w) \/ LoadUpdate(w) \/ Edit(w)
    \/ LoadComplete(w) \/ Choose(w) \/ LoadCancel(w)

Start == \E w \in Worker :
            \/ StartComplete(w)
            \/ \E call \in {"update", "cancel"} : StartKeyed(w, call)

Next == Start \/ (\E w \in Worker : HandlerStep(w) \/ FlowStep(w)) \/ Around

Spec == Init /\ [][Next]_vars

(* Every call a handler makes is bounded by a timeout, so a handler that   *)
(* runs takes its next step.                                               *)
Fairness ==
    /\ \A w \in Worker : WF_vars(HandlerStep(w) \/ FlowStep(w))
    /\ LockFairness /\ EventFairness

FairSpec == Spec /\ Fairness
=============================================================================
