---------------------------- MODULE UcpCheckout ----------------------------
(***************************************************************************)
(* The UCP tools on one checkout session: update_checkout,                 *)
(* complete_checkout and cancel_checkout, over the store and the flow of   *)
(* CheckoutFlow.  get_checkout reads and changes nothing.                  *)
(***************************************************************************)
EXTENDS CheckoutFlow

ASSUME UcpSession == Protocol = "ucp"

(* A call whose metadata and negotiation passed: it takes the lock.        *)
StartCall(w, call) ==
    /\ pc[w] = "idle"
    /\ op' = [op EXCEPT ![w] = call]
    /\ Goto(w, "lock")
    /\ UNCHANGED <<store, key, snap, begun, event, django>>

Loading(w, call) == pc[w] = "load" /\ op[w] = call /\ stored.status # "absent"

(* update_checkout serves open sessions only.                              *)
LoadUpdate(w) ==
    /\ Loading(w, "update")
    /\ Loaded(w, stored, IF stored.status \in Open THEN "edit" ELSE "unlock")

(* The store's lookups and cart writes of an update; the first failure     *)
(* ends the call with nothing saved.                                       *)
Edit(w) ==
    /\ pc[w] = "edit"
    /\ \/ /\ \E d \in BOOLEAN, p \in PayWay \cup {snap[w].payWay} :
                Hold(w, Recompute(PaidBy(Detailed(snap[w], d), p)))
          /\ Goto(w, "save")
       \/ /\ snap' = snap
          /\ Goto(w, "unlock")
    /\ UNCHANGED <<store, op, key, begun, event, django>>

(* complete_checkout re-renders a completed session, refuses one in        *)
(* progress, and gives an escalated one its payment link.  A canceled      *)
(* session goes on, for Flow.Complete to refuse.                           *)
LoadComplete(w) ==
    /\ Loading(w, "complete")
    /\ Loaded(w, stored,
         CASE stored.status \in {"completed", "in_progress"} -> "unlock"
           [] stored.status = "escalation" ->
                IF stored.order # 0 /\ ~stored.link THEN "resume" ELSE "save"
           [] OTHER -> "choose")

(* The submitted payment decides how the order settles; without one, the   *)
(* one selected before.                                                    *)
ChoosePay(w) ==
    /\ pc[w] = "choose"
    /\ \/ /\ \E p \in PayWay \cup ({snap[w].payWay} \ {"none"}) :
                Hold(w, Recompute(PaidBy(snap[w], p)))
          /\ Goto(w, "claim")
       \/ /\ snap' = snap
          /\ Goto(w, "unlock")
    /\ UNCHANGED <<store, op, key, begun, event, django>>

ClaimCompletion(w) ==
    /\ pc[w] = "claim"
    /\ \E k \in Key : TakeClaim(w, "complete", k, "payWay", "unlock")

(* Mutant: the order a session knows does not stop its cancellation.       *)
CancelPlaced(w) ==
    /\ Loading(w, "cancel")
    /\ IF stored.status \in {"canceled", "in_progress"}
        THEN Loaded(w, stored, "unlock")
        ELSE Loaded(w, To(stored, "canceled"), "save")

(* cancel_checkout refuses a completion in progress and a session that     *)
(* knows its order.                                                        *)
LoadCancel(w) ==
    /\ Loading(w, "cancel")
    /\ IF stored.status \in {"canceled", "in_progress"} \/ stored.order # 0
        THEN Loaded(w, stored, "unlock")
        ELSE Loaded(w, To(stored, "canceled"), "save")

HandlerStep(w) ==
    \/ LoadUpdate(w) \/ Edit(w)
    \/ LoadComplete(w) \/ ChoosePay(w) \/ ClaimCompletion(w) \/ ResumePayment(w)
    \/ LoadCancel(w)

Start == \E w \in Worker, call \in {"update", "complete", "cancel"} :
            StartCall(w, call)

Next == Start \/ (\E w \in Worker : HandlerStep(w) \/ FlowStep(w)) \/ Around

Spec == Init /\ [][Next]_vars

(* Every call a handler makes is bounded by a timeout, so a handler that   *)
(* runs takes its next step.                                               *)
Fairness ==
    /\ \A w \in Worker : WF_vars(HandlerStep(w) \/ FlowStep(w))
    /\ LockFairness /\ EventFairness

FairSpec == Spec /\ Fairness
=============================================================================
