------------------------- MODULE CheckoutLifecycle -------------------------
(***************************************************************************)
(* What a checkout promises its platform and its buyer, with no lock, no   *)
(* claim and no handler in sight: the order is placed at most once, out of *)
(* a completion in progress; until then the session may be edited or       *)
(* canceled, from then on it only moves towards completed.                 *)
(***************************************************************************)
EXTENDS Naturals

VARIABLES
    status,  \* the status a reader of the session sees
    placed   \* how many orders the store holds for the checkout

Open == {"incomplete", "ready"}

TypeOK ==
    /\ status \in Open \cup {"in_progress", "escalation", "completed", "canceled"}
    /\ placed \in 0..1

Init == status \in Open /\ placed = 0

Edit == status \in Open /\ status' \in Open /\ UNCHANGED placed

Cancel == status \in Open /\ status' = "canceled" /\ UNCHANGED placed

Begin == status \in Open /\ status' = "in_progress" /\ UNCHANGED placed

Place == status = "in_progress" /\ placed = 0 /\ placed' = 1 /\ UNCHANGED status

Refuse == /\ status = "in_progress" /\ placed = 0
          /\ status' \in Open
          /\ UNCHANGED placed

Settle == /\ status = "in_progress" /\ placed = 1
          /\ status' \in {"escalation", "completed"}
          /\ UNCHANGED placed

Pay == status = "escalation" /\ status' = "completed" /\ UNCHANGED placed

Next == Edit \/ Cancel \/ Begin \/ Place \/ Refuse \/ Settle \/ Pay

Spec == Init /\ [][Next]_<<status, placed>>
=============================================================================
