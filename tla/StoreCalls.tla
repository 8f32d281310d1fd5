----------------------------- MODULE StoreCalls -----------------------------
(***************************************************************************)
(* What the gateway and the store do with one cart, one quotation, one     *)
(* create call, one order and one conversation, side by side.  The parts   *)
(* share no state in the code but the calls that each module models.       *)
(***************************************************************************)
EXTENDS Carts, CartSync, CheckoutView, OrderEvents, AcpCreate, Chat

StoreSpec ==
    CartsSpec /\ SyncSpec /\ ViewSpec /\ OrderEventsSpec /\ CreateSpec /\ ChatSpec

\* Carts, tool calls, cart lists, quotations, orders, events, claims and
\* conversations have the types of their modules.
StoreTypeOK == CartsTypeOK /\ SyncTypeOK /\ ViewTypeOK /\ OrderEventsTypeOK /\ CreateTypeOK /\ ChatTypeOK
=============================================================================
