------------------------- MODULE CheckoutInvariant -------------------------
(***************************************************************************)
(* Why a checkout places one order, as an inductive invariant of the steps *)
(* both surfaces share.  AtMostOneOrder alone is not inductive: it says    *)
(* nothing of a second handler that is about to place its order.           *)
(*                                                                         *)
(* The argument.  Until it has stored complete_in_progress, a handler that *)
(* holds a snapshot holds the lock (HoldersHaveLock).  So the one that     *)
(* stores it is alone, and every handler that loads the session afterwards *)
(* finds it closed: as long as the completion runs, neither the stored     *)
(* session nor any other snapshot can be completed (BusyIsAlone), whether  *)
(* or not the lock still holds.  From the order on this is permanent       *)
(* (OrderClosesSession).  The second part of the module holds what the     *)
(* other theorems need: spent keys, cancellations, saves, known orders.    *)
(***************************************************************************)
EXTENDS CheckoutFlow

(* TypeOK with what it rests on: the order a handler links to its checkout *)
(* exists.                                                                 *)
IndexedIsPlaced ==
    \A w \in Worker : pc[w] = "index" => snap[w].order \in 1..orders
TypeInv == TypeOK /\ IndexedIsPlaced

(* Where a handler has a snapshot it may still save.  An ACP update or     *)
(* cancel claims its key before it locks.                                  *)
Writing == {"edit", "choose", "claim", "resume", "payWay", "reserve",
            "persist", "create", "index", "pay", "spend", "free", "save"}
Early(w) == Protocol = "acp" /\ pc[w] = "claim" /\ op[w] \in {"update", "cancel"}
Writes(w) == pc[w] \in Writing /\ ~Early(w)

(* A completion between its complete_in_progress and its last save.        *)
Busy(w) == begun[w] /\ Writes(w)

HoldersHaveLock ==
    \A w \in Worker : (Writes(w) \/ pc[w] = "load") /\ ~begun[w] => lock = w

(* What a handler's place says of it: begun is set from Persist on, an     *)
(* order is asked for out of a ready snapshot, and reported in a closed    *)
(* one.                                                                    *)
Fits(w) ==
    /\ begun[w] => pc[w] \in {"create", "index", "pay", "spend", "free",
                             "save", "record", "giveUp", "unlock"}
    /\ pc[w] \in {"create", "index", "pay", "spend"} =>
          begun[w] /\ snap[w].status \notin Open
    /\ pc[w] \in {"reserve", "persist"} => snap[w].status = "ready"

PlacesFit == \A w \in Worker : Fits(w)

OneBusy == \A v, w \in Worker : Busy(v) /\ Busy(w) => v = w

BusyIsAlone ==
    \A w \in Worker : Busy(w) =>
        /\ stored.status \notin Open
        /\ \A v \in Worker \ {w} : Writes(v) => snap[v].status \notin Open

OrderClosesSession ==
    orders # 0 =>
        /\ stored.status \notin Open
        /\ \A w \in Worker : Writes(w) => snap[w].status \notin Open

CreateIsFirst == \A w \in Worker : pc[w] = "create" => orders = 0

(* The inductive invariant: a handler that places the order of a checkout  *)
(* is the only one that can, now and later.                                *)
OneOrderInv ==
    /\ HoldersHaveLock
    /\ PlacesFit
    /\ OneBusy
    /\ BusyIsAlone
    /\ OrderClosesSession
    /\ CreateIsFirst
    /\ AtMostOneOrder
-----------------------------------------------------------------------------
(* What else holds of a checkout, each an invariant of the shared steps    *)
(* together with TypeInv and OneOrderInv.                                  *)

(* No snapshot that may still be saved has a status of S, nor has the      *)
(* stored session.                                                         *)
Without(S) ==
    /\ stored.status \notin S
    /\ \A w \in Worker : Writes(w) => snap[w].status \notin S

(* A spent key closes the session as an order does: SpentKeyClosesSession  *)
(* alone says nothing of the handlers that may still save.                 *)
KeySpent == \E k \in Key : claim[<<"complete", k>>] = "done"

SpentInv ==
    /\ KeySpent => Without(Open) /\ \A w \in Worker : pc[w] # "create"
    /\ \A w \in Worker : pc[w] = "record" => op[w] \in {"update", "cancel"}

(* Neither under a completion nor after its order is a session canceled.   *)
(* ACP takes no hosted payment, so its cancel meets no escalation.         *)
NotHosted(s) == s.payWay # "hosted" /\ s.status # "escalation"

CanceledInv ==
    /\ NotHosted(stored) /\ \A w \in Worker : Writes(w) => NotHosted(snap[w])
    /\ (orders # 0 \/ \E w \in Worker : Busy(w)) => Without({"canceled"})

(* Where the lock never lapses, a handler holds it as long as it has a     *)
(* snapshot to save.                                                       *)
AloneInv ==
    \A w \in Worker : (Writes(w) \/ pc[w] = "load") => lock = w

(* What CheckoutLifecycle lets a save make of the stored status.           *)
Replaces(new, old) ==
    \/ new = old
    \/ old \in Open /\ new \in Open \cup {"canceled"}
    \/ old = "in_progress" /\ orders = 0 /\ new \in Open
    \/ old = "in_progress" /\ orders = 1 /\ new \in {"escalation", "completed"}
    \/ old = "escalation" /\ new = "completed"

(* Every snapshot that may still be saved may replace the stored session;  *)
(* the handler that asks for the order finds its complete_in_progress.     *)
SavesInv ==
    /\ stored.status # "absent"
    /\ \A w \in Worker :
        /\ Writes(w) => Replaces(snap[w].status, stored.status)
        /\ pc[w] \in {"create", "index", "pay", "spend"} =>
              stored.status = "in_progress"
        /\ pc[w] = "create" => snap[w].status = "in_progress"
        /\ pc[w] # "idle" /\ op[w] = "event" => linked # {}

(* A handler that writes the session of a known order keeps the order.     *)
Keeps(s) == s.order # 0 => s.status \in {"escalation", "completed"}
KnownInv ==
    /\ Keeps(stored)
    /\ \A w \in Worker : Writes(w) =>
        /\ pc[w] # "index" => Keeps(snap[w])
        /\ pc[w] = "create" => snap[w].order = 0
        /\ stored.order # 0 =>
              /\ snap[w].order = stored.order
              /\ snap[w].status \in {stored.status, "completed"}
        /\ begun[w] => stored.order = 0

(* Without failures, the session of a linked order knows it, or the handler *)
(* that placed it is about to save it.                                     *)
LinkedIsKnown ==
    /\ stored.status \in {"escalation", "completed"} => stored.order # 0
    /\ \A w \in Worker :
        Writes(w) /\ snap[w].status \in {"escalation", "completed"} => snap[w].order # 0
    /\ linked # {} =>
        \/ stored.order # 0
        \/ \E w \in Worker : /\ pc[w] \in {"pay", "spend", "save"}
                             /\ begun[w] /\ snap[w].order # 0

(* No two completions at work share a key, and an order is recorded under  *)
(* a key that is claimed: OneOrderPerKey alone says nothing of an attempt  *)
(* still without its order.                                                *)
Attempt == {"payWay", "reserve", "persist", "create", "free"}
Settling == {"index", "pay", "spend"}
KeyInv ==
    /\ \A w \in Worker :
        /\ key[w] # NoKey => /\ op[w] = "complete"
                             /\ pc[w] \in Attempt \cup Settling \cup {"save", "unlock"}
        /\ pc[w] \in Attempt => keyed[key[w]] = 0
        /\ pc[w] \in Attempt \cup Settling =>
              /\ key[w] \in Key
              /\ claim[<<"complete", key[w]>>] # "none"
              /\ \A v \in Worker \ {w} :
                    pc[v] \in Attempt \cup Settling => key[v] # key[w]
    /\ \A k \in Key : keyed[k] # 0 => claim[<<"complete", k>>] # "none"
    /\ OneOrderPerKey
=============================================================================
