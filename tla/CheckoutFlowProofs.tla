------------------------ MODULE CheckoutFlowProofs ------------------------
(***************************************************************************)
(* The shared steps of a checkout keep TypeOK, OneOrderInv and the other   *)
(* parts of CheckoutInvariant.  The modules UcpCheckoutProofs and          *)
(* AcpCheckoutProofs add the handlers of their surface and conclude.       *)
(*                                                                         *)
(* TypeOK and OneOrderInv are proved action by action.  For the rest a     *)
(* step is first shown to be of one of a few kinds (Kind, Outside): it     *)
(* reads the session, saves it, begins a completion, asks for the order,   *)
(* and so on.  An invariant is then kept kind by kind, once for both       *)
(* surfaces.                                                               *)
(***************************************************************************)
EXTENDS CheckoutInvariant, TLAPS

(* What setting a field of a session yields.                               *)
LEMMA SetFields ==
    \A s \in Session :
        /\ \A st \in Status : To(s, st) \in Session /\ To(s, st).status = st
        /\ \A d \in BOOLEAN :
              Detailed(s, d) \in Session /\ Detailed(s, d).status = s.status
        /\ \A p \in PayWay \cup {"none"} :
              PaidBy(s, p) \in Session /\ PaidBy(s, p).status = s.status
        /\ \A o \in Nat :
              /\ Ordered(s, o) \in Session /\ Ordered(s, o).status = s.status
              /\ Ordered(s, o).order = o
        /\ \A l \in BOOLEAN :
              Linked(s, l) \in Session /\ Linked(s, l).status = s.status
  BY DEF Session, To, Detailed, PaidBy, Ordered, Linked

(* The fields of a session have their types.                               *)
LEMMA SessionFields ==
    \A s \in Session : s.details \in BOOLEAN /\ s.payWay \in PayWay \cup {"none"}
  BY DEF Session

(* Open and Terminal are statuses; what is open, and what is not.          *)
LEMMA StatusFacts ==
    /\ Open \subseteq Status /\ Terminal \subseteq Status
    /\ {"incomplete", "ready", "in_progress", "escalation", "completed",
        "canceled", "absent"} \subseteq Status
    /\ "incomplete" \in Open /\ "ready" \in Open
    /\ Open \cap {"in_progress", "escalation", "completed", "canceled",
                   "absent"} = {}
  BY DEF Open, Terminal, Status

(* Recompute moves an open session among the open statuses and leaves the  *)
(* others alone.                                                           *)
LEMMA RecomputeType ==
    \A s \in Session :
        Recompute(s) \in Session /\ (Recompute(s).status \in Open <=> s.status \in Open)
  BY SetFields, StatusFacts DEF Recompute

(* The missing session is one, with the status that says so.               *)
LEMMA AbsentType == Absent \in Session /\ Absent.status = "absent"
  <1>1. Fresh \in Session
    BY DEF Fresh, Session, Status, Open, PayWay
  <1> QED
    BY <1>1, SetFields, StatusFacts DEF Absent

(* A create call leaves an open session.                                   *)
LEMMA CreatedType == \A s \in Created : s \in Session /\ s.status \in Open
  <1>1. Fresh \in Session /\ Fresh.status \in Open
    BY DEF Fresh, Session, Status, Open, PayWay
  <1>2. Selectable \subseteq PayWay
    BY DEF Selectable, PayWay
  <1> SUFFICES ASSUME NEW d \in BOOLEAN, NEW p \in PayWay \cup {"none"}
               PROVE  LET s == Recompute(PaidBy(Detailed(Fresh, d), p))
                      IN  s \in Session /\ s.status \in Open
    BY <1>2 DEF Created
  <1> QED
    BY <1>1, SetFields, RecomputeType

(* TypeInv holds at the start.                                             *)
LEMMA InitType == Init => TypeInv
  BY CheckoutConstants, CreatedType, AbsentType
  DEF Init, TypeInv, TypeOK, IndexedIsPlaced, Place, Call

(* The shared handler steps keep TypeInv.                                  *)
LEMMA FlowStepType ==
    ASSUME TypeInv, NEW w \in Worker, FlowStep(w)
    PROVE  TypeInv'
  <1> USE DEF TypeOK, store, django, Goto, Hold, Place
  <1>0. TypeOK /\ IndexedIsPlaced
    BY DEF TypeInv
  <1>1. CASE TakeLock(w)
    BY <1>0, <1>1 DEF TakeLock, TypeInv, IndexedIsPlaced
  <1>2. CASE LoadNothing(w)
    BY <1>0, <1>2 DEF LoadNothing, Answer, TypeInv, IndexedIsPlaced
  <1>3. CASE Unlock(w)
    <2>1. snap' \in [Worker -> Session]
      BY <1>0, <1>3, AbsentType DEF Unlock, Forget
    <2>2. /\ op' \in [Worker -> Call]
          /\ pc' = [pc EXCEPT ![w] = "idle"]
          /\ key' \in [Worker -> Key \cup {NoKey}]
          /\ begun' \in [Worker -> BOOLEAN]
          /\ event' \in [Worker -> 0..MaxOrders]
      BY <1>0, <1>3, CheckoutConstants DEF Unlock, Forget, Call
    <2>3. lock' \in Worker \cup {Free, Orphan}
      BY <1>0, <1>3 DEF Unlock
    <2>4. \A v \in Worker \ {w} : snap'[v] = snap[v]
      BY <1>0, <1>3 DEF Unlock, Forget
    <2>5. UNCHANGED <<stored, claim, linked, django>>
      BY <1>3 DEF Unlock
    <2> QED
      BY <1>0, <2>1, <2>2, <2>3, <2>4, <2>5 DEF TypeInv, IndexedIsPlaced
  <1>4. CASE CheckPayWay(w)
    BY <1>0, <1>4 DEF CheckPayWay, TypeInv, IndexedIsPlaced
  <1>5. CASE ReserveStock(w)
    BY <1>0, <1>5 DEF ReserveStock, TypeInv, IndexedIsPlaced
  <1>6. CASE Persist(w)
    <2>1. InProgress(snap[w]) \in Session
      BY <1>0, SetFields, StatusFacts DEF InProgress
    <2>2. /\ stored' \in Session
          /\ snap' \in [Worker -> Session]
          /\ begun' \in [Worker -> BOOLEAN]
          /\ \A v \in Worker \ {w} : snap'[v] = snap[v]
      BY <1>0, <1>6, <2>1 DEF Persist
    <2>3. /\ UNCHANGED <<lock, claim, linked, op, key, event, django>>
          /\ pc' \in {[pc EXCEPT ![w] = "create"], [pc EXCEPT ![w] = "free"]}
      BY <1>6 DEF Persist
    <2> QED
      BY <1>0, <2>2, <2>3 DEF TypeInv, IndexedIsPlaced
  <1>7. CASE CreateOrder(w)
    <2>1. \/ PlaceOrder(w)
          \/ UNCHANGED django
      BY <1>7 DEF CreateOrder
    <2>2. /\ orders' \in 0..MaxOrders /\ orders <= orders'
          /\ keyed' \in [Key -> 0..orders']
          /\ cart' \in BOOLEAN
          /\ UNCHANGED <<paid, due>>
      <3>1. CASE PlaceOrder(w)
        <4>1. orders \in Nat /\ orders' = orders + 1 /\ orders < MaxOrders
          BY <1>0, <3>1, CheckoutConstants DEF PlaceOrder
        <4>2. keyed' = [keyed EXCEPT ![key[w]] = @ + 1]
          BY <3>1 DEF PlaceOrder
        <4>3. \A k \in Key : keyed'[k] \in 0..orders'
          BY <1>0, <4>1, <4>2
        <4>4. keyed' \in [Key -> 0..orders']
          BY <1>0, <4>2, <4>3
        <4> QED
          BY <1>0, <3>1, <4>1, <4>4, CheckoutConstants DEF PlaceOrder
      <3>2. CASE UNCHANGED django
        BY <1>0, <3>2
      <3> QED
        BY <2>1, <3>1, <3>2
    <2>3. /\ Ordered(snap[w], orders') \in Session
          /\ Ordered(snap[w], orders').order = orders'
          /\ To(snap[w], "ready") \in Session
      BY <1>0, <2>2, CheckoutConstants, SetFields, StatusFacts
    <2>4. /\ snap' \in [Worker -> Session]
          /\ \A v \in Worker \ {w} : snap'[v] = snap[v]
      BY <1>0, <1>7, <2>3 DEF CreateOrder
    <2>5. /\ pc' \in [Worker -> Place]
          /\ \A v \in Worker \ {w} : pc'[v] = pc[v]
          /\ UNCHANGED <<store, op, key, begun, event>>
      BY <1>0, <1>7 DEF CreateOrder
    <2>6. pc'[w] = "index" => snap'[w].order \in 1..orders'
      <3>1. SUFFICES ASSUME pc'[w] = "index"
                     PROVE  snap'[w].order \in 1..orders'
        OBVIOUS
      <3>2. PlaceOrder(w) /\ snap'[w] = Ordered(snap[w], orders')
        BY <1>0, <1>7, <3>1 DEF CreateOrder
      <3> QED
        BY <1>0, <2>3, <3>2 DEF PlaceOrder
    <2>7. TypeOK'
      BY <1>0, <2>2, <2>4, <2>5
    <2>8. IndexedIsPlaced'
      BY <1>0, <2>2, <2>4, <2>5, <2>6 DEF IndexedIsPlaced
    <2> QED
      BY <2>7, <2>8 DEF TypeInv
  <1>8. CASE IndexOrder(w)
    <2>0. snap[w].order \in 1..orders /\ orders' = orders
      BY <1>0, <1>8 DEF IndexOrder, IndexedIsPlaced
    <2>1. /\ linked' \subseteq 1..orders'
          /\ UNCHANGED <<stored, lock, claim, op, key, begun, event, django>>
      <3>1. linked' = linked \/ linked' = linked \cup {snap[w].order}
        BY <1>8 DEF IndexOrder
      <3>2. UNCHANGED <<stored, lock, claim, op, key, begun, event, django>>
        BY <1>8 DEF IndexOrder
      <3> QED
        BY <1>0, <2>0, <3>1, <3>2
    <2>2. /\ snap' \in [Worker -> Session]
          /\ \A v \in Worker \ {w} : snap'[v] = snap[v]
      <3>1. To(snap[w], "completed") \in Session /\ To(snap[w], "escalation") \in Session
        BY <1>0, SetFields, StatusFacts
      <3>2. \/ snap' = [snap EXCEPT ![w] = To(snap[w], "completed")]
            \/ snap' = [snap EXCEPT ![w] = To(snap[w], "escalation")]
        BY <1>8 DEF IndexOrder
      <3> QED
        BY <1>0, <3>1, <3>2
    <2>3. pc' \in {[pc EXCEPT ![w] = "spend"], [pc EXCEPT ![w] = "pay"]}
      BY <1>8 DEF IndexOrder
    <2> QED
      BY <1>0, <2>1, <2>2, <2>3 DEF TypeInv, IndexedIsPlaced
  <1>9. CASE StartPayment(w)
    <2>1. /\ snap' \in [Worker -> Session]
          /\ \A v \in Worker \ {w} : snap'[v] = snap[v]
      BY <1>0, <1>9, SetFields DEF StartPayment
    <2> QED
      BY <1>0, <1>9, <2>1 DEF StartPayment, TypeInv, IndexedIsPlaced
  <1>10. CASE SpendKey(w)
    BY <1>0, <1>10 DEF SpendKey, Spent, TypeInv, IndexedIsPlaced
  <1>11. CASE FreeKey(w)
    BY <1>0, <1>11 DEF FreeKey, Freed, TypeInv, IndexedIsPlaced
  <1>12. CASE Save(w)
    <2>1. stored' \in Session
      BY <1>0, <1>12, AbsentType DEF Save, SaveOutcome
    <2>2. /\ pc' \in [Worker -> Place] /\ pc'[w] # "index"
          /\ \A v \in Worker \ {w} : pc'[v] = pc[v]
      BY <1>0, <1>12 DEF Save
    <2>3. due' \subseteq paid'
      BY <1>0, <1>12 DEF Save, Answer
    <2>4. UNCHANGED <<lock, claim, linked, op, key, snap, begun, event,
                      orders, keyed, cart, paid>>
      BY <1>12 DEF Save
    <2> QED
      BY <1>0, <2>1, <2>2, <2>3, <2>4 DEF TypeInv, IndexedIsPlaced
  <1>13. CASE LoadEvent(w)
    <2>1. To(stored, "completed") \in Session
      BY <1>0, SetFields, StatusFacts
    <2>2. /\ snap' \in [Worker -> Session]
          /\ \A v \in Worker \ {w} : snap'[v] = snap[v]
      BY <1>0, <1>13, <2>1 DEF LoadEvent
    <2>3. /\ due' \subseteq paid'
          /\ pc' \in {[pc EXCEPT ![w] = "unlock"], [pc EXCEPT ![w] = "save"]}
          /\ UNCHANGED <<store, op, key, begun, event, orders, keyed, cart, paid>>
      BY <1>0, <1>13 DEF LoadEvent, Answer
    <2> QED
      BY <1>0, <2>2, <2>3 DEF TypeInv, IndexedIsPlaced
  <1> QED
    BY <1>1, <1>2, <1>3, <1>4, <1>5, <1>6, <1>7, <1>8, <1>9, <1>10, <1>11,
       <1>12, <1>13 DEF FlowStep

(* So do lapses, crashes, events and payments.                             *)
LEMMA AroundType ==
    ASSUME TypeInv, Around
    PROVE  TypeInv'
  <1> USE DEF TypeOK, store, django, locals, Goto, Place
  <1>0. TypeOK /\ IndexedIsPlaced
    BY DEF TypeInv
  <1>1. ASSUME NEW w \in Worker, LapseLock(w)
        PROVE  TypeInv'
    BY <1>0, <1>1 DEF LapseLock, TypeInv, IndexedIsPlaced
  <1>2. ASSUME NEW w \in Worker, Crash(w)
        PROVE  TypeInv'
    <2>1. snap' \in [Worker -> Session]
      BY <1>0, <1>2, AbsentType DEF Crash, Forget, Hold
    <2>2. /\ op' \in [Worker -> Call]
          /\ pc' = [pc EXCEPT ![w] = "idle"]
          /\ key' \in [Worker -> Key \cup {NoKey}]
          /\ begun' \in [Worker -> BOOLEAN]
          /\ event' \in [Worker -> 0..MaxOrders]
      BY <1>0, <1>2, CheckoutConstants DEF Crash, Forget, Call
    <2>3. lock' \in Worker \cup {Free, Orphan}
      BY <1>0, <1>2 DEF Crash
    <2>4. \A v \in Worker \ {w} : snap'[v] = snap[v]
      BY <1>0, <1>2 DEF Crash, Forget, Hold
    <2>5. UNCHANGED <<stored, claim, linked, django>>
      BY <1>2 DEF Crash
    <2> QED
      BY <1>0, <2>1, <2>2, <2>3, <2>4, <2>5 DEF TypeInv, IndexedIsPlaced
  <1>3. ASSUME NEW w \in Worker, NEW o \in 1..MaxOrders, StartEvent(w, o)
        PROVE  TypeInv'
    BY <1>0, <1>3, CheckoutConstants DEF StartEvent, Call, TypeInv, IndexedIsPlaced
  <1>4. ASSUME NEW o \in 1..MaxOrders, DropEvent(o)
        PROVE  TypeInv'
    BY <1>0, <1>4 DEF DropEvent, TypeInv, IndexedIsPlaced
  <1>5. CASE ExpireLock
    BY <1>0, <1>5 DEF ExpireLock, TypeInv, IndexedIsPlaced
  <1>6. CASE ExpireSession
    BY <1>0, <1>6, AbsentType DEF ExpireSession, TypeInv, IndexedIsPlaced
  <1>7. CASE PayOrder
    BY <1>0, <1>7 DEF PayOrder, TypeInv, IndexedIsPlaced
  <1>8. ASSUME NEW c \in Scope \X Key, ExpireClaim(c)
        PROVE  TypeInv'
    BY <1>0, <1>8 DEF ExpireClaim, TypeInv, IndexedIsPlaced
  <1> QED
    BY <1>1, <1>2, <1>3, <1>4, <1>5, <1>6, <1>7, <1>8 DEF Around

-----------------------------------------------------------------------------
(* A step of w leaves the other handlers where they are.                   *)
OthersStay(w) ==
    \A v \in Worker \ {w} :
        /\ pc'[v] = pc[v] /\ op'[v] = op[v]
        /\ snap'[v] = snap[v] /\ begun'[v] = begun[v]

(* What is said of another handler stays true of it.                       *)
LEMMA OthersKeep ==
    ASSUME NEW w \in Worker, OthersStay(w), NEW v \in Worker \ {w}
    PROVE  /\ Writes(v)' <=> Writes(v)
           /\ Busy(v)' <=> Busy(v)
           /\ PlacesFit => Fits(v)'
  BY DEF OthersStay, Writes, Early, Busy, PlacesFit, Fits

(* The rule for every step of w that neither stores complete_in_progress   *)
(* nor places the order.  What it has to show: w goes on with the lock or  *)
(* begun (1), takes the lock from nobody (2), places nothing (3), starts   *)
(* no completion (4, 5); it opens the stored session only from its own     *)
(* snapshot (6), and its snapshot only from the stored session or after a  *)
(* refused order (7).                                                      *)
LEMMA QuietStep ==
    ASSUME OneOrderInv, NEW w \in Worker, OthersStay(w), Fits(w)',
           (Writes(w)' \/ pc'[w] = "load") /\ ~begun'[w] => lock' = w,
           \A v \in Worker \ {w} : lock = v => lock' = v,
           orders' = orders,
           Busy(w)' => Busy(w) /\ stored'.status \notin Open,
           pc'[w] = "create" => pc[w] = "create",
           stored'.status \in Open =>
               stored.status \in Open \/ (Writes(w) /\ snap[w].status \in Open),
           Writes(w)' /\ snap'[w].status \in Open =>
               \/ Writes(w) /\ snap[w].status \in Open
               \/ pc[w] = "load" /\ stored.status \in Open
               \/ Busy(w) /\ orders = 0
    PROVE  OneOrderInv'
  <1>0. \A v \in Worker \ {w} :
            /\ Writes(v)' <=> Writes(v)
            /\ Busy(v)' <=> Busy(v)
            /\ Fits(v)'
            /\ pc'[v] = pc[v] /\ snap'[v] = snap[v] /\ begun'[v] = begun[v]
    BY OthersKeep DEF OneOrderInv, OthersStay
  <1>1. HoldersHaveLock'
    BY <1>0 DEF OneOrderInv, HoldersHaveLock
  <1>2. PlacesFit'
    BY <1>0 DEF PlacesFit
  <1>3. OneBusy'
    BY <1>0 DEF OneOrderInv, OneBusy
  <1>4. BusyIsAlone'
    <2> SUFFICES ASSUME NEW v \in Worker, Busy(v)'
                 PROVE  /\ stored'.status \notin Open
                        /\ \A u \in Worker \ {v} : Writes(u)' => snap'[u].status \notin Open
      BY DEF BusyIsAlone
    <2>1. Busy(v)
      BY <1>0
    <2>2. /\ stored.status \notin Open
          /\ \A u \in Worker \ {v} : Writes(u) => snap[u].status \notin Open
      BY <2>1 DEF OneOrderInv, BusyIsAlone
    <2>3. CASE v = w
      BY <1>0, <2>2, <2>3
    <2>4. CASE v # w
      <3>1. ~Busy(w)
        BY <2>1, <2>4 DEF OneOrderInv, OneBusy
      <3> QED
        BY <1>0, <2>2, <2>4, <3>1
    <2> QED
      BY <2>3, <2>4
  <1>5. OrderClosesSession'
    BY <1>0 DEF OneOrderInv, OrderClosesSession
  <1>6. CreateIsFirst'
    BY <1>0 DEF OneOrderInv, CreateIsFirst
  <1>7. AtMostOneOrder'
    BY DEF OneOrderInv, AtMostOneOrder
  <1> QED
    BY <1>1, <1>2, <1>3, <1>4, <1>5, <1>6, <1>7 DEF OneOrderInv

(* The shared steps but Persist and CreateOrder are quiet.                 *)
LEMMA QuietFlowSteps ==
    ASSUME TypeInv, OneOrderInv, NEW w \in Worker,
           \/ TakeLock(w) \/ LoadNothing(w) \/ Unlock(w) \/ CheckPayWay(w)
           \/ ReserveStock(w) \/ IndexOrder(w) \/ StartPayment(w)
           \/ SpendKey(w) \/ FreeKey(w) \/ Save(w) \/ LoadEvent(w)
    PROVE  OneOrderInv'
  <1> USE DEF Goto, Hold, store, django
  <1>0. /\ pc \in [Worker -> Place] /\ op \in [Worker -> Call]
        /\ snap \in [Worker -> Session] /\ begun \in [Worker -> BOOLEAN]
        /\ stored \in Session
    BY DEF TypeInv, TypeOK
  <1>a. /\ Fits(w)
        /\ (Writes(w) \/ pc[w] = "load") /\ ~begun[w] => lock = w
        /\ Busy(w) => stored.status \notin Open
    BY DEF OneOrderInv, PlacesFit, HoldersHaveLock, BusyIsAlone
  <1>1. CASE TakeLock(w)
    <2>1. /\ OthersStay(w)
          /\ pc[w] = "lock" /\ pc'[w] \in {"load", "giveUp", "unlock"}
          /\ orders' = orders
          /\ \A v \in Worker \ {w} : lock = v => lock' = v
          /\ snap'[w] = snap[w] /\ op'[w] = op[w]
          /\ stored' = stored /\ begun'[w] = begun[w]
          /\ pc'[w] = "load" => lock' = w
      BY <1>0, <1>1, CheckoutConstants DEF TakeLock, OthersStay
    <2> QED
      BY <1>a, <2>1, QuietStep DEF Fits, Busy, Writes, Writing, Early
  <1>2. CASE LoadNothing(w)
    <2>1. /\ OthersStay(w)
          /\ pc[w] = "load" /\ pc'[w] \in {"giveUp", "unlock"}
          /\ orders' = orders
          /\ \A v \in Worker \ {w} : lock = v => lock' = v
          /\ snap'[w] = snap[w] /\ op'[w] = op[w]
          /\ stored' = stored /\ begun'[w] = begun[w]
      BY <1>0, <1>2, CheckoutConstants DEF LoadNothing, Answer, OthersStay
    <2> QED
      BY <1>a, <2>1, QuietStep DEF Fits, Busy, Writes, Writing, Early
  <1>3. CASE Unlock(w)
    <2>1. /\ OthersStay(w)
          /\ pc[w] = "unlock" /\ pc'[w] \in {"idle"}
          /\ orders' = orders
          /\ \A v \in Worker \ {w} : lock = v => lock' = v
          /\ stored' = stored /\ begun'[w] = FALSE
      BY <1>0, <1>3, CheckoutConstants DEF Unlock, Forget, OthersStay
    <2> QED
      BY <1>a, <2>1, QuietStep DEF Fits, Busy, Writes, Writing, Early
  <1>4. CASE CheckPayWay(w)
    <2>1. /\ OthersStay(w)
          /\ pc[w] = "payWay" /\ pc'[w] \in {"reserve", "free"}
          /\ orders' = orders
          /\ \A v \in Worker \ {w} : lock = v => lock' = v
          /\ snap'[w] = snap[w] /\ op'[w] = op[w]
          /\ stored' = stored /\ begun'[w] = begun[w] /\ lock' = lock
          /\ pc'[w] = "reserve" => snap[w].status = "ready"
      BY <1>0, <1>4, CheckoutConstants DEF CheckPayWay, OthersStay
    <2> QED
      BY <1>a, <2>1, QuietStep DEF Fits, Busy, Writes, Writing, Early
  <1>5. CASE ReserveStock(w)
    <2>1. /\ OthersStay(w)
          /\ pc[w] = "reserve" /\ pc'[w] \in {"persist", "free"}
          /\ orders' = orders
          /\ \A v \in Worker \ {w} : lock = v => lock' = v
          /\ snap'[w] = snap[w] /\ op'[w] = op[w]
          /\ stored' = stored /\ begun'[w] = begun[w] /\ lock' = lock
      BY <1>0, <1>5, CheckoutConstants DEF ReserveStock, OthersStay
    <2> QED
      BY <1>a, <2>1, QuietStep DEF Fits, Busy, Writes, Writing, Early
  <1>6. CASE IndexOrder(w)
    <2>1. /\ OthersStay(w)
          /\ pc[w] = "index" /\ pc'[w] \in {"spend", "pay"}
          /\ orders' = orders
          /\ \A v \in Worker \ {w} : lock = v => lock' = v
          /\ op'[w] = op[w]
          /\ stored' = stored /\ begun'[w] = begun[w] /\ lock' = lock
      BY <1>0, <1>6, CheckoutConstants DEF IndexOrder, OthersStay
    <2>2. snap'[w].status \notin Open
      <3>1. /\ To(snap[w], "completed").status = "completed"
            /\ To(snap[w], "escalation").status = "escalation"
        BY <1>0, SetFields, StatusFacts
      <3>2. snap'[w] \in {To(snap[w], "completed"), To(snap[w], "escalation")}
        BY <1>0, <1>6 DEF IndexOrder
      <3> QED
        BY <3>1, <3>2, StatusFacts
    <2> QED
      BY <1>a, <2>1, <2>2, QuietStep DEF Fits, Busy, Writes, Writing, Early
  <1>7. CASE StartPayment(w)
    <2>1. /\ OthersStay(w)
          /\ pc[w] = "pay" /\ pc'[w] \in {"spend"}
          /\ orders' = orders
          /\ \A v \in Worker \ {w} : lock = v => lock' = v
          /\ op'[w] = op[w]
          /\ stored' = stored /\ begun'[w] = begun[w] /\ lock' = lock
      BY <1>0, <1>7, CheckoutConstants DEF StartPayment, OthersStay
    <2>2. snap'[w].status = snap[w].status
      <3>1. PICK made \in BOOLEAN : snap' = [snap EXCEPT ![w] = Linked(snap[w], made)]
        BY <1>7 DEF StartPayment
      <3>2. Linked(snap[w], made).status = snap[w].status
        BY <1>0, SetFields
      <3> QED
        BY <1>0, <3>1, <3>2
    <2> QED
      BY <1>a, <2>1, <2>2, QuietStep DEF Fits, Busy, Writes, Writing, Early
  <1>8. CASE SpendKey(w)
    <2>1. /\ OthersStay(w)
          /\ pc[w] = "spend" /\ pc'[w] \in {"unlock", "save"}
          /\ orders' = orders
          /\ \A v \in Worker \ {w} : lock = v => lock' = v
          /\ snap'[w] = snap[w] /\ op'[w] = op[w]
          /\ stored' = stored /\ begun'[w] = begun[w] /\ lock' = lock
      BY <1>0, <1>8, CheckoutConstants DEF SpendKey, OthersStay
    <2> QED
      BY <1>a, <2>1, QuietStep DEF Fits, Busy, Writes, Writing, Early
  <1>9. CASE FreeKey(w)
    <2>1. /\ OthersStay(w)
          /\ pc[w] = "free" /\ pc'[w] \in {"save"}
          /\ orders' = orders
          /\ \A v \in Worker \ {w} : lock = v => lock' = v
          /\ snap'[w] = snap[w] /\ op'[w] = op[w]
          /\ stored' = stored /\ begun'[w] = begun[w] /\ lock' = lock
      BY <1>0, <1>9, CheckoutConstants DEF FreeKey, OthersStay
    <2> QED
      BY <1>a, <2>1, QuietStep DEF Fits, Busy, Writes, Writing, Early
  <1>10. CASE Save(w)
    <2>1. /\ OthersStay(w)
          /\ pc[w] = "save" /\ pc'[w] \in {"record", "giveUp", "unlock"}
          /\ orders' = orders
          /\ \A v \in Worker \ {w} : lock = v => lock' = v
          /\ snap'[w] = snap[w] /\ op'[w] = op[w]
          /\ begun'[w] = begun[w] /\ lock' = lock
          /\ stored' \in {stored, snap[w], Absent}
      BY <1>0, <1>10, CheckoutConstants DEF Save, SaveOutcome, Answer, OthersStay
    <2> QED
      BY <1>a, <2>1, AbsentType, StatusFacts, QuietStep DEF Fits, Busy, Writes, Writing, Early
  <1>11. CASE LoadEvent(w)
    <2>1. /\ OthersStay(w)
          /\ pc[w] = "load" /\ pc'[w] \in {"unlock", "save"}
          /\ orders' = orders
          /\ \A v \in Worker \ {w} : lock = v => lock' = v
          /\ op'[w] = op[w]
          /\ stored' = stored /\ begun'[w] = begun[w] /\ lock' = lock
      BY <1>0, <1>11, CheckoutConstants DEF LoadEvent, Answer, OthersStay
    <2>2. pc'[w] = "save" => snap'[w].status \notin Open
      <3>1. To(stored, "completed").status = "completed"
        BY <1>0, SetFields, StatusFacts
      <3>2. pc'[w] = "save" => snap'[w] = To(stored, "completed")
        BY <1>0, <1>11 DEF LoadEvent
      <3> QED
        BY <3>1, <3>2, StatusFacts
    <2> QED
      BY <1>a, <2>1, <2>2, QuietStep DEF Fits, Busy, Writes, Writing, Early
  <1> QED
    BY <1>1, <1>2, <1>3, <1>4, <1>5, <1>6, <1>7, <1>8, <1>9, <1>10, <1>11

(* A handler that stores complete_in_progress is alone: no completion      *)
(* runs, no other handler has a snapshot, and no order exists.             *)
LEMMA PersistIsAlone ==
    ASSUME OneOrderInv, NEW w \in Worker, pc[w] = "persist"
    PROVE  /\ lock = w /\ ~begun[w] /\ orders = 0
           /\ \A v \in Worker : ~Busy(v)
           /\ \A v \in Worker \ {w} : ~Writes(v)
  <1>1. Writes(w) /\ ~begun[w] /\ snap[w].status = "ready"
    BY DEF OneOrderInv, PlacesFit, Fits, Writes, Writing, Early
  <1>2. lock = w
    BY <1>1 DEF OneOrderInv, HoldersHaveLock
  <1>3. orders = 0
    BY <1>1, StatusFacts DEF OneOrderInv, OrderClosesSession
  <1>4. \A v \in Worker : ~Busy(v)
    BY <1>1, StatusFacts DEF OneOrderInv, BusyIsAlone, Busy
  <1>5. \A v \in Worker \ {w} : ~Writes(v)
    BY <1>2, <1>4 DEF OneOrderInv, HoldersHaveLock, Busy
  <1> QED
    BY <1>1, <1>2, <1>3, <1>4, <1>5

(* The step that stores complete_in_progress keeps OneOrderInv.            *)
LEMMA PersistStep ==
    ASSUME TypeInv, OneOrderInv, NEW w \in Worker, Persist(w)
    PROVE  OneOrderInv'
  <1> USE DEF Goto, Hold, store, django
  <1>0. /\ pc \in [Worker -> Place] /\ op \in [Worker -> Call]
        /\ snap \in [Worker -> Session] /\ begun \in [Worker -> BOOLEAN]
        /\ stored \in Session
    BY DEF TypeInv, TypeOK
  <1>1. /\ OthersStay(w)
        /\ pc[w] = "persist"
        /\ orders' = orders /\ lock' = lock /\ op'[w] = op[w]
    BY <1>0 DEF Persist, OthersStay
  <1>2. /\ lock = w /\ ~begun[w] /\ orders = 0
        /\ \A v \in Worker : ~Busy(v)
        /\ \A v \in Worker \ {w} : ~Writes(v)
    BY <1>1, PersistIsAlone
  <1>3. InProgress(snap[w]).status = "in_progress"
    BY <1>0, SetFields, StatusFacts DEF InProgress
  <1>4. CASE pc'[w] = "free"
    <2>1. /\ snap'[w] = snap[w] /\ ~begun'[w]
          /\ stored' \in {stored, InProgress(snap[w])}
      BY <1>0, <1>2, <1>4 DEF Persist
    <2> QED
      BY <1>1, <1>2, <1>3, <1>4, <2>1, StatusFacts, QuietStep
      DEF Fits, Busy, Writes, Writing, Early
  <1>5. CASE pc'[w] = "create"
    <2>1. /\ snap'[w] = InProgress(snap[w]) /\ begun'[w]
          /\ stored' = InProgress(snap[w])
      BY <1>0, <1>5 DEF Persist
    <2>2. /\ stored'.status \notin Open /\ snap'[w].status \notin Open
      BY <1>3, <2>1, StatusFacts
    <2>3. \A v \in Worker \ {w} :
              /\ ~Writes(v)' /\ ~Busy(v)' /\ Fits(v)'
              /\ pc'[v] = pc[v] /\ begun'[v] = begun[v]
      BY <1>1, <1>2, OthersKeep DEF OneOrderInv, OthersStay
    <2>4. Fits(w)'
      BY <1>5, <2>1, <2>2 DEF Fits
    <2>5. HoldersHaveLock' /\ PlacesFit' /\ OneBusy'
      BY <1>1, <1>2, <2>1, <2>3, <2>4
      DEF OneOrderInv, HoldersHaveLock, PlacesFit, OneBusy
    <2>6. BusyIsAlone' /\ OrderClosesSession'
      BY <2>2, <2>3 DEF BusyIsAlone, OrderClosesSession
    <2>7. CreateIsFirst' /\ AtMostOneOrder'
      BY <1>1, <1>2 DEF CreateIsFirst, AtMostOneOrder
    <2> QED
      BY <2>5, <2>6, <2>7 DEF OneOrderInv
  <1> QED
    BY <1>0, <1>4, <1>5 DEF Persist

(* The step that places the order keeps OneOrderInv.                       *)
LEMMA CreateStep ==
    ASSUME TypeInv, OneOrderInv, NEW w \in Worker, CreateOrder(w)
    PROVE  OneOrderInv'
  <1> USE DEF Goto, Hold, store
  <1>0. /\ pc \in [Worker -> Place] /\ op \in [Worker -> Call]
        /\ snap \in [Worker -> Session] /\ begun \in [Worker -> BOOLEAN]
        /\ stored \in Session /\ orders \in Nat
    BY CheckoutConstants DEF TypeInv, TypeOK
  <1>1. /\ OthersStay(w)
        /\ pc[w] = "create" /\ pc'[w] \in {"index", "spend", "free"}
        /\ stored' = stored /\ lock' = lock
        /\ op'[w] = op[w] /\ begun'[w] = begun[w]
    BY <1>0 DEF CreateOrder, OthersStay
  <1>2. /\ begun[w] /\ Busy(w) /\ orders = 0
        /\ snap[w].status \notin Open /\ stored.status \notin Open
        /\ \A v \in Worker \ {w} : ~Busy(v) /\ (Writes(v) => snap[v].status \notin Open)
    BY <1>1 DEF OneOrderInv, PlacesFit, Fits, CreateIsFirst, Busy, Writes, Writing,
                Early, OneBusy, BusyIsAlone
  <1>3. Busy(w)'
    BY <1>1, <1>2 DEF Busy, Writes, Writing, Early
  <1>4. CASE PlaceOrder(w) /\ pc'[w] # "free"
    <2>1. orders' = 1
      BY <1>2, <1>4 DEF PlaceOrder
    <2>2. snap'[w].status \notin Open
      <3>1. Ordered(snap[w], orders').status = snap[w].status
        BY <1>0, <2>1, SetFields
      <3>2. snap'[w] = snap[w] \/ snap'[w] = Ordered(snap[w], orders')
        BY <1>0, <1>4 DEF CreateOrder
      <3> QED
        BY <1>2, <3>1, <3>2
    <2>3. \A v \in Worker \ {w} :
              /\ Writes(v)' <=> Writes(v)
              /\ ~Busy(v)' /\ Fits(v)'
              /\ pc'[v] = pc[v] /\ begun'[v] = begun[v] /\ snap'[v] = snap[v]
      BY <1>1, <1>2, OthersKeep DEF OneOrderInv, OthersStay
    <2>4. Fits(w)'
      BY <1>1, <1>2, <1>4, <2>2 DEF Fits
    <2>5. HoldersHaveLock' /\ PlacesFit' /\ OneBusy'
      BY <1>1, <1>2, <2>3, <2>4
      DEF OneOrderInv, HoldersHaveLock, PlacesFit, OneBusy
    <2>6. BusyIsAlone' /\ OrderClosesSession'
      BY <1>1, <1>2, <2>2, <2>3 DEF BusyIsAlone, OrderClosesSession
    <2>7. CreateIsFirst'
      <3>1. \A v \in Worker \ {w} : pc[v] # "create"
        BY <1>2 DEF OneOrderInv, PlacesFit, Fits, Busy, Writes, Writing, Early
      <3> QED
        BY <1>1, <2>3, <3>1 DEF CreateIsFirst
    <2>8. AtMostOneOrder'
      BY <2>1 DEF AtMostOneOrder
    <2> QED
      BY <2>5, <2>6, <2>7, <2>8 DEF OneOrderInv
  <1>5. CASE orders' = orders
    <2>1. \/ pc'[w] = "free"
          \/ pc'[w] = "spend" /\ snap'[w] = snap[w]
      BY <1>0, <1>5 DEF CreateOrder, PlaceOrder
    <2>2. Fits(w)'
      BY <1>1, <1>2, <2>1 DEF Fits
    <2> QED
      BY <1>1, <1>2, <1>3, <1>5, <2>2, QuietStep DEF Busy
  <1> QED
    BY <1>0, <1>4, <1>5 DEF CreateOrder, django

(* All the shared handler steps keep OneOrderInv.                          *)
LEMMA FlowStepOneOrder ==
    ASSUME TypeInv, OneOrderInv, NEW w \in Worker, FlowStep(w)
    PROVE  OneOrderInv'
  BY QuietFlowSteps, PersistStep, CreateStep DEF FlowStep

(* Where nothing of a handler changes, only a stored session that opens    *)
(* could hurt.                                                             *)
LEMMA OutsideStep ==
    ASSUME OneOrderInv, UNCHANGED <<pc, op, snap, begun, orders>>,
           stored'.status \in Open => stored.status \in Open,
           \A w \in Worker : lock = w /\ ~begun[w] => lock' = w
    PROVE  OneOrderInv'
  <1>1. \A w \in Worker :
            (Writes(w)' <=> Writes(w)) /\ (Busy(w)' <=> Busy(w)) /\ (Fits(w)' <=> Fits(w))
    BY DEF Writes, Early, Busy, Fits
  <1>2. HoldersHaveLock' /\ PlacesFit' /\ OneBusy'
    BY <1>1 DEF OneOrderInv, HoldersHaveLock, PlacesFit, OneBusy
  <1>3. BusyIsAlone' /\ OrderClosesSession'
    BY <1>1 DEF OneOrderInv, BusyIsAlone, OrderClosesSession
  <1>4. CreateIsFirst' /\ AtMostOneOrder'
    BY DEF OneOrderInv, CreateIsFirst, AtMostOneOrder
  <1> QED
    BY <1>2, <1>3, <1>4 DEF OneOrderInv

(* So do the steps around them, if a lock does not lapse too early.        *)
LEMMA AroundOneOrder ==
    ASSUME TypeInv, OneOrderInv, Around, LockLapse # "any"
    PROVE  OneOrderInv'
  <1> USE DEF store, django, locals, Goto
  <1>0. /\ pc \in [Worker -> Place] /\ op \in [Worker -> Call]
        /\ snap \in [Worker -> Session] /\ begun \in [Worker -> BOOLEAN]
        /\ stored \in Session
    BY DEF TypeInv, TypeOK
  <1>1. ASSUME NEW w \in Worker, LapseLock(w)
        PROVE  OneOrderInv'
    BY <1>1, OutsideStep DEF LapseLock, MayLapse
  <1>2. ASSUME NEW w \in Worker, Crash(w)
        PROVE  OneOrderInv'
    <2>1. /\ OthersStay(w)
          /\ pc'[w] = "idle" /\ ~begun'[w]
          /\ orders' = orders /\ stored' = stored
          /\ \A v \in Worker \ {w} : lock = v => lock' = v
      BY <1>0, <1>2 DEF Crash, Forget, Hold, OthersStay
    <2> QED
      BY <2>1, QuietStep DEF Fits, Busy, Writes, Writing, Early
  <1>3. ASSUME NEW w \in Worker, NEW o \in 1..MaxOrders, StartEvent(w, o)
        PROVE  OneOrderInv'
    <2>1. /\ OthersStay(w)
          /\ pc[w] = "idle" /\ pc'[w] = "lock" /\ begun'[w] = begun[w]
          /\ orders' = orders /\ stored' = stored /\ lock' = lock
      BY <1>0, <1>3 DEF StartEvent, OthersStay
    <2>2. Fits(w)
      BY DEF OneOrderInv, PlacesFit
    <2> QED
      BY <2>1, <2>2, QuietStep DEF Fits, Busy, Writes, Writing, Early
  <1>4. ASSUME NEW o \in 1..MaxOrders, DropEvent(o)
        PROVE  OneOrderInv'
    BY <1>4, OutsideStep DEF DropEvent
  <1>5. CASE ExpireLock
    BY <1>5, CheckoutConstants, OutsideStep DEF ExpireLock
  <1>6. CASE ExpireSession
    BY <1>6, AbsentType, StatusFacts, OutsideStep DEF ExpireSession
  <1>7. CASE PayOrder
    BY <1>7, OutsideStep DEF PayOrder
  <1>8. ASSUME NEW c \in Scope \X Key, ExpireClaim(c)
        PROVE  OneOrderInv'
    BY <1>8, OutsideStep DEF ExpireClaim
  <1> QED
    BY <1>1, <1>2, <1>3, <1>4, <1>5, <1>6, <1>7, <1>8 DEF Around

(* The invariant gives what the runs check.                                *)
LEMMA OneOrderInvGives == OneOrderInv => AtMostOneOrder /\ OpenHasNoOrder
  BY DEF OneOrderInv, OrderClosesSession, OpenHasNoOrder

(* OneOrderInv holds at the start.                                         *)
LEMMA InitOneOrder == Init => OneOrderInv
  <1> SUFFICES ASSUME Init PROVE OneOrderInv
    OBVIOUS
  <1>1. \A w \in Worker : pc[w] = "idle" /\ ~begun[w] /\ ~Writes(w)
    BY DEF Init, Writes, Writing
  <1>2. orders = 0
    BY DEF Init
  <1> QED
    BY <1>1, <1>2 DEF OneOrderInv, HoldersHaveLock, PlacesFit, Fits, OneBusy, Busy,
       BusyIsAlone, OrderClosesSession, CreateIsFirst, AtMostOneOrder

(* A step that changes nothing keeps OneOrderInv.                          *)
LEMMA StutterOneOrder ==
    ASSUME OneOrderInv, UNCHANGED vars
    PROVE  OneOrderInv'
  BY OutsideStep DEF vars

(* A step that changes nothing keeps TypeInv.                              *)
LEMMA StutterType ==
    ASSUME TypeInv, UNCHANGED vars
    PROVE  TypeInv'
  BY DEF vars, TypeInv, TypeOK, IndexedIsPlaced

-----------------------------------------------------------------------------
(* What the handlers of a surface need: a step of w that changes its       *)
(* place, its call, its snapshot, its key and the claims keeps TypeInv.    *)
LEMMA HandlerType ==
    ASSUME TypeInv, NEW w \in Worker, NEW p \in Place \ {"index"},
           NEW s \in Session, NEW c \in Call,
           pc' = [pc EXCEPT ![w] = p],
           snap' \in {snap, [snap EXCEPT ![w] = s]},
           op' \in {op, [op EXCEPT ![w] = c]},
           key' \in [Worker -> Key \cup {NoKey}],
           claim' \in [Scope \X Key -> {"none", "inflight", "done"}],
           UNCHANGED <<stored, lock, linked, begun, event, django>>
    PROVE  TypeInv'
  <1>1. TypeOK /\ IndexedIsPlaced
    BY DEF TypeInv
  <1>2. /\ pc' \in [Worker -> Place] /\ op' \in [Worker -> Call]
        /\ snap' \in [Worker -> Session]
    BY <1>1 DEF TypeOK
  <1>3. TypeOK'
    BY <1>1, <1>2 DEF TypeOK, django
  <1>4. IndexedIsPlaced'
    BY <1>1 DEF IndexedIsPlaced, TypeOK, django
  <1> QED
    BY <1>3, <1>4 DEF TypeInv

(* Claiming a key keeps TypeInv.                                           *)
LEMMA TakeClaimType ==
    ASSUME TypeInv, NEW w \in Worker, NEW scope \in Scope, NEW k \in Key,
           NEW p \in Place \ {"index"}, NEW q \in Place \ {"index"},
           TakeClaim(w, scope, k, p, q)
    PROVE  TypeInv'
  <1>1. TypeOK
    BY DEF TypeInv
  <1>2. claim' \in {claim, [claim EXCEPT ![<<scope, k>>] = "inflight"]}
    BY DEF TakeClaim
  <1>3. claim' \in [Scope \X Key -> {"none", "inflight", "done"}]
    BY <1>1, <1>2 DEF TypeOK
  <1>4. key' \in {key, [key EXCEPT ![w] = k]}
    BY DEF TakeClaim
  <1>5. key' \in [Worker -> Key \cup {NoKey}]
    BY <1>1, <1>4 DEF TypeOK
  <1>6. /\ pc' = [pc EXCEPT ![w] = p] \/ pc' = [pc EXCEPT ![w] = q]
        /\ UNCHANGED <<stored, lock, linked, op, snap, begun, event, django>>
    BY DEF TakeClaim, Goto
  <1>7. stored \in Session /\ "none" \in Call
    BY <1>1 DEF TypeOK, Call
  <1> QED
    BY <1>3, <1>5, <1>6, <1>7, HandlerType

(* Loading a session keeps TypeInv.                                        *)
LEMMA LoadedType ==
    ASSUME TypeInv, NEW w \in Worker, NEW s \in Session,
           NEW p \in Place \ {"index"}, Loaded(w, s, p)
    PROVE  TypeInv'
  <1>1. /\ key' = key /\ claim' = claim /\ op' = op
        /\ key \in [Worker -> Key \cup {NoKey}]
        /\ claim \in [Scope \X Key -> {"none", "inflight", "done"}]
        /\ "none" \in Call
    BY DEF Loaded, TypeInv, TypeOK, Call, store
  <1> QED
    BY <1>1, HandlerType DEF Loaded, Goto, Hold, store

(* A handler that reads the session, and opens none, keeps OneOrderInv.    *)
LEMMA LoadedOneOrder ==
    ASSUME TypeInv, OneOrderInv, NEW w \in Worker, NEW s \in Session,
           NEW p \in {"edit", "choose", "claim", "resume", "save", "giveUp", "unlock"},
           pc[w] = "load", Loaded(w, s, p),
           s.status \in Open => stored.status \in Open
    PROVE  OneOrderInv'
  <1>1. /\ pc \in [Worker -> Place] /\ op \in [Worker -> Call]
        /\ snap \in [Worker -> Session] /\ begun \in [Worker -> BOOLEAN]
    BY DEF TypeInv, TypeOK
  <1>2. /\ OthersStay(w)
        /\ pc'[w] = p /\ snap'[w] = s /\ begun'[w] = begun[w] /\ op'[w] = op[w]
        /\ stored' = stored /\ lock' = lock /\ orders' = orders
    BY <1>1 DEF Loaded, Goto, Hold, OthersStay, store, django
  <1>3. ~begun[w] /\ lock = w
    BY DEF OneOrderInv, PlacesFit, Fits, HoldersHaveLock
  <1> QED
    BY <1>2, <1>3, QuietStep DEF Fits, Busy, Writes, Writing, Early

(* A handler that works on its own snapshot, and opens none.               *)
LEMMA WorkOneOrder ==
    ASSUME TypeInv, OneOrderInv, NEW w \in Worker, NEW s \in Session,
           pc[w] \in {"edit", "choose", "claim", "resume"}, ~Early(w),
           NEW p \in {"choose", "claim", "payWay", "save", "giveUp", "unlock"},
           pc' = [pc EXCEPT ![w] = p],
           snap' \in {snap, [snap EXCEPT ![w] = s]},
           s.status \in Open => snap[w].status \in Open,
           UNCHANGED <<stored, lock, op, begun, orders>>
    PROVE  OneOrderInv'
  <1>1. /\ pc \in [Worker -> Place] /\ op \in [Worker -> Call]
        /\ snap \in [Worker -> Session] /\ begun \in [Worker -> BOOLEAN]
    BY DEF TypeInv, TypeOK
  <1>2. /\ OthersStay(w) /\ pc'[w] = p
        /\ snap'[w].status \in Open => snap[w].status \in Open
        /\ op'[w] = op[w] /\ begun'[w] = begun[w]
    BY <1>1 DEF OthersStay
  <1>3. Writes(w)
    BY DEF Writes, Writing
  <1>4. ~begun[w] /\ lock = w
    BY <1>3 DEF OneOrderInv, PlacesFit, Fits, HoldersHaveLock
  <1> QED
    BY <1>2, <1>3, <1>4, QuietStep DEF Fits, Busy, Writes, Writing, Early

(* A handler on its way to the lock, or on its way out.                    *)
LEMMA OutsideOneOrder ==
    ASSUME TypeInv, OneOrderInv, NEW w \in Worker, NEW c \in Call,
           pc[w] \in {"idle", "giveUp", "record"} \/ Early(w),
           NEW p \in {"lock", "claim", "unlock"},
           pc' = [pc EXCEPT ![w] = p],
           op' \in {op, [op EXCEPT ![w] = c]},
           p = "claim" => Early(w)',
           pc[w] \in {"giveUp", "record"} => p = "unlock",
           UNCHANGED <<stored, lock, snap, begun, orders>>
    PROVE  OneOrderInv'
  <1>1. /\ pc \in [Worker -> Place] /\ op \in [Worker -> Call]
    BY DEF TypeInv, TypeOK
  <1>2. /\ OthersStay(w) /\ pc'[w] = p
    BY <1>1 DEF OthersStay
  <1>3. Fits(w)
    BY DEF OneOrderInv, PlacesFit
  <1>4. p # "unlock" => ~begun[w]
    BY <1>3 DEF Fits, Early
  <1> QED
    BY <1>2, <1>3, <1>4, QuietStep DEF Fits, Busy, Writes, Writing, Early

-----------------------------------------------------------------------------
(* The kinds of steps a handler takes, for the invariants on what it may   *)
(* still save.  A step of w leaves the others and their lock alone, claims *)
(* the lock before it reads, and spends a key at "spend" only.             *)
Mine(w) ==
    /\ OthersStay(w)
    /\ \A v \in Worker \ {w} : lock = v => lock' = v
    /\ Writes(w)' \/ pc'[w] = "load" =>
          \/ lock' = w
          \/ (Writes(w) \/ pc[w] = "load") /\ lock' = lock
    /\ KeySpent' => KeySpent \/ pc[w] = "spend"
    /\ pc'[w] = "record" => op'[w] \in {"update", "cancel"}
    /\ pc'[w] # "idle" /\ op'[w] = "event" =>
          linked # {} \/ (pc[w] # "idle" /\ op[w] = "event")
    /\ Protocol = "acp" /\ Writes(w)' =>
          snap'[w].payWay \in {"collected", "none"} \cup
             (IF Writes(w) THEN {snap[w].payWay} ELSE {stored.payWay})

Still == UNCHANGED <<stored, orders, linked>>

(* It ends with nothing left to save, or has not read anything yet; only a *)
(* crash takes a known order with it.                                      *)
Stops(w) ==
    /\ Still /\ ~Writes(w)' /\ pc'[w] # "create"
    /\ pc[w] \in {"pay", "spend", "save"} =>
          snap[w].order = 0 \/ "crash" \in Faults

(* It works on its snapshot.                                               *)
Works(w) ==
    /\ Still /\ Writes(w) /\ begun'[w] = begun[w]
    /\ pc[w] \notin {"create", "index", "save"}
    /\ pc'[w] \notin {"create", "index"}
    /\ pc'[w] \in {"pay", "spend"} => pc[w] \in {"pay", "spend"}
    /\ pc[w] \in {"pay", "spend"} => pc'[w] \in {"spend", "save"}
    /\ snap'[w].order = snap[w].order
    /\ \/ snap'[w].status = snap[w].status
       \/ snap'[w].status \in Open /\ snap[w].status \in Open

(* It reads the session, and may complete or cancel what it has read.      *)
Reads(w) ==
    /\ Still /\ pc[w] = "load" /\ begun'[w] = begun[w]
    /\ pc'[w] \notin {"create", "index", "pay", "spend"}
    /\ stored.status # "absent" /\ snap'[w].order = stored.order
    /\ \/ snap'[w].status = stored.status
       \/ op[w] = "event" /\ stored.status \notin Terminal
                          /\ snap'[w].status = "completed"
       \/ /\ stored.status \notin {"canceled", "in_progress"}
          /\ snap'[w].status = "canceled"
          /\ IF Protocol = "acp" THEN stored.status # "completed"
                                 ELSE stored.order = 0

(* It stores complete_in_progress, or fails to.                            *)
Begins(w) ==
    /\ pc[w] = "persist" /\ UNCHANGED <<orders, linked>>
    /\ \/ /\ pc'[w] = "create" /\ begun'[w]
          /\ stored' = InProgress(snap[w]) /\ snap'[w] = InProgress(snap[w])
       \/ /\ pc'[w] = "free" /\ begun'[w] = begun[w] /\ snap'[w] = snap[w]
          /\ stored' \in {stored, InProgress(snap[w])}

(* It asks for the order: placed, unknown or refused.                      *)
Asks(w) ==
    /\ pc[w] = "create" /\ UNCHANGED <<stored, linked>> /\ begun'[w] = begun[w]
    /\ \/ /\ pc'[w] = "index" /\ orders' = orders + 1
          /\ snap'[w].order = orders' /\ snap'[w].status = snap[w].status
       \/ /\ pc'[w] = "spend" /\ orders' \in {orders, orders + 1}
          /\ snap'[w] = snap[w]
       \/ /\ pc'[w] = "free" /\ orders' = orders
          /\ snap'[w].order = snap[w].order /\ snap'[w].status = "ready"

(* It indexes the order and settles it in its snapshot.                    *)
Indexes(w) ==
    /\ pc[w] = "index" /\ UNCHANGED <<stored, orders>> /\ begun'[w] = begun[w]
    /\ linked' \in {linked, linked \cup {snap[w].order}}
    /\ snap'[w].order = snap[w].order
    /\ \/ /\ pc'[w] = "spend" /\ snap[w].payWay # "hosted"
          /\ snap'[w].status = "completed"
       \/ /\ pc'[w] = "pay" /\ snap[w].payWay = "hosted"
          /\ snap'[w].status = "escalation"

(* It saves its snapshot.                                                  *)
Saves(w) ==
    /\ pc[w] = "save" /\ ~Writes(w)' /\ pc'[w] # "load"
    /\ UNCHANGED <<orders, linked>>
    /\ stored' \in {stored, snap[w], Absent}
    /\ Faults \subseteq {"crash"} => stored' = snap[w]
    /\ "expiry" \notin Faults => stored' \in {stored, snap[w]}

(* What happens around the handlers leaves them where they are.            *)
Outside ==
    /\ UNCHANGED <<pc, op, snap, begun, orders, linked>>
    /\ stored' \in {stored, Absent}
    /\ "expiry" \notin Faults => stored' = stored
    /\ KeySpent' => KeySpent
    /\ LockLapse = "never" => \A w \in Worker : lock = w => lock' = w

(* Every step of a handler is of one kind.                                 *)
Kind(w) ==
    /\ Mine(w)
    /\ \/ Stops(w) \/ Works(w) \/ Reads(w)
       \/ Begins(w) \/ Asks(w) \/ Indexes(w) \/ Saves(w)

(* Which keys are spent depends on the claims; a claim that is not settled *)
(* spends none.                                                            *)
LEMMA SpendsNone ==
    ASSUME NEW c, NEW v, v # "done", claim' \in {claim, [claim EXCEPT ![c] = v]},
           claim \in [Scope \X Key -> {"none", "inflight", "done"}],
           "complete" \in Scope
    PROVE  KeySpent' => KeySpent
  BY DEF KeySpent

(* Completions are claimed in both surfaces.                               *)
LEMMA CompleteScope == "complete" \in Scope
  BY DEF Scope

(* The shared steps are of these kinds.                                    *)
LEMMA FlowStepKinds ==
    ASSUME TypeInv, NEW w \in Worker, FlowStep(w)
    PROVE  Kind(w)
  <1> USE DEF Goto, Hold, store, django
  <1>0. /\ pc \in [Worker -> Place] /\ op \in [Worker -> Call]
        /\ snap \in [Worker -> Session] /\ begun \in [Worker -> BOOLEAN]
        /\ stored \in Session
        /\ claim \in [Scope \X Key -> {"none", "inflight", "done"}]
    BY DEF TypeInv, TypeOK
  <1>1. CASE TakeLock(w)
    <2>1. /\ OthersStay(w) /\ UNCHANGED <<stored, orders, linked, claim>>
          /\ pc[w] = "lock" /\ pc'[w] \in {"load", "giveUp", "unlock"}
          /\ pc'[w] = "load" => lock' = w
          /\ op'[w] = op[w] /\ \A v \in Worker \ {w} : lock = v => lock' = v
      BY <1>0, <1>1, CheckoutConstants DEF TakeLock, OthersStay
    <2> QED
      BY <2>1 DEF Kind, Mine, Stops, Still, Writes, Writing, KeySpent
  <1>2. CASE LoadNothing(w)
    <2>1. /\ OthersStay(w) /\ UNCHANGED <<stored, orders, linked, claim>>
          /\ pc[w] = "load" /\ pc'[w] \in {"giveUp", "unlock"}
          /\ op'[w] = op[w] /\ \A v \in Worker \ {w} : lock = v => lock' = v
      BY <1>0, <1>2, CheckoutConstants DEF LoadNothing, OthersStay
    <2> QED
      BY <2>1 DEF Kind, Mine, Stops, Still, Writes, Writing, KeySpent
  <1>3. CASE Unlock(w)
    <2>1. /\ OthersStay(w) /\ UNCHANGED <<stored, orders, linked, claim>>
          /\ pc[w] = "unlock" /\ pc'[w] = "idle"
          /\ \A v \in Worker \ {w} : lock = v => lock' = v
      BY <1>0, <1>3, CheckoutConstants DEF Unlock, Forget, OthersStay
    <2> QED
      BY <2>1 DEF Kind, Mine, Stops, Still, Writes, Writing, KeySpent
  <1>4. CASE CheckPayWay(w)
    <2>1. /\ OthersStay(w) /\ UNCHANGED <<stored, orders, linked, claim, lock>>
          /\ pc[w] = "payWay" /\ pc'[w] \in {"reserve", "free"}
          /\ op'[w] = op[w] /\ snap'[w] = snap[w] /\ begun'[w] = begun[w]
      BY <1>0, <1>4 DEF CheckPayWay, OthersStay
    <2> QED
      BY <2>1 DEF Kind, Mine, Works, Still, Writes, Writing, Early, KeySpent
  <1>5. CASE ReserveStock(w)
    <2>1. /\ OthersStay(w) /\ UNCHANGED <<stored, orders, linked, claim, lock>>
          /\ pc[w] = "reserve" /\ pc'[w] \in {"persist", "free"}
          /\ op'[w] = op[w] /\ snap'[w] = snap[w] /\ begun'[w] = begun[w]
      BY <1>0, <1>5 DEF ReserveStock, OthersStay
    <2> QED
      BY <2>1 DEF Kind, Mine, Works, Still, Writes, Writing, Early, KeySpent
  <1>6. CASE Persist(w)
    <2>1. /\ OthersStay(w) /\ UNCHANGED <<orders, linked, claim, lock>>
          /\ pc[w] = "persist" /\ op'[w] = op[w]
          /\ pc'[w] \in {"create", "free"}
      BY <1>0, <1>6 DEF Persist, OthersStay
    <2>2. Begins(w)
      BY <1>0, <1>6 DEF Persist, Begins
    <2>3. snap'[w].payWay = snap[w].payWay
      BY <1>0, <1>6 DEF Persist, InProgress, To, Session
    <2> QED
      BY <2>1, <2>2, <2>3 DEF Kind, Mine, Writes, Writing, Early, KeySpent
  <1>7. CASE CreateOrder(w)
    <2>1. /\ OthersStay(w) /\ UNCHANGED <<stored, linked, claim, lock>>
          /\ pc[w] = "create" /\ pc'[w] \in {"index", "spend", "free"}
          /\ op'[w] = op[w] /\ begun'[w] = begun[w]
      BY <1>0, <1>7 DEF CreateOrder, OthersStay
    <2>2. orders \in Nat /\ snap[w] \in Session
      BY <1>0, CheckoutConstants DEF TypeInv, TypeOK
    <2>3. Asks(w)
      <3>1. CASE PlaceOrder(w) /\ Hold(w, Ordered(snap[w], orders')) /\ Goto(w, "index")
        <4>1. orders' = orders + 1 /\ orders' \in Nat
          BY <2>2, <3>1 DEF PlaceOrder
        <4>2. snap'[w] = Ordered(snap[w], orders')
          BY <1>0, <3>1
        <4> QED
          BY <1>0, <2>1, <2>2, <3>1, <4>1, <4>2, SetFields DEF Asks
      <3>2. CASE (PlaceOrder(w) \/ UNCHANGED django) /\ snap' = snap /\ Goto(w, "spend")
        BY <1>0, <2>1, <3>2 DEF Asks, PlaceOrder
      <3>3. CASE UNCHANGED django /\ Hold(w, To(snap[w], "ready")) /\ Goto(w, "free")
        <4>1. /\ To(snap[w], "ready").order = snap[w].order
              /\ To(snap[w], "ready").status = "ready"
          BY <2>2 DEF Session, To
        <4> QED
          BY <1>0, <2>1, <3>3, <4>1 DEF Asks
      <3> QED
        BY <1>7, <3>1, <3>2, <3>3 DEF CreateOrder
    <2>4. snap'[w].payWay = snap[w].payWay
      BY <1>0, <1>7 DEF CreateOrder, Ordered, To, Session
    <2> QED
      BY <2>1, <2>3, <2>4 DEF Kind, Mine, Writes, Writing, Early, KeySpent
  <1>8. CASE IndexOrder(w)
    <2>1. /\ OthersStay(w) /\ UNCHANGED <<stored, orders, claim, lock>>
          /\ pc[w] = "index" /\ pc'[w] \in {"pay", "spend"} /\ op'[w] = op[w]
          /\ begun'[w] = begun[w]
      BY <1>0, <1>8 DEF IndexOrder, OthersStay
    <2>2. \A st \in Status : To(snap[w], st).order = snap[w].order
                             /\ To(snap[w], st).status = st
      BY <1>0 DEF Session, To
    <2>3. Indexes(w)
      BY <1>0, <1>8, <2>1, <2>2, StatusFacts DEF IndexOrder, Indexes
    <2>4. snap'[w].payWay = snap[w].payWay
      BY <1>0, <1>8 DEF IndexOrder, To, Session
    <2> QED
      BY <2>1, <2>3, <2>4 DEF Kind, Mine, Writes, Writing, Early, KeySpent
  <1>9. CASE StartPayment(w)
    <2>1. /\ OthersStay(w) /\ UNCHANGED <<stored, orders, linked, claim, lock>>
          /\ pc[w] = "pay" /\ pc'[w] = "spend"
          /\ op'[w] = op[w] /\ begun'[w] = begun[w]
      BY <1>0, <1>9 DEF StartPayment, OthersStay
    <2>2. PICK made \in BOOLEAN : snap' = [snap EXCEPT ![w] = Linked(snap[w], made)]
      BY <1>9 DEF StartPayment
    <2>3. /\ snap'[w].order = snap[w].order /\ snap'[w].status = snap[w].status
          /\ snap'[w].payWay = snap[w].payWay
      BY <1>0, <2>2 DEF Session, Linked
    <2> QED
      BY <2>1, <2>3 DEF Kind, Mine, Works, Still, Writes, Writing, Early, KeySpent
  <1>10. CASE SpendKey(w)
    <2>1. /\ OthersStay(w) /\ UNCHANGED <<stored, orders, linked, lock>>
          /\ pc[w] = "spend" /\ pc'[w] \in {"unlock", "save"} /\ snap'[w] = snap[w]
          /\ op'[w] = op[w] /\ begun'[w] = begun[w]
          /\ pc'[w] = "unlock" => snap[w].order = 0
      BY <1>0, <1>10 DEF SpendKey, OthersStay
    <2> QED
      BY <2>1 DEF Kind, Mine, Works, Stops, Still, Writes, Writing, Early
  <1>11. CASE FreeKey(w)
    <2>1. /\ OthersStay(w) /\ UNCHANGED <<stored, orders, linked, lock>>
          /\ pc[w] = "free" /\ pc'[w] = "save" /\ snap'[w] = snap[w]
          /\ op'[w] = op[w] /\ begun'[w] = begun[w]
      BY <1>0, <1>11 DEF FreeKey, OthersStay
    <2>2. KeySpent' => KeySpent
      BY <1>0, <1>11, SpendsNone, CompleteScope DEF FreeKey, Freed
    <2> QED
      BY <2>1, <2>2 DEF Kind, Mine, Works, Still, Writes, Writing, Early
  <1>12. CASE Save(w)
    <2>1. /\ OthersStay(w) /\ UNCHANGED <<orders, linked, claim, lock>>
          /\ pc[w] = "save" /\ pc'[w] \in {"record", "giveUp", "unlock"}
          /\ op'[w] = op[w]
          /\ pc'[w] = "record" => op[w] \in {"update", "cancel"}
      BY <1>0, <1>12 DEF Save, OthersStay
    <2>2. Saves(w)
      BY <2>1, <1>12 DEF Save, SaveOutcome, Saves, Writes, Writing, Failing
    <2> QED
      BY <2>1, <2>2 DEF Kind, Mine, Writes, Writing, KeySpent
  <1>13. CASE LoadEvent(w)
    <2>1. /\ OthersStay(w) /\ UNCHANGED <<stored, orders, linked, claim, lock>>
          /\ pc[w] = "load" /\ op[w] = "event" /\ pc'[w] \in {"unlock", "save"}
          /\ op'[w] = op[w] /\ begun'[w] = begun[w]
      BY <1>0, <1>13 DEF LoadEvent, OthersStay
    <2>2. /\ To(stored, "completed").order = stored.order
          /\ To(stored, "completed").status = "completed"
      BY <1>0 DEF Session, To
    <2>3. Reads(w)
      BY <1>0, <1>13, <2>1, <2>2 DEF LoadEvent, Reads, Still
    <2>4. snap'[w].payWay = stored.payWay
      BY <1>0, <1>13 DEF LoadEvent, To, Session
    <2> QED
      BY <2>1, <2>3, <2>4 DEF Kind, Mine, Writes, Writing, Early, KeySpent
  <1> QED
    BY <1>1, <1>2, <1>3, <1>4, <1>5, <1>6, <1>7, <1>8, <1>9, <1>10, <1>11,
       <1>12, <1>13 DEF FlowStep

(* What happens around the handlers leaves them alone, ends one, or starts *)
(* one.                                                                    *)
LEMMA AroundKinds ==
    ASSUME TypeInv, Around
    PROVE  Outside \/ \E w \in Worker : Kind(w)
  <1> USE DEF store, django, locals, Goto
  <1>0. /\ pc \in [Worker -> Place] /\ op \in [Worker -> Call]
        /\ snap \in [Worker -> Session] /\ begun \in [Worker -> BOOLEAN]
        /\ claim \in [Scope \X Key -> {"none", "inflight", "done"}]
    BY DEF TypeInv, TypeOK
  <1>1. ASSUME NEW w \in Worker, LapseLock(w) PROVE Outside
    BY <1>1 DEF LapseLock, MayLapse, Outside, KeySpent
  <1>2. ASSUME NEW w \in Worker, Crash(w) PROVE Kind(w)
    <2>1. /\ OthersStay(w) /\ pc'[w] = "idle" /\ "crash" \in Faults
          /\ UNCHANGED <<stored, orders, linked, claim>>
          /\ \A v \in Worker \ {w} : lock = v => lock' = v
      BY <1>0, <1>2 DEF Crash, Forget, Hold, OthersStay
    <2> QED
      BY <2>1 DEF Kind, Mine, Stops, Still, Writes, Writing, KeySpent
  <1>3. ASSUME NEW w \in Worker, NEW o \in 1..MaxOrders, StartEvent(w, o)
        PROVE  Kind(w)
    <2>1. /\ OthersStay(w) /\ pc[w] = "idle" /\ pc'[w] = "lock" /\ linked # {}
          /\ UNCHANGED <<stored, orders, linked, claim, lock>>
      BY <1>0, <1>3 DEF StartEvent, OthersStay
    <2> QED
      BY <2>1 DEF Kind, Mine, Stops, Still, Writes, Writing, KeySpent
  <1>4. ASSUME NEW o \in 1..MaxOrders, DropEvent(o) PROVE Outside
    BY <1>4 DEF DropEvent, Outside, KeySpent
  <1>5. CASE ExpireLock
    BY <1>5, CheckoutConstants DEF ExpireLock, Outside, KeySpent
  <1>6. CASE ExpireSession
    BY <1>6 DEF ExpireSession, Outside, KeySpent
  <1>7. CASE PayOrder
    BY <1>7 DEF PayOrder, Outside, KeySpent
  <1>8. ASSUME NEW c \in Scope \X Key, ExpireClaim(c) PROVE Outside
    <2>1. KeySpent' => KeySpent
      BY <1>0, <1>8, SpendsNone, CompleteScope DEF ExpireClaim
    <2> QED
      BY <1>8, <2>1 DEF ExpireClaim, Outside
  <1> QED
    BY <1>1, <1>2, <1>3, <1>4, <1>5, <1>6, <1>7, <1>8 DEF Around

(* A stuttering step is a step outside the handlers.                       *)
LEMMA StutterKind == UNCHANGED vars => Outside
  BY DEF vars, Outside, KeySpent

-----------------------------------------------------------------------------
(* A key that is spent closes the session, as an order does.               *)
LEMMA SpentKind ==
    ASSUME TypeInv, OneOrderInv, SpentInv, NEW w \in Worker, Kind(w)
    PROVE  SpentInv'
  <1>0. /\ snap[w] \in Session /\ stored \in Session
        /\ InProgress(snap[w]).status = "in_progress"
    BY SetFields, StatusFacts DEF TypeInv, TypeOK, InProgress
  <1>1. /\ Fits(w)
        /\ \A v \in Worker \ {w} :
              /\ Writes(v)' <=> Writes(v)
              /\ pc'[v] = pc[v] /\ snap'[v] = snap[v] /\ op'[v] = op[v]
    BY OthersKeep DEF OneOrderInv, PlacesFit, Kind, Mine, OthersStay
  <1>2. pc[w] = "spend" => Without(Open) /\ \A v \in Worker : pc[v] # "create"
    <2> SUFFICES ASSUME pc[w] = "spend"
                 PROVE  Without(Open) /\ \A v \in Worker : pc[v] # "create"
      OBVIOUS
    <2>1. Busy(w) /\ snap[w].status \notin Open
      BY <1>1 DEF Fits, Busy, Writes, Writing, Early
    <2>2. Without(Open)
      BY <2>1 DEF OneOrderInv, BusyIsAlone, Without
    <2>3. ASSUME NEW v \in Worker, pc[v] = "create" PROVE FALSE
      <3>1. Busy(v)
        BY <2>3 DEF OneOrderInv, PlacesFit, Fits, Busy, Writes, Writing, Early
      <3> QED
        BY <2>1, <2>3, <3>1 DEF OneOrderInv, OneBusy
    <2> QED
      BY <2>2, <2>3
  <1>3. KeySpent' => Without(Open) /\ \A v \in Worker : pc[v] # "create"
    BY <1>2 DEF SpentInv, Kind, Mine
  <1>4. ASSUME KeySpent' PROVE Without(Open)' /\ \A v \in Worker : pc'[v] # "create"
    <2>1. /\ stored'.status \notin Open /\ pc'[w] # "create"
          /\ Writes(w)' => snap'[w].status \notin Open
      <3>1. CASE Stops(w) \/ Works(w)
        BY <1>3, <1>4, <3>1 DEF Stops, Works, Still, Without
      <3>2. CASE Reads(w)
        BY <1>3, <1>4, <3>2, StatusFacts DEF Reads, Still, Without
      <3>3. CASE Begins(w)
        BY <1>1, <1>3, <1>4, <3>3, StatusFacts
        DEF Begins, Fits, Without, Writes, Writing, Early
      <3>4. CASE Asks(w)
        BY <1>3, <1>4, <3>4 DEF Asks
      <3>5. CASE Indexes(w)
        BY <1>3, <1>4, <3>5, StatusFacts DEF Indexes, Without
      <3>6. CASE Saves(w)
        BY <1>3, <1>4, <3>6, AbsentType, StatusFacts
        DEF Saves, Without, Writes, Writing, Early
      <3> QED
        BY <3>1, <3>2, <3>3, <3>4, <3>5, <3>6 DEF Kind
    <2> QED
      BY <1>1, <1>3, <1>4, <2>1 DEF Without
  <1>5. \A v \in Worker : pc'[v] = "record" => op'[v] \in {"update", "cancel"}
    BY <1>1 DEF SpentInv, Kind, Mine
  <1> QED
    BY <1>4, <1>5 DEF SpentInv

(* Without(S) is a matter of what the handlers hold and what is stored.    *)
LEMMA OutsideWithout ==
    ASSUME NEW S, Without(S), UNCHANGED <<pc, op, snap>>,
           stored' \in {stored, Absent}, "absent" \notin S
    PROVE  Without(S)'
  BY AbsentType DEF Without, Writes, Early

(* A spent key keeps the session closed where no handler steps.            *)
LEMMA SpentOutside ==
    ASSUME SpentInv, Outside
    PROVE  SpentInv'
  <1>1. KeySpent' => Without(Open)'
    BY OutsideWithout, StatusFacts DEF SpentInv, Outside
  <1> QED
    BY <1>1 DEF SpentInv, Outside

(* No key is spent at the start.                                           *)
LEMMA SpentInit == Init => SpentInv
  BY DEF Init, SpentInv, KeySpent, Scope

-----------------------------------------------------------------------------
(* Neither under a completion nor after its order is an ACP session        *)
(* canceled.                                                               *)
LEMMA CanceledKind ==
    ASSUME Protocol = "acp", TypeInv, OneOrderInv, CanceledInv,
           NEW w \in Worker, Kind(w)
    PROVE  CanceledInv'
  <1> DEFINE Placing == orders # 0 \/ \E v \in Worker : Busy(v)
  <1>0. /\ snap[w] \in Session /\ stored \in Session
        /\ InProgress(snap[w]).status = "in_progress"
        /\ InProgress(snap[w]).payWay = snap[w].payWay
    BY SetFields, StatusFacts DEF TypeInv, TypeOK, InProgress, To, Session
  <1>1. /\ Fits(w)
        /\ \A v \in Worker \ {w} :
              /\ Writes(v)' <=> Writes(v)
              /\ Busy(v)' <=> Busy(v)
              /\ pc'[v] = pc[v] /\ snap'[v] = snap[v]
    BY OthersKeep DEF OneOrderInv, PlacesFit, Kind, Mine, OthersStay
  <1>2. Absent.payWay = "none" /\ Absent.status = "absent"
    BY AbsentType DEF Absent, To, Fresh
  <1>3. /\ NotHosted(stored) /\ \A v \in Worker : Writes(v) => NotHosted(snap[v])
        /\ Placing => Without({"canceled"})
    BY DEF CanceledInv
  <1>4. NotHosted(stored)' /\ (Writes(w)' => NotHosted(snap[w])')
    <2>0. Writes(w)' => snap'[w].payWay # "hosted"
      BY <1>3 DEF Kind, Mine, NotHosted
    <2>1. CASE Stops(w) \/ Works(w)
      BY <1>3, <2>0, <2>1, StatusFacts DEF Stops, Works, Still, NotHosted
    <2>2. CASE Reads(w)
      BY <1>3, <2>0, <2>2, StatusFacts DEF Reads, Still, NotHosted
    <2>3. CASE Begins(w)
      BY <1>0, <1>3, <2>0, <2>3 DEF Begins, NotHosted, Writes, Writing, Early
    <2>4. CASE Asks(w)
      BY <1>0, <1>3, <2>0, <2>4 DEF Asks, NotHosted, Writes, Writing, Early
    <2>5. CASE Indexes(w)
      BY <1>0, <1>3, <2>0, <2>5 DEF Indexes, NotHosted, Writes, Writing, Early
    <2>6. CASE Saves(w)
      BY <1>2, <1>3, <2>6 DEF Saves, NotHosted, Writes, Writing, Early
    <2> QED
      BY <2>1, <2>2, <2>3, <2>4, <2>5, <2>6 DEF Kind
  <1>5. Placing' => Without({"canceled"})'
    <2> SUFFICES ASSUME Placing' PROVE Without({"canceled"})'
      OBVIOUS
    <2>1. CASE Begins(w) /\ pc'[w] = "create"
      <3>1. \A v \in Worker \ {w} : ~Writes(v)'
        BY <1>1, <2>1, PersistIsAlone DEF Begins
      <3> QED
        BY <1>0, <2>1, <3>1 DEF Begins, Without
    <2>2. CASE ~(Begins(w) /\ pc'[w] = "create")
      <3>1. Placing
        <4>1. CASE orders' # 0 /\ orders = 0
          <5>1. Asks(w)
            BY <4>1, <2>2 DEF Kind, Stops, Works, Reads, Begins, Asks, Indexes,
                              Saves, Still
          <5>2. Busy(w)
            BY <1>1, <5>1 DEF Asks, Fits, Busy, Writes, Writing, Early
          <5> QED
            BY <5>2
        <4>2. CASE orders' = orders
          <5>1. PICK v \in Worker : orders # 0 \/ Busy(v)'
            BY <4>2
          <5>2. CASE v = w /\ Busy(w)'
            <6>1. Busy(w)
              BY <1>1, <2>2, <5>2 DEF Kind, Stops, Works, Reads, Begins, Asks,
                   Indexes, Saves, Fits, Busy, Writes, Writing, Early
            <6> QED
              BY <6>1
          <5> QED
            BY <1>1, <5>1, <5>2
        <4> QED
          BY <4>1, <4>2
      <3>2. Without({"canceled"})
        BY <1>3, <3>1
      <3>3. stored.status \notin Open
        BY <3>1 DEF OneOrderInv, BusyIsAlone, OrderClosesSession
      <3>4. /\ stored'.status # "canceled"
            /\ Writes(w)' => snap'[w].status # "canceled"
        <4>1. CASE Stops(w) \/ Works(w)
          BY <3>2, <4>1, StatusFacts DEF Stops, Works, Still, Without
        <4>2. CASE Reads(w)
          <5>1. stored.status \notin {"canceled", "escalation"} \cup Open
            BY <1>3, <3>2, <3>3 DEF NotHosted, Without
          <5>2. stored.status \in {"in_progress", "completed"}
            BY <1>0, <4>2, <5>1 DEF Reads, Session, Status, Open, Terminal
          <5> QED
            BY <3>2, <4>2, <5>2 DEF Reads, Still, Without
        <4>3. CASE Begins(w)
          BY <1>0, <3>2, <4>3 DEF Begins, Without, Writes, Writing, Early
        <4>4. CASE Asks(w)
          BY <3>2, <4>4 DEF Asks, Without, Writes, Writing, Early
        <4>5. CASE Indexes(w)
          BY <3>2, <4>5 DEF Indexes, Without
        <4>6. CASE Saves(w)
          BY <1>2, <3>2, <4>6 DEF Saves, Without, Writes, Writing, Early
        <4> QED
          BY <4>1, <4>2, <4>3, <4>4, <4>5, <4>6 DEF Kind
      <3> QED
        BY <1>1, <3>2, <3>4 DEF Without
    <2> QED
      BY <2>1, <2>2
  <1> QED
    BY <1>1, <1>3, <1>4, <1>5 DEF CanceledInv

(* No canceled session appears where no handler steps.                     *)
LEMMA CanceledOutside ==
    ASSUME CanceledInv, Outside
    PROVE  CanceledInv'
  <1>1. \A w \in Worker : (Writes(w)' <=> Writes(w)) /\ (Busy(w)' <=> Busy(w))
    BY DEF Outside, Writes, Early, Busy
  <1>2. NotHosted(Absent)
    BY AbsentType DEF NotHosted, Absent, To, Fresh
  <1>3. NotHosted(stored)' /\ \A w \in Worker : Writes(w)' => NotHosted(snap[w])'
    BY <1>1, <1>2 DEF CanceledInv, Outside, NotHosted
  <1>4. (orders # 0 \/ \E w \in Worker : Busy(w))' => Without({"canceled"})'
    BY <1>1, OutsideWithout DEF CanceledInv, Outside
  <1> QED
    BY <1>3, <1>4 DEF CanceledInv

(* Nobody works at the start.                                              *)
LEMMA NobodyWrites ==
    ASSUME Init, NEW w \in Worker
    PROVE  pc[w] = "idle" /\ ~Writes(w) /\ ~Busy(w)
  <1>1. pc[w] = "idle"
    BY DEF Init
  <1> QED
    BY <1>1 DEF Writes, Writing, Busy

(* A session starts open, and an ACP session without a hosted payment.     *)
LEMMA CanceledInit == Protocol = "acp" /\ Init => CanceledInv
  <1> SUFFICES ASSUME Protocol = "acp", Init PROVE CanceledInv
    OBVIOUS
  <1>1. /\ \A w \in Worker : ~Writes(w)
        /\ \A w \in Worker : ~Busy(w)
    BY NobodyWrites
  <1>2. PICK d \in BOOLEAN, p \in {"collected", "none"} :
            stored = Recompute(PaidBy(Detailed(Fresh, d), p))
    BY DEF Init, Created, Selectable
  <1>3. NotHosted(stored)
    <2>1. /\ PaidBy(Detailed(Fresh, d), p).payWay = p
          /\ PaidBy(Detailed(Fresh, d), p).status = "incomplete"
      BY DEF Fresh, Detailed, PaidBy
    <2>2. stored.payWay = p
      BY <1>2, <2>1 DEF Recompute, To, Fresh, Detailed, PaidBy
    <2> QED
      BY <1>2, <2>2, CreatedType, StatusFacts DEF Init, NotHosted
  <1> QED
    BY <1>1, <1>3 DEF Init, CanceledInv

-----------------------------------------------------------------------------
(* With a lock that never lapses the handler that writes is the only one.  *)
LEMMA AloneKind ==
    ASSUME AloneInv, NEW w \in Worker, Kind(w)
    PROVE  AloneInv'
  <1>1. \A v \in Worker \ {w} : (Writes(v)' <=> Writes(v)) /\ pc'[v] = pc[v]
    BY OthersKeep DEF Kind, Mine, OthersStay
  <1>2. ASSUME NEW v \in Worker \ {w}, Writes(v)' \/ pc'[v] = "load"
        PROVE  lock' = v
    BY <1>1, <1>2 DEF AloneInv, Kind, Mine
  <1>3. ASSUME Writes(w)' \/ pc'[w] = "load" PROVE lock' = w
    BY <1>3 DEF AloneInv, Kind, Mine
  <1> QED
    BY <1>2, <1>3 DEF AloneInv

(* Where the lock never lapses, a step outside the handlers leaves it.     *)
LEMMA AloneOutside ==
    ASSUME AloneInv, Outside, LockLapse = "never"
    PROVE  AloneInv'
  BY DEF AloneInv, Outside, Writes, Early

(* Nobody needs the lock at the start.                                     *)
LEMMA AloneInit == Init => AloneInv
  <1> SUFFICES ASSUME Init, NEW w \in Worker, Writes(w) \/ pc[w] = "load"
               PROVE  lock = w
    BY DEF AloneInv
  <1> QED
    BY NobodyWrites

(* So while one writes, nobody else has anything to save.                  *)
LEMMA WriterIsAlone ==
    ASSUME AloneInv, NEW w \in Worker, Writes(w) \/ pc[w] = "load",
           NEW v \in Worker \ {w}
    PROVE  ~Writes(v) /\ pc[v] \notin {"create", "index", "pay", "spend"}
  BY DEF AloneInv, Writes, Writing, Early

(* What a handler is about to save replaces the stored session as          *)
(* CheckoutLifecycle allows, where no lock lapses and no session expires,  *)
(* and a cancel meets an open session.                                     *)
LEMMA SavesKind ==
    ASSUME TypeInv, OneOrderInv, AloneInv, SavesInv, "expiry" \notin Faults,
           NEW w \in Worker, Kind(w),
           pc[w] = "load" /\ Writes(w)' /\ snap'[w].status = "canceled"
              => stored.status \in Open \cup {"canceled"}
    PROVE  SavesInv'
  <1>0. /\ snap[w] \in Session /\ stored \in Session
        /\ InProgress(snap[w]).status = "in_progress"
        /\ orders \in Nat
    BY SetFields, StatusFacts, CheckoutConstants DEF TypeInv, TypeOK, InProgress
  <1>1. /\ Fits(w)
        /\ \A v \in Worker \ {w} :
              /\ Writes(v)' <=> Writes(v)
              /\ pc'[v] = pc[v] /\ snap'[v] = snap[v] /\ op'[v] = op[v]
    BY OthersKeep DEF OneOrderInv, PlacesFit, Kind, Mine, OthersStay
  <1>2. orders \in 0..1
    BY <1>0 DEF OneOrderInv, AtMostOneOrder
  <1>3. ASSUME NEW v \in Worker, pc'[v] # "idle", op'[v] = "event"
        PROVE  linked' # {}
    <2>1. linked # {}
      BY <1>1, <1>3 DEF SavesInv, Kind, Mine
    <2> QED
      BY <2>1 DEF Kind, Stops, Works, Reads, Begins, Asks, Indexes, Saves, Still
  <1>4. \A v \in Worker \ {w} :
            /\ Writes(v)' => Replaces(snap[v].status, stored.status)'
            /\ pc'[v] \in {"create", "index", "pay", "spend"} =>
                  stored'.status = "in_progress"
            /\ pc'[v] = "create" => snap'[v].status = "in_progress"
    <2>1. CASE Writes(w)
      BY <1>1, <2>1, WriterIsAlone
    <2>2. CASE ~Writes(w)
      <3>1. stored' = stored /\ orders' = orders
        BY <2>2 DEF Kind, Stops, Works, Reads, Begins, Asks, Indexes, Saves,
                    Still, Writes, Writing, Early
      <3> QED
        BY <1>1, <3>1 DEF SavesInv, Replaces
    <2> QED
      BY <2>1, <2>2
  <1>5. /\ stored'.status # "absent"
        /\ Writes(w)' => Replaces(snap[w].status, stored.status)'
        /\ pc'[w] \in {"create", "index", "pay", "spend"} =>
              stored'.status = "in_progress"
        /\ pc'[w] = "create" => snap'[w].status = "in_progress"
    <2>0. /\ stored.status # "absent"
          /\ Writes(w) => Replaces(snap[w].status, stored.status)
          /\ pc[w] \in {"create", "index", "pay", "spend"} =>
                stored.status = "in_progress"
          /\ pc[w] = "create" => snap[w].status = "in_progress"
      BY DEF SavesInv
    <2>1. CASE Stops(w)
      BY <2>0, <2>1 DEF Stops, Still, Writes, Writing, Early
    <2>2. CASE Works(w)
      <3>1. Replaces(snap[w].status, stored.status)'
        BY <2>0, <2>2, StatusFacts DEF Works, Still, Replaces
      <3> QED
        BY <2>0, <2>2, <3>1 DEF Works, Still
    <2>3. CASE Reads(w)
      <3>1. Writes(w)' => Replaces(snap[w].status, stored.status)'
        <4>1. CASE snap'[w].status = stored.status
          BY <2>3, <4>1 DEF Reads, Still, Replaces
        <4>2. CASE /\ op[w] = "event" /\ stored.status \notin Terminal
                   /\ snap'[w].status = "completed"
          <5>1. linked # {}
            BY <2>3 , <4>2 DEF SavesInv, Reads
          <5>2. orders = 1
            <6>1. linked \subseteq 1..orders
              BY DEF TypeInv, TypeOK
            <6>2. PICK o \in linked : TRUE
              BY <5>1
            <6> QED
              BY <1>2, <6>1, <6>2
          <5>3. stored.status \in {"in_progress", "escalation"}
            BY <1>0, <2>0, <4>2, <5>2
            DEF OneOrderInv, OrderClosesSession, Session, Status, Open, Terminal
          <5> QED
            BY <2>3, <4>2, <5>2, <5>3 DEF Reads, Still, Replaces
        <4>3. CASE snap'[w].status = "canceled"
          BY <2>3, <4>3, StatusFacts DEF Reads, Still, Replaces
        <4> QED
          BY <2>3, <4>1, <4>2, <4>3 DEF Reads
      <3> QED
        BY <2>0, <2>3, <3>1 DEF Reads, Still
    <2>4. CASE Begins(w)
      <3>1. orders = 0
        BY <2>4, PersistIsAlone DEF Begins
      <3>2. snap[w].status = "ready" /\ Writes(w)
        BY <1>1, <2>4 DEF Begins, Fits, Writes, Writing, Early
      <3>3. orders' = 0 /\ stored'.status # "absent"
        BY <1>0, <2>0, <2>4, <3>1 DEF Begins
      <3>4. Replaces(snap[w].status, stored.status)'
        <4>1. CASE pc'[w] = "create"
          BY <1>0, <2>4, <4>1 DEF Begins, Replaces
        <4>2. CASE stored' = stored /\ snap'[w] = snap[w]
          BY <2>0, <3>1, <3>2, <3>3, <4>2 DEF Replaces
        <4>3. CASE stored' = InProgress(snap[w]) /\ snap'[w] = snap[w]
          BY <1>0, <3>2, <3>3, <4>3, StatusFacts DEF Replaces
        <4> QED
          BY <2>4, <4>1, <4>2, <4>3 DEF Begins
      <3> QED
        BY <1>0, <2>4, <3>3, <3>4 DEF Begins
    <2>5. CASE Asks(w)
      <3>1. orders = 0 /\ stored.status = "in_progress"
            /\ snap[w].status = "in_progress"
        BY <2>0, <2>5 DEF Asks, OneOrderInv, CreateIsFirst
      <3>2. Replaces(snap[w].status, stored.status)'
        BY <2>5, <3>1, StatusFacts DEF Asks, Replaces
      <3> QED
        BY <2>0, <2>5, <3>1, <3>2 DEF Asks
    <2>6. CASE Indexes(w)
      <3>1. orders = 1 /\ stored.status = "in_progress"
        BY <1>2, <2>0, <2>6 DEF Indexes, TypeInv, IndexedIsPlaced
      <3>2. Replaces(snap[w].status, stored.status)'
        BY <2>6, <3>1 DEF Indexes, Replaces
      <3> QED
        BY <2>0, <2>6, <3>1, <3>2 DEF Indexes
    <2>7. CASE Saves(w)
      <3>1. Writes(w) /\ stored' \in {stored, snap[w]}
        BY <2>7 DEF Saves, Writes, Writing, Early
      <3>2. stored'.status # "absent"
        BY <2>0, <3>1, StatusFacts DEF Replaces
      <3> QED
        BY <2>7, <3>2 DEF Saves, Writes, Writing, Early
    <2> QED
      BY <2>1, <2>2, <2>3, <2>4, <2>5, <2>6, <2>7 DEF Kind
  <1> QED
    BY <1>3, <1>4, <1>5 DEF SavesInv

(* A step outside the handlers takes no saved status back.                 *)
LEMMA SavesOutside ==
    ASSUME SavesInv, Outside, "expiry" \notin Faults
    PROVE  SavesInv'
  <1>1. \A w \in Worker : Writes(w)' <=> Writes(w)
    BY DEF Outside, Writes, Early
  <1> QED
    BY <1>1 DEF SavesInv, Outside, Replaces

(* There is nothing to save at the start.                                  *)
LEMMA SavesInit == Init => SavesInv
  <1> SUFFICES ASSUME Init PROVE SavesInv
    OBVIOUS
  <1>1. /\ \A w \in Worker : pc[w] = "idle"
        /\ \A w \in Worker : ~Writes(w)
    BY NobodyWrites
  <1>2. stored.status # "absent"
    BY CreatedType, StatusFacts DEF Init
  <1> QED
    BY <1>1, <1>2 DEF SavesInv

(* Every step of a handler is a step of CheckoutLifecycle, or none.        *)
LEMMA KindRefines ==
    ASSUME TypeInv, OneOrderInv, SavesInv, "expiry" \notin Faults,
           NEW w \in Worker, Kind(w)
    PROVE  [Lifecycle!Next]_<<stored.status, orders>>
  <1> USE DEF Lifecycle!Next, Lifecycle!Edit, Lifecycle!Cancel, Lifecycle!Begin,
          Lifecycle!Place, Lifecycle!Refuse, Lifecycle!Settle, Lifecycle!Pay,
          Lifecycle!Open
  <1>0. /\ snap[w] \in Session /\ stored \in Session
        /\ InProgress(snap[w]).status = "in_progress"
    BY SetFields, StatusFacts DEF TypeInv, TypeOK, InProgress
  <1>1. /\ Fits(w)
        /\ Writes(w) => Replaces(snap[w].status, stored.status)
    BY DEF OneOrderInv, PlacesFit, SavesInv
  <1>2. CASE Stops(w) \/ Works(w) \/ Reads(w)
    BY <1>2 DEF Stops, Works, Reads, Still
  <1>3. CASE Begins(w)
    <2>1. snap[w].status = "ready" /\ Writes(w)
      BY <1>1, <1>3 DEF Begins, Fits, Writes, Writing, Early
    <2>2. stored.status \in Open \cup {"in_progress"}
      BY <1>1, <2>1, StatusFacts DEF Replaces
    <2> QED
      BY <1>0, <1>3, <2>2 DEF Begins, Open
  <1>4. CASE Asks(w)
    BY <1>4 DEF Asks, SavesInv, OneOrderInv, CreateIsFirst
  <1>5. CASE Indexes(w)
    BY <1>5 DEF Indexes
  <1>6. CASE Saves(w)
    <2>1. Replaces(snap[w].status, stored.status)
      BY <1>1, <1>6 DEF Saves, Writes, Writing, Early
    <2> QED
      BY <1>6, <2>1 DEF Saves, Replaces, Open
  <1> QED
    BY <1>2, <1>3, <1>4, <1>5, <1>6 DEF Kind

(* A step outside the handlers stutters in the abstract lifecycle.         *)
LEMMA OutsideRefines ==
    ASSUME Outside, "expiry" \notin Faults
    PROVE  [Lifecycle!Next]_<<stored.status, orders>>
  BY DEF Outside

(* The initial states are initial states of the abstract lifecycle.        *)
LEMMA InitRefines == Init => Lifecycle!Init
  BY CreatedType DEF Init, Lifecycle!Init, Lifecycle!Open, Open

-----------------------------------------------------------------------------
(* The step that keeps a known order, as KnownOrderStays has it.           *)
KeepsOrder ==
    stored.order # 0 =>
        \/ stored'.status = "absent"
        \/ /\ stored'.order = stored.order
           /\ stored'.status \in {stored.status, "completed"}

(* A handler that has loaded a session with an order writes the order back. *)
LEMMA KnownKind ==
    ASSUME Protocol # "acp", TypeInv, OneOrderInv, AloneInv, KnownInv,
           NEW w \in Worker, Kind(w)
    PROVE  KnownInv' /\ KeepsOrder
  <1>0. /\ snap[w] \in Session /\ stored \in Session
        /\ InProgress(snap[w]).status = "in_progress"
        /\ InProgress(snap[w]).order = snap[w].order
        /\ Absent.order = 0 /\ Absent.status = "absent"
    BY SetFields, StatusFacts, AbsentType
    DEF TypeInv, TypeOK, InProgress, To, Session, Absent, Fresh
  <1>1. /\ Fits(w)
        /\ \A v \in Worker \ {w} :
              /\ Writes(v)' <=> Writes(v)
              /\ pc'[v] = pc[v] /\ snap'[v] = snap[v] /\ begun'[v] = begun[v]
    BY OthersKeep DEF OneOrderInv, PlacesFit, Kind, Mine, OthersStay
  <1> DEFINE Safe(v) ==
        /\ pc[v] # "index" => Keeps(snap[v])
        /\ pc[v] = "create" => snap[v].order = 0
        /\ stored.order # 0 =>
              /\ snap[v].order = stored.order
              /\ snap[v].status \in {stored.status, "completed"}
        /\ begun[v] => stored.order = 0
  <1>2. Keeps(stored) /\ \A v \in Worker : Writes(v) => Safe(v)
    BY DEF KnownInv
  <1>3. \A v \in Worker \ {w} : Writes(v)' => Safe(v)'
    <2>1. CASE Writes(w)
      BY <1>1, <2>1, WriterIsAlone
    <2>2. CASE ~Writes(w)
      <3>1. stored' = stored
        BY <2>2 DEF Kind, Stops, Works, Reads, Begins, Asks, Indexes, Saves,
                    Still, Writes, Writing, Early
      <3> QED
        BY <1>1, <1>2, <3>1 DEF Keeps
    <2> QED
      BY <2>1, <2>2
  <1>4. Keeps(stored)' /\ (Writes(w)' => Safe(w)') /\ KeepsOrder
    <2>1. CASE Stops(w)
      BY <1>2, <2>1 DEF Stops, Still, Keeps, KeepsOrder
    <2>2. CASE Works(w)
      BY <1>2, <2>2, StatusFacts DEF Works, Still, Keeps, KeepsOrder
    <2>3. CASE Reads(w)
      <3>1. ~begun'[w]
        BY <1>1, <2>3 DEF Reads, Fits
      <3> QED
        BY <1>2, <2>3, <3>1 DEF Reads, Still, Keeps, KeepsOrder
    <2>4. CASE Begins(w)
      <3>1. snap[w].status = "ready" /\ Writes(w)
        BY <1>1, <2>4 DEF Begins, Fits, Writes, Writing, Early
      <3>2. stored.order = 0 /\ snap[w].order = 0
        BY <1>2, <2>4, <3>1 DEF Begins, Keeps
      <3> QED
        BY <1>0, <1>2, <2>4, <3>2 DEF Begins, Keeps, KeepsOrder
    <2>5. CASE Asks(w)
      <3>1. Writes(w) /\ begun[w]
        BY <1>1, <2>5 DEF Asks, Fits, Writes, Writing, Early
      <3> QED
        BY <1>2, <2>5, <3>1 DEF Asks, Keeps, KeepsOrder
    <2>6. CASE Indexes(w)
      <3>1. Writes(w) /\ begun[w]
        BY <1>1, <2>6 DEF Indexes, Fits, Writes, Writing, Early
      <3> QED
        BY <1>2, <2>6, <3>1 DEF Indexes, Keeps, KeepsOrder
    <2>7. CASE Saves(w)
      <3>1. Writes(w)
        BY <2>7 DEF Saves, Writes, Writing, Early
      <3> QED
        BY <1>0, <1>2, <2>7, <3>1 DEF Saves, Keeps, KeepsOrder
    <2> QED
      BY <2>1, <2>2, <2>3, <2>4, <2>5, <2>6, <2>7 DEF Kind
  <1> QED
    BY <1>3, <1>4 DEF KnownInv

(* A step outside the handlers keeps a known order.                        *)
LEMMA KnownOutside ==
    ASSUME KnownInv, Outside
    PROVE  KnownInv' /\ KeepsOrder
  <1>1. \A w \in Worker : Writes(w)' <=> Writes(w)
    BY DEF Outside, Writes, Early
  <1>2. Absent.order = 0 /\ Absent.status = "absent"
    BY AbsentType DEF Absent, To, Fresh
  <1> QED
    BY <1>1, <1>2 DEF KnownInv, Outside, Keeps, KeepsOrder

(* No order is known at the start.                                         *)
LEMMA KnownInit == Init => KnownInv
  <1> SUFFICES ASSUME Init PROVE KnownInv
    OBVIOUS
  <1>1. PICK d \in BOOLEAN, p \in Selectable \cup {"none"} :
            stored = Recompute(PaidBy(Detailed(Fresh, d), p))
    BY DEF Init, Created
  <1>2. stored.order = 0
    BY <1>1 DEF Recompute, To, Fresh, Detailed, PaidBy
  <1> QED
    BY <1>2, NobodyWrites DEF KnownInv, Keeps

-----------------------------------------------------------------------------
(* Without failures an order that is linked is known to the session, or    *)
(* about to be; so no session is completed without it.                     *)
LEMMA LinkedKind ==
    ASSUME Faults = {}, Protocol # "acp", TypeInv, OneOrderInv, AloneInv,
           SavesInv, KnownInv, LinkedIsKnown, NEW w \in Worker, Kind(w)
    PROVE  LinkedIsKnown'
  <1>0. /\ snap[w] \in Session /\ stored \in Session
        /\ InProgress(snap[w]).status = "in_progress"
        /\ InProgress(snap[w]).order = snap[w].order
    BY SetFields, StatusFacts DEF TypeInv, TypeOK, InProgress, To, Session
  <1>1. /\ Fits(w)
        /\ \A v \in Worker \ {w} :
              /\ Writes(v)' <=> Writes(v)
              /\ pc'[v] = pc[v] /\ snap'[v] = snap[v] /\ begun'[v] = begun[v]
    BY OthersKeep DEF OneOrderInv, PlacesFit, Kind, Mine, OthersStay
  <1> DEFINE Settled(s) == s.status \in {"escalation", "completed"} => s.order # 0
             Brings(v) == /\ pc[v] \in {"pay", "spend", "save"}
                          /\ begun[v] /\ snap[v].order # 0
  <1>2. /\ Settled(stored) /\ \A v \in Worker : Writes(v) => Settled(snap[v])
        /\ linked # {} => stored.order # 0 \/ \E v \in Worker : Brings(v)
    BY DEF LinkedIsKnown
  <1>3. \A v \in Worker : Brings(v) => Writes(v)
    BY DEF Writes, Writing, Early
  <1>4. \A v \in Worker \ {w} : Brings(v)' <=> Brings(v)
    BY <1>1
  <1>5. /\ Settled(stored)' /\ (Writes(w)' => Settled(snap[w])')
        /\ linked' # {} => stored'.order # 0 \/ \E v \in Worker : Brings(v)'
    <2>1. CASE Stops(w)
      BY <1>2, <1>4, <2>1 DEF Stops, Still
    <2>2. CASE Works(w)
      BY <1>2, <1>4, <2>2, StatusFacts DEF Works, Still
    <2>3. CASE Reads(w)
      <3>1. linked # {} => stored.order # 0
        BY <1>2, <1>3, <2>3, WriterIsAlone DEF Reads, Writes, Writing, Early
      <3>2. op[w] = "event" => stored.order # 0
        BY <2>3, <3>1 DEF Reads, SavesInv
      <3> QED
        BY <1>2, <2>3, <3>1, <3>2 DEF Reads, Still
    <2>4. CASE Begins(w)
      <3>1. snap[w].status = "ready" /\ Writes(w) /\ ~Brings(w)
        BY <1>1, <2>4 DEF Begins, Fits, Writes, Writing, Early
      <3>2. stored.order = 0 /\ snap[w].order = 0
        BY <2>4, <3>1 DEF Begins, KnownInv, Keeps
      <3>3. linked = {}
        BY <1>2, <1>3, <3>1, <3>2, WriterIsAlone
      <3> QED
        BY <1>0, <1>2, <2>4, <3>1, <3>3 DEF Begins
    <2>5. CASE Asks(w)
      <3>1. snap[w].status = "in_progress" /\ Writes(w) /\ ~Brings(w)
        BY <2>5 DEF Asks, SavesInv, Writes, Writing, Early
      <3> QED
        BY <1>2, <1>4, <2>5, <3>1 DEF Asks
    <2>6. CASE Indexes(w)
      <3>1. begun[w] /\ snap[w].order # 0
        BY <1>1, <2>6 DEF Indexes, Fits, TypeInv, IndexedIsPlaced
      <3>2. Brings(w)'
        BY <2>6, <3>1 DEF Indexes
      <3> QED
        BY <1>2, <2>6, <3>1, <3>2 DEF Indexes
    <2>7. CASE Saves(w)
      <3>1. Writes(w) /\ stored' = snap[w]
        BY <2>7 DEF Saves, Writes, Writing, Early
      <3>2. linked # {} => snap[w].order # 0
        BY <1>2, <1>3, <3>1, WriterIsAlone DEF KnownInv
      <3> QED
        BY <1>2, <2>7, <3>1, <3>2 DEF Saves
    <2> QED
      BY <2>1, <2>2, <2>3, <2>4, <2>5, <2>6, <2>7 DEF Kind
  <1>6. \A v \in Worker \ {w} : Writes(v)' => Settled(snap[v])'
    BY <1>1, <1>2
  <1> QED
    BY <1>5, <1>6 DEF LinkedIsKnown

(* A step outside the handlers keeps what a linked order rests on.         *)
LEMMA LinkedOutside ==
    ASSUME LinkedIsKnown, Outside, Faults = {}
    PROVE  LinkedIsKnown'
  <1>1. \A w \in Worker : Writes(w)' <=> Writes(w)
    BY DEF Outside, Writes, Early
  <1> QED
    BY <1>1 DEF LinkedIsKnown, Outside

(* No order is linked at the start.                                        *)
LEMMA LinkedInit == Init => LinkedIsKnown
  <1> SUFFICES ASSUME Init PROVE LinkedIsKnown
    OBVIOUS
  <1>1. stored.status \in Open /\ linked = {}
    BY CreatedType DEF Init
  <1> QED
    BY <1>1, NobodyWrites, StatusFacts DEF LinkedIsKnown
=============================================================================
