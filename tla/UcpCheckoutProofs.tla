------------------------- MODULE UcpCheckoutProofs -------------------------
(***************************************************************************)
(* For every number of workers, keys and orders: the UCP tools keep the    *)
(* state typed, and, where the lock does not lapse before                  *)
(* complete_in_progress is stored, place at most one order per checkout    *)
(* and leave no spent key on an open session.  Where it never lapses, the  *)
(* order of a stored session stays, and without failures the tools         *)
(* implement CheckoutLifecycle.  No claim expiring, a key names one order. *)
(***************************************************************************)
EXTENDS UcpCheckout, CheckoutFlowProofs

(* The start of a call, and every step of a handler, keep both invariants. *)
LEMMA StartKeeps ==
    ASSUME TypeInv, NEW w \in Worker,
           NEW call \in {"update", "complete", "cancel"}, StartCall(w, call)
    PROVE  TypeInv' /\ (OneOrderInv => OneOrderInv')
  <1>0. /\ key \in [Worker -> Key \cup {NoKey}]
        /\ claim \in [Scope \X Key -> {"none", "inflight", "done"}]
        /\ stored \in Session /\ call \in Call
    BY DEF TypeInv, TypeOK, Call
  <1>1. TypeInv'
    BY <1>0, HandlerType DEF StartCall, Goto, Place, store
  <1>2. OneOrderInv => OneOrderInv'
    BY <1>0, OutsideOneOrder DEF StartCall, Goto, store, django
  <1> QED
    BY <1>1, <1>2

(* Every place a handler step leads to is one of these.                    *)
LEMMA HandlerPlaces ==
    {"edit", "choose", "claim", "resume", "payWay", "save", "unlock"}
        \subseteq Place \ {"index"}
  BY DEF Place

(* Every step of the UCP handlers keeps both invariants.                   *)
LEMMA HandlerStepKeeps ==
    ASSUME TypeInv, NEW w \in Worker, HandlerStep(w)
    PROVE  TypeInv' /\ (OneOrderInv => OneOrderInv')
  <1>0. /\ key \in [Worker -> Key \cup {NoKey}]
        /\ claim \in [Scope \X Key -> {"none", "inflight", "done"}]
        /\ stored \in Session /\ snap[w] \in Session
        /\ "none" \in Call /\ op \in [Worker -> Call]
    BY DEF TypeInv, TypeOK, Call
  <1>1. CASE LoadUpdate(w)
    <2>1. PICK p \in {"edit", "unlock"} : Loaded(w, stored, p)
      BY <1>1 DEF LoadUpdate
    <2>2. pc[w] = "load"
      BY <1>1 DEF LoadUpdate, Loading
    <2> QED
      BY <1>0, <2>1, <2>2, HandlerPlaces, LoadedType, LoadedOneOrder
  <1>2. CASE Edit(w)
    <2>1. PICK s \in Session, p \in {"save", "unlock"} :
              /\ snap' \in {snap, [snap EXCEPT ![w] = s]}
              /\ s.status \in Open => snap[w].status \in Open
              /\ pc' = [pc EXCEPT ![w] = p]
      <3>1. CASE snap' = snap
        BY <1>0, <1>2, <3>1 DEF Edit, Goto
      <3>2. CASE snap' # snap
        <4>1. PICK d \in BOOLEAN, p \in PayWay \cup {snap[w].payWay} :
                  /\ Hold(w, Recompute(PaidBy(Detailed(snap[w], d), p)))
                  /\ Goto(w, "save")
          BY <1>2, <3>2 DEF Edit
        <4>2. p \in PayWay \cup {"none"}
          BY <1>0, SessionFields
        <4>3. /\ Detailed(snap[w], d) \in Session
              /\ Detailed(snap[w], d).status = snap[w].status
          BY <1>0, SetFields
        <4>4. /\ PaidBy(Detailed(snap[w], d), p) \in Session
              /\ PaidBy(Detailed(snap[w], d), p).status = snap[w].status
          BY <4>2, <4>3, SetFields
        <4> QED
          BY <4>1, <4>4, RecomputeType DEF Hold, Goto
      <3> QED
        BY <3>1, <3>2
    <2>2. /\ pc[w] = "edit" /\ ~Early(w)
          /\ UNCHANGED <<store, op, key, begun, event, django>>
      BY <1>2 DEF Edit, Early
    <2>3. TypeInv'
      BY <1>0, <2>1, <2>2, HandlerPlaces, HandlerType DEF store
    <2>4. OneOrderInv => OneOrderInv'
      BY <2>1, <2>2, WorkOneOrder DEF store, django
    <2> QED
      BY <2>3, <2>4
  <1>3. CASE LoadComplete(w)
    <2>1. PICK p \in {"unlock", "resume", "save", "choose"} : Loaded(w, stored, p)
      BY <1>3 DEF LoadComplete
    <2>2. pc[w] = "load"
      BY <1>3 DEF LoadComplete, Loading
    <2> QED
      BY <1>0, <2>1, <2>2, HandlerPlaces, LoadedType, LoadedOneOrder
  <1>4. CASE ChoosePay(w)
    <2>1. PICK s \in Session, p \in {"claim", "unlock"} :
              /\ snap' \in {snap, [snap EXCEPT ![w] = s]}
              /\ s.status \in Open => snap[w].status \in Open
              /\ pc' = [pc EXCEPT ![w] = p]
      <3>1. CASE snap' = snap
        BY <1>0, <1>4, <3>1 DEF ChoosePay, Goto
      <3>2. CASE snap' # snap
        <4>1. PICK p \in PayWay \cup {snap[w].payWay} :
                  Hold(w, Recompute(PaidBy(snap[w], p))) /\ Goto(w, "claim")
          BY <1>4, <3>2 DEF ChoosePay
        <4>2. p \in PayWay \cup {"none"}
          BY <1>0, SessionFields
        <4>3. /\ PaidBy(snap[w], p) \in Session
              /\ PaidBy(snap[w], p).status = snap[w].status
          BY <1>0, <4>2, SetFields
        <4> QED
          BY <4>1, <4>3, RecomputeType DEF Hold, Goto
      <3> QED
        BY <3>1, <3>2
    <2>2. /\ pc[w] = "choose" /\ ~Early(w)
          /\ UNCHANGED <<store, op, key, begun, event, django>>
      BY <1>4 DEF ChoosePay, Early
    <2>3. TypeInv'
      BY <1>0, <2>1, <2>2, HandlerPlaces, HandlerType DEF store
    <2>4. OneOrderInv => OneOrderInv'
      BY <2>1, <2>2, WorkOneOrder DEF store, django
    <2> QED
      BY <2>3, <2>4
  <1>5. CASE ClaimCompletion(w)
    <2>1. PICK k \in Key : TakeClaim(w, "complete", k, "payWay", "unlock")
      BY <1>5 DEF ClaimCompletion
    <2>2. "complete" \in Scope
      BY DEF Scope
    <2>3. TypeInv'
      BY <2>1, <2>2, HandlerPlaces, TakeClaimType
    <2>4. PICK p \in {"payWay", "unlock"} : pc' = [pc EXCEPT ![w] = p]
      BY <2>1 DEF TakeClaim, Goto
    <2>5. /\ pc[w] = "claim"
          /\ UNCHANGED <<stored, lock, op, snap, begun, orders>>
      BY <1>5, <2>1 DEF ClaimCompletion, TakeClaim, django
    <2>6. ~Early(w)
      BY UcpSession DEF Early
    <2>7. OneOrderInv => OneOrderInv'
      BY <1>0, <2>4, <2>5, <2>6, WorkOneOrder
    <2> QED
      BY <2>3, <2>7
  <1>6. CASE ResumePayment(w)
    <2>1. Linked(snap[w], TRUE) \in Session
          /\ Linked(snap[w], TRUE).status = snap[w].status
      BY <1>0, SetFields
    <2>2. PICK p \in {"save", "unlock"} : pc' = [pc EXCEPT ![w] = p]
      BY <1>6 DEF ResumePayment, Goto
    <2>3. /\ pc[w] = "resume" /\ ~Early(w)
          /\ snap' \in {snap, [snap EXCEPT ![w] = Linked(snap[w], TRUE)]}
          /\ UNCHANGED <<store, op, key, begun, event, django>>
      BY <1>6 DEF ResumePayment, Hold, Early
    <2>4. TypeInv'
      BY <1>0, <2>1, <2>2, <2>3, HandlerPlaces, HandlerType DEF store
    <2>5. OneOrderInv => OneOrderInv'
      BY <2>1, <2>2, <2>3, WorkOneOrder DEF store, django
    <2> QED
      BY <2>4, <2>5
  <1>7. CASE LoadCancel(w)
    <2>1. /\ To(stored, "canceled") \in Session
          /\ To(stored, "canceled").status \notin Open
      BY <1>0, SetFields, StatusFacts
    <2>2. Loaded(w, stored, "unlock") \/ Loaded(w, To(stored, "canceled"), "save")
      BY <1>7 DEF LoadCancel
    <2>3. pc[w] = "load"
      BY <1>7 DEF LoadCancel, Loading
    <2> QED
      BY <1>0, <2>1, <2>2, <2>3, HandlerPlaces, LoadedType, LoadedOneOrder
  <1> QED
    BY <1>1, <1>2, <1>3, <1>4, <1>5, <1>6, <1>7 DEF HandlerStep

-----------------------------------------------------------------------------
(* The two invariants under every step.                                    *)
LEMMA NextType == TypeInv /\ [Next]_vars => TypeInv'
  <1> SUFFICES ASSUME TypeInv, [Next]_vars PROVE TypeInv'
    OBVIOUS
  <1>1. CASE Start
    BY <1>1, StartKeeps DEF Start
  <1>2. ASSUME NEW w \in Worker, HandlerStep(w) PROVE TypeInv'
    BY <1>2, HandlerStepKeeps
  <1>3. ASSUME NEW w \in Worker, FlowStep(w) PROVE TypeInv'
    BY <1>3, FlowStepType
  <1>4. CASE Around
    BY <1>4, AroundType
  <1>5. CASE UNCHANGED vars
    BY <1>5, StutterType
  <1> QED
    BY <1>1, <1>2, <1>3, <1>4, <1>5 DEF Next

(* OneOrderInv under every step, where the lock does not lapse too early.  *)
LEMMA NextOneOrder ==
    ASSUME LockLapse # "any", TypeInv, OneOrderInv, [Next]_vars
    PROVE  OneOrderInv'
  <1>1. CASE Start
    BY <1>1, StartKeeps DEF Start
  <1>2. ASSUME NEW w \in Worker, HandlerStep(w) PROVE OneOrderInv'
    BY <1>2, HandlerStepKeeps
  <1>3. ASSUME NEW w \in Worker, FlowStep(w) PROVE OneOrderInv'
    BY <1>3, FlowStepOneOrder
  <1>4. CASE Around
    BY <1>4, AroundOneOrder
  <1>5. CASE UNCHANGED vars
    BY <1>5, StutterOneOrder
  <1> QED
    BY <1>1, <1>2, <1>3, <1>4, <1>5 DEF Next

(* Every variable of the model keeps its type, whatever the lock does.     *)
THEOREM UcpTypeOK == Spec => []TypeOK
  <1>1. Init => TypeInv
    BY InitType
  <1>2. TypeInv => TypeOK
    BY DEF TypeInv
  <1> QED
    BY <1>1, <1>2, NextType, PTL DEF Spec

(* Why a UCP checkout places one order: the inductive invariant, where the *)
(* lock does not lapse before complete_in_progress is stored.              *)
THEOREM UcpOneOrderInv ==
    ASSUME LockLapse # "any"
    PROVE  Spec => []OneOrderInv
  <1>1. Init => TypeInv /\ OneOrderInv
    BY InitType, InitOneOrder
  <1>2. TypeInv /\ OneOrderInv /\ [Next]_vars => (TypeInv /\ OneOrderInv)'
    BY NextType, NextOneOrder
  <1> QED
    BY <1>1, <1>2, PTL DEF Spec

(* A UCP checkout places one order at most, however many workers serve its *)
(* completions and whichever keys they come with.                          *)
THEOREM UcpOneOrder ==
    ASSUME LockLapse # "any"
    PROVE  Spec => []AtMostOneOrder
  <1>1. OneOrderInv => AtMostOneOrder
    BY OneOrderInvGives
  <1> QED
    BY <1>1, UcpOneOrderInv, PTL

(* Once the order exists no reader finds the session still open.           *)
THEOREM UcpOpenHasNoOrder ==
    ASSUME LockLapse # "any"
    PROVE  Spec => []OpenHasNoOrder
  <1>1. OneOrderInv => OpenHasNoOrder
    BY OneOrderInvGives
  <1> QED
    BY <1>1, UcpOneOrderInv, PTL

-----------------------------------------------------------------------------
(* The start of a call and the handlers' own steps are of the kinds the    *)
(* shared invariants know.                                                 *)
LEMMA StartKinds ==
    ASSUME TypeInv, NEW w \in Worker,
           NEW call \in {"update", "complete", "cancel"}, StartCall(w, call)
    PROVE  Kind(w)
  <1>1. pc \in [Worker -> Place] /\ op \in [Worker -> Call]
    BY DEF TypeInv, TypeOK
  <1>2. /\ OthersStay(w) /\ pc[w] = "idle" /\ pc'[w] = "lock" /\ op'[w] = call
        /\ UNCHANGED <<stored, orders, linked, claim, lock>>
    BY <1>1 DEF StartCall, Goto, OthersStay, store, django
  <1> QED
    BY <1>2, UcpSession DEF Kind, Mine, Stops, Still, Writes, Writing, KeySpent

(* A handler that loads the session keeps its order, and cancels it only   *)
(* where it knows of none.                                                 *)
LEMMA LoadedKind ==
    ASSUME TypeInv, NEW w \in Worker, pc[w] = "load", stored.status # "absent",
           NEW s \in {stored, To(stored, "canceled")},
           s = stored \/ (stored.status \notin {"canceled", "in_progress"}
                           /\ stored.order = 0),
           NEW p \in {"edit", "choose", "resume", "save", "unlock"},
           Loaded(w, s, p)
    PROVE  Kind(w)
  <1>1. /\ pc \in [Worker -> Place] /\ snap \in [Worker -> Session]
        /\ stored \in Session
    BY DEF TypeInv, TypeOK
  <1>2. /\ OthersStay(w) /\ pc'[w] = p /\ snap'[w] = s
        /\ UNCHANGED <<stored, orders, linked, claim, lock, op, begun>>
    BY <1>1 DEF Loaded, Goto, Hold, OthersStay, store, django
  <1>3. /\ To(stored, "canceled").order = stored.order
        /\ To(stored, "canceled").status = "canceled"
    BY <1>1 DEF To, Session
  <1>4. Reads(w)
    BY <1>2, <1>3, UcpSession DEF Reads, Still
  <1> QED
    BY <1>2, <1>4, UcpSession DEF Kind, Mine, Writes, Writing, Early, KeySpent

(* A handler that works on its snapshot changes an open status only.       *)
LEMMA WorkKind ==
    ASSUME TypeInv, NEW w \in Worker, pc[w] \in {"edit", "choose", "claim", "resume"},
           NEW s \in Session, s.order = snap[w].order,
           \/ s.status = snap[w].status
           \/ s.status \in Open /\ snap[w].status \in Open,
           NEW p \in {"claim", "payWay", "save", "unlock"},
           pc' = [pc EXCEPT ![w] = p], snap' \in {snap, [snap EXCEPT ![w] = s]},
           KeySpent' => KeySpent,
           UNCHANGED <<stored, lock, linked, op, begun, orders>>
    PROVE  Kind(w)
  <1>1. pc \in [Worker -> Place] /\ snap \in [Worker -> Session]
    BY DEF TypeInv, TypeOK
  <1>2. OthersStay(w) /\ pc'[w] = p /\ snap'[w] \in {snap[w], s}
    BY <1>1 DEF OthersStay
  <1>3. Works(w) \/ Stops(w)
    BY <1>2, UcpSession DEF Works, Stops, Still, Writes, Writing, Early
  <1> QED
    BY <1>2, <1>3, UcpSession DEF Kind, Mine, Writes, Writing, Early

(* Recompute, and the fields an update sets, leave the order alone.        *)
LEMMA SameOrder ==
    ASSUME NEW s \in Session, NEW d \in BOOLEAN, NEW p \in PayWay \cup {"none"}
    PROVE  LET t == Recompute(PaidBy(s, p))
               u == Recompute(PaidBy(Detailed(s, d), p))
           IN  /\ t \in Session /\ t.order = s.order
               /\ t.status = s.status \/ (t.status \in Open /\ s.status \in Open)
               /\ u \in Session /\ u.order = s.order
               /\ u.status = s.status \/ (u.status \in Open /\ s.status \in Open)
  <1>1. ASSUME NEW x \in Session
        PROVE  /\ Recompute(x) \in Session /\ Recompute(x).order = x.order
               /\ Recompute(x).status = x.status
                  \/ (Recompute(x).status \in Open /\ x.status \in Open)
    <2>1. \A st \in Status : To(x, st).order = x.order
      BY DEF Session, To
    <2> QED
      BY <2>1, RecomputeType, StatusFacts DEF Recompute
  <1>2. /\ PaidBy(s, p) \in Session /\ PaidBy(s, p).order = s.order
        /\ PaidBy(s, p).status = s.status
    BY SetFields DEF Session, PaidBy
  <1>3. /\ Detailed(s, d) \in Session /\ Detailed(s, d).order = s.order
        /\ Detailed(s, d).status = s.status
    BY SetFields DEF Session, Detailed
  <1>4. /\ PaidBy(Detailed(s, d), p) \in Session
        /\ PaidBy(Detailed(s, d), p).order = s.order
        /\ PaidBy(Detailed(s, d), p).status = s.status
    <2>1. PaidBy(Detailed(s, d), p).order = Detailed(s, d).order
      BY <1>3 DEF Session, PaidBy
    <2> QED
      BY <1>3, <2>1, SetFields
  <1> QED
    BY <1>1, <1>2, <1>4

(* Every step of a UCP handler is of one of the kinds of                   *)
(* CheckoutFlowProofs.                                                     *)
LEMMA HandlerStepKinds ==
    ASSUME TypeInv, NEW w \in Worker, HandlerStep(w)
    PROVE  Kind(w)
  <1>0. /\ stored \in Session /\ snap[w] \in Session
        /\ snap \in [Worker -> Session]
        /\ claim \in [Scope \X Key -> {"none", "inflight", "done"}]
    BY DEF TypeInv, TypeOK
  <1>1. CASE LoadUpdate(w)
    BY <1>1, LoadedKind DEF LoadUpdate, Loading
  <1>2. CASE Edit(w)
    <2>1. PICK s \in Session, p \in {"save", "unlock"} :
              /\ s.order = snap[w].order
              /\ s.status = snap[w].status \/ (s.status \in Open /\ snap[w].status \in Open)
              /\ snap' \in {snap, [snap EXCEPT ![w] = s]}
              /\ pc' = [pc EXCEPT ![w] = p]
      <3>1. CASE snap' = snap
        BY <1>0, <1>2, <3>1 DEF Edit, Goto
      <3>2. CASE snap' # snap
        <4>1. PICK d \in BOOLEAN, p \in PayWay \cup {snap[w].payWay} :
                  /\ Hold(w, Recompute(PaidBy(Detailed(snap[w], d), p)))
                  /\ Goto(w, "save")
          BY <1>2, <3>2 DEF Edit
        <4>2. p \in PayWay \cup {"none"}
          BY <1>0, SessionFields
        <4> QED
          BY <1>0, <4>1, <4>2, SameOrder DEF Hold, Goto
      <3> QED
        BY <3>1, <3>2
    <2>2. pc[w] = "edit" /\ UNCHANGED <<store, op, begun, orders>>
      BY <1>2 DEF Edit, django
    <2>3. KeySpent' => KeySpent
      BY <2>2 DEF KeySpent, store
    <2> QED
      BY <2>1, <2>2, <2>3, WorkKind DEF store
  <1>3. CASE LoadComplete(w)
    <2>1. PICK p \in {"unlock", "resume", "save", "choose"} : Loaded(w, stored, p)
      BY <1>3 DEF LoadComplete
    <2> QED
      BY <1>3, <2>1, LoadedKind DEF LoadComplete, Loading
  <1>4. CASE ChoosePay(w)
    <2>1. PICK s \in Session, p \in {"claim", "unlock"} :
              /\ s.order = snap[w].order
              /\ s.status = snap[w].status \/ (s.status \in Open /\ snap[w].status \in Open)
              /\ snap' \in {snap, [snap EXCEPT ![w] = s]}
              /\ pc' = [pc EXCEPT ![w] = p]
      <3>1. CASE snap' = snap
        BY <1>0, <1>4, <3>1 DEF ChoosePay, Goto
      <3>2. CASE snap' # snap
        <4>1. PICK p \in PayWay \cup {snap[w].payWay} :
                  Hold(w, Recompute(PaidBy(snap[w], p))) /\ Goto(w, "claim")
          BY <1>4, <3>2 DEF ChoosePay
        <4>2. p \in PayWay \cup {"none"}
          BY <1>0, SessionFields
        <4> QED
          BY <1>0, <4>1, <4>2, SameOrder DEF Hold, Goto
      <3> QED
        BY <3>1, <3>2
    <2>2. pc[w] = "choose" /\ UNCHANGED <<store, op, begun, orders>>
      BY <1>4 DEF ChoosePay, django
    <2>3. KeySpent' => KeySpent
      BY <2>2 DEF KeySpent, store
    <2> QED
      BY <2>1, <2>2, <2>3, WorkKind DEF store
  <1>5. CASE ClaimCompletion(w)
    <2>1. PICK k \in Key : TakeClaim(w, "complete", k, "payWay", "unlock")
      BY <1>5 DEF ClaimCompletion
    <2>2. KeySpent' => KeySpent
      <3>1. claim' \in {claim, [claim EXCEPT ![<<"complete", k>>] = "inflight"]}
        BY <2>1 DEF TakeClaim
      <3> QED
        BY <1>0, <3>1, SpendsNone, CompleteScope
    <2>3. PICK p \in {"payWay", "unlock"} : pc' = [pc EXCEPT ![w] = p]
      BY <2>1 DEF TakeClaim, Goto
    <2>4. /\ pc[w] = "claim" /\ snap' = snap
          /\ UNCHANGED <<stored, lock, linked, op, begun, orders>>
      BY <1>5, <2>1 DEF ClaimCompletion, TakeClaim, django
    <2> QED
      BY <1>0, <2>2, <2>3, <2>4, WorkKind
  <1>6. CASE ResumePayment(w)
    <2>1. /\ Linked(snap[w], TRUE) \in Session
          /\ Linked(snap[w], TRUE).status = snap[w].status
          /\ Linked(snap[w], TRUE).order = snap[w].order
      BY <1>0, SetFields DEF Linked, Session
    <2>2. PICK p \in {"save", "unlock"} : pc' = [pc EXCEPT ![w] = p]
      BY <1>6 DEF ResumePayment, Goto
    <2>3. /\ pc[w] = "resume" /\ UNCHANGED <<store, op, begun, orders>>
          /\ snap' \in {snap, [snap EXCEPT ![w] = Linked(snap[w], TRUE)]}
      BY <1>6 DEF ResumePayment, Hold, django
    <2>4. KeySpent' => KeySpent
      BY <2>3 DEF KeySpent, store
    <2> QED
      BY <2>1, <2>2, <2>3, <2>4, WorkKind DEF store
  <1>7. CASE LoadCancel(w)
    BY <1>7, LoadedKind DEF LoadCancel, Loading
  <1> QED
    BY <1>1, <1>2, <1>3, <1>4, <1>5, <1>6, <1>7 DEF HandlerStep

(* So every step is of a kind.                                             *)
LEMMA NextKinds ==
    ASSUME TypeInv, [Next]_vars
    PROVE  Outside \/ \E w \in Worker : Kind(w)
  <1>1. CASE Start
    BY <1>1, StartKinds DEF Start
  <1>2. ASSUME NEW w \in Worker, HandlerStep(w) PROVE Kind(w)
    BY <1>2, HandlerStepKinds
  <1>3. ASSUME NEW w \in Worker, FlowStep(w) PROVE Kind(w)
    BY <1>3, FlowStepKinds
  <1>4. CASE Around
    BY <1>4, AroundKinds
  <1>5. CASE UNCHANGED vars
    BY <1>5, StutterKind
  <1> QED
    BY <1>1, <1>2, <1>3, <1>4, <1>5 DEF Next

(* A handler cancels a session it knows no order of, and without failures  *)
(* such a session is open.                                                 *)
LEMMA CancelsOpen ==
    ASSUME TypeInv, SavesInv, LinkedIsKnown, NEW w \in Worker, Kind(w),
           pc[w] = "load", Writes(w)', snap'[w].status = "canceled"
    PROVE  stored.status \in Open \cup {"canceled"}
  <1>1. ~Writes(w) /\ Reads(w)
    BY DEF Kind, Stops, Works, Reads, Begins, Asks, Indexes, Saves, Writes,
           Writing, Early
  <1>2. stored.status \in Status /\ stored.status # "absent"
    BY DEF TypeInv, TypeOK, SavesInv, Session
  <1> QED
    BY <1>1, <1>2, UcpSession DEF Reads, LinkedIsKnown, Status, Open, Terminal

-----------------------------------------------------------------------------
(* A key is spent only for an order that exists or may: from then on no    *)
(* reader finds the session open.                                          *)
THEOREM UcpSpentKeyClosesSession ==
    ASSUME LockLapse # "any"
    PROVE  Spec => []SpentKeyClosesSession
  <1>1. Init => TypeInv /\ OneOrderInv /\ SpentInv
    BY InitType, InitOneOrder, SpentInit
  <1>2. TypeInv /\ OneOrderInv /\ SpentInv /\ [Next]_vars
           => (TypeInv /\ OneOrderInv /\ SpentInv)'
    BY NextType, NextOneOrder, NextKinds, SpentKind, SpentOutside
  <1>3. SpentInv => SpentKeyClosesSession
    BY DEF SpentInv, KeySpent, Without, SpentKeyClosesSession
  <1> QED
    BY <1>1, <1>2, <1>3, PTL DEF Spec

(* A session that knows its order keeps it whatever fails, as long as the  *)
(* lock does not lapse under its holder: only completed or its end come    *)
(* after.                                                                  *)
THEOREM UcpKnownOrderStays ==
    ASSUME LockLapse = "never"
    PROVE  Spec => KnownOrderStays
  <1> DEFINE Inv == TypeInv /\ OneOrderInv /\ AloneInv /\ KnownInv
  <1>1. Init => Inv
    BY InitType, InitOneOrder, AloneInit, KnownInit
  <1>2. Inv /\ [Next]_vars => Inv' /\ KeepsOrder
    <2> SUFFICES ASSUME Inv, [Next]_vars PROVE Inv' /\ KeepsOrder
      OBVIOUS
    <2>1. TypeInv' /\ OneOrderInv'
      BY NextType, NextOneOrder
    <2>2. CASE Outside
      BY <2>1, <2>2, AloneOutside, KnownOutside
    <2>3. ASSUME NEW w \in Worker, Kind(w) PROVE Inv' /\ KeepsOrder
      BY <2>1, <2>3, UcpSession, AloneKind, KnownKind
    <2> QED
      BY <2>2, <2>3, NextKinds
  <1>3. Inv /\ [Next]_vars => [stored.order # 0 =>
              \/ stored'.status = "absent"
              \/ /\ stored'.order = stored.order
                 /\ stored'.status \in {stored.status, "completed"}]_vars
    BY <1>2 DEF KeepsOrder
  <1> QED
    BY <1>1, <1>2, <1>3, PTL DEF Spec, KnownOrderStays

(* Without failures the UCP tools implement the checkout CheckoutLifecycle *)
(* promises, for every number of workers and keys.                         *)
THEOREM UcpImplementsLifecycle ==
    ASSUME LockLapse = "never", Faults = {}
    PROVE  Spec => ImplementsLifecycle
  <1> DEFINE Inv == /\ TypeInv /\ OneOrderInv /\ AloneInv /\ KnownInv
                    /\ SavesInv /\ LinkedIsKnown
  <1>1. Init => Inv
    BY InitType, InitOneOrder, AloneInit, KnownInit, SavesInit, LinkedInit
  <1>2. Inv /\ [Next]_vars
           => Inv' /\ [Lifecycle!Next]_<<stored.status, orders>>
    <2> SUFFICES ASSUME Inv, [Next]_vars
                 PROVE  Inv' /\ [Lifecycle!Next]_<<stored.status, orders>>
      OBVIOUS
    <2>0. "expiry" \notin Faults
      OBVIOUS
    <2>1. TypeInv' /\ OneOrderInv'
      BY NextType, NextOneOrder
    <2>2. CASE Outside
      BY <2>0, <2>1, <2>2, AloneOutside, KnownOutside, SavesOutside,
         LinkedOutside, OutsideRefines
    <2>3. ASSUME NEW w \in Worker, Kind(w)
          PROVE  Inv' /\ [Lifecycle!Next]_<<stored.status, orders>>
      <3>1. SavesInv'
        BY <2>0, <2>3, CancelsOpen, SavesKind
      <3> QED
        BY <2>0, <2>1, <2>3, <3>1, UcpSession, AloneKind, KnownKind, LinkedKind,
           KindRefines
    <2> QED
      BY <2>2, <2>3, NextKinds
  <1>3. Init => Lifecycle!Init
    BY InitRefines
  <1> QED
    BY <1>1, <1>2, <1>3, PTL DEF Spec, ImplementsLifecycle, Lifecycle!Spec

-----------------------------------------------------------------------------
(* One order per key.  KeyInv needs neither the lock nor OneOrderInv: the  *)
(* claim alone keeps two completions with one key apart.                   *)
Others(w) ==
    \A v \in Worker \ {w} : pc'[v] = pc[v] /\ op'[v] = op[v] /\ key'[v] = key[v]

(* A step that neither claims, places, spends nor frees.                   *)
LEMMA KeyQuiet ==
    ASSUME KeyInv, NEW w \in Worker, Others(w), UNCHANGED <<claim, keyed>>,
           \/ key'[w] = NoKey
           \/ /\ key'[w] = key[w] /\ op'[w] = op[w]
              /\ pc'[w] \in Attempt \cup Settling \cup {"save", "unlock"},
           pc'[w] \in Attempt \cup Settling => key'[w] = key[w],
           pc'[w] \in Attempt => pc[w] \in Attempt,
           pc'[w] \in Attempt \cup Settling => pc[w] \in Attempt \cup Settling
    PROVE  KeyInv'
  BY DEF KeyInv, Others, OneOrderPerKey

(* Claiming a key nobody has claimed.                                      *)
LEMMA KeyClaim ==
    ASSUME TypeInv, KeyInv, NEW w \in Worker, pc[w] = "claim", op[w] = "complete",
           NEW k \in Key, TakeClaim(w, "complete", k, "payWay", "unlock")
    PROVE  KeyInv'
  <1>0. /\ pc \in [Worker -> Place] /\ key \in [Worker -> Key \cup {NoKey}]
        /\ claim \in [Scope \X Key -> {"none", "inflight", "done"}]
        /\ "complete" \in Scope
    BY CompleteScope DEF TypeInv, TypeOK
  <1>1. Others(w) /\ UNCHANGED <<op, keyed>> /\ key[w] = NoKey
    BY <1>0 DEF TakeClaim, Goto, Others, django, KeyInv, Attempt, Settling
  <1>2. CASE /\ claim[<<"complete", k>>] = "none"
             /\ claim' = [claim EXCEPT ![<<"complete", k>>] = "inflight"]
             /\ key' = [key EXCEPT ![w] = k] /\ Goto(w, "payWay")
    <2>1. /\ pc'[w] = "payWay" /\ key'[w] = k /\ op'[w] = "complete"
      BY <1>0, <1>1, <1>2 DEF Goto
    <2>2. \A j \in Key : claim'[<<"complete", j>>] =
              IF j = k THEN "inflight" ELSE claim[<<"complete", j>>]
      BY <1>0, <1>2
    <2>3. /\ keyed[k] = 0
          /\ \A v \in Worker \ {w} : pc[v] \in Attempt \cup Settling => key[v] # k
      BY <1>2 DEF KeyInv
    <2> QED
      BY <1>1, <2>1, <2>2, <2>3 DEF KeyInv, Others, OneOrderPerKey, Attempt, Settling
  <1>3. CASE /\ claim' \in {claim, [claim EXCEPT ![<<"complete", k>>] = "inflight"]}
             /\ key' = key /\ Goto(w, "unlock")
    <2>1. pc'[w] = "unlock" /\ key'[w] = NoKey
      BY <1>0, <1>1, <1>3 DEF Goto
    <2>2. \A j \in Key : claim[<<"complete", j>>] # "none"
                            => claim'[<<"complete", j>>] # "none"
      BY <1>0, <1>3
    <2> QED
      BY <1>1, <2>1, <2>2 DEF KeyInv, Others, OneOrderPerKey, Attempt, Settling
  <1> QED
    BY <1>2, <1>3 DEF TakeClaim

(* Placing the order of the worker's key, which has none yet.              *)
LEMMA KeyCreate ==
    ASSUME TypeInv, KeyInv, NEW w \in Worker, CreateOrder(w)
    PROVE  KeyInv'
  <1>0. /\ pc \in [Worker -> Place] /\ key \in [Worker -> Key \cup {NoKey}]
        /\ keyed \in [Key -> 0..orders] /\ orders \in Nat
    BY CheckoutConstants DEF TypeInv, TypeOK
  <1>1. /\ Others(w) /\ UNCHANGED <<op, key, claim>>
        /\ pc[w] = "create" /\ pc'[w] \in {"index", "spend", "free"}
    BY <1>0 DEF CreateOrder, Goto, Others, store
  <1>2. /\ key[w] \in Key /\ keyed[key[w]] = 0
        /\ claim[<<"complete", key[w]>>] # "none"
        /\ op[w] = "complete" /\ key[w] # NoKey
        /\ \A v \in Worker \ {w} :
              pc[v] \in Attempt \cup Settling => key[v] # key[w]
    BY <1>1, CheckoutConstants DEF KeyInv, Attempt
  <1>3. CASE keyed' = keyed
    BY <1>1, <1>2, <1>3, KeyQuiet DEF Attempt, Settling
  <1>4. CASE PlaceOrder(w) /\ pc'[w] \in {"index", "spend"}
    <2>1. \A k \in Key : keyed'[k] = IF k = key[w] THEN 1 ELSE keyed[k]
      BY <1>0, <1>2, <1>4 DEF PlaceOrder
    <2> QED
      BY <1>1, <1>2, <1>4, <2>1 DEF KeyInv, Others, OneOrderPerKey, Attempt, Settling
  <1> QED
    BY <1>0, <1>3, <1>4 DEF CreateOrder, Goto, django

(* Settling the key at the end: spent, or freed because nothing was placed. *)
LEMMA KeySettle ==
    ASSUME TypeInv, KeyInv, NEW w \in Worker, SpendKey(w) \/ FreeKey(w)
    PROVE  KeyInv'
  <1>0. /\ pc \in [Worker -> Place] /\ key \in [Worker -> Key \cup {NoKey}]
        /\ claim \in [Scope \X Key -> {"none", "inflight", "done"}]
        /\ "complete" \in Scope
    BY CompleteScope DEF TypeInv, TypeOK
  <1>1. /\ key[w] \in Key /\ key[w] # NoKey /\ op[w] = "complete"
        /\ pc[w] = "free" => keyed[key[w]] = 0
        /\ \A v \in Worker \ {w} :
              pc[v] \in Attempt \cup Settling => key[v] # key[w]
    BY CheckoutConstants DEF SpendKey, FreeKey, KeyInv, Attempt, Settling
  <1>2. Others(w) /\ UNCHANGED <<op, keyed>>
    BY <1>0 DEF SpendKey, FreeKey, Goto, Others, django
  <1>3. CASE SpendKey(w)
    <2>1. /\ pc[w] = "spend" /\ pc'[w] \in {"unlock", "save"} /\ key' = key
      BY <1>0, <1>3 DEF SpendKey, Goto
    <2>2. \A j \in Key : claim[<<"complete", j>>] # "none"
                            => claim'[<<"complete", j>>] # "none"
      BY <1>0, <1>1, <1>3 DEF SpendKey, Spent
    <2> QED
      BY <1>1, <1>2, <2>1, <2>2 DEF KeyInv, Others, OneOrderPerKey, Attempt, Settling
  <1>4. CASE FreeKey(w)
    <2>1. pc[w] = "free" /\ pc'[w] = "save" /\ key'[w] = NoKey
      BY <1>0, <1>4 DEF FreeKey, Goto
    <2>2. \A j \in Key \ {key[w]} : claim'[<<"complete", j>>] = claim[<<"complete", j>>]
      BY <1>0, <1>1, <1>4 DEF FreeKey, Freed
    <2> QED
      BY <1>1, <1>2, <2>1, <2>2 DEF KeyInv, Others, OneOrderPerKey, Attempt, Settling
  <1> QED
    BY <1>3, <1>4

(* The other shared steps.                                                 *)
LEMMA KeyFlow ==
    ASSUME TypeInv, KeyInv, NEW w \in Worker, FlowStep(w)
    PROVE  KeyInv'
  <1> USE DEF Goto, store, django
  <1>0. /\ pc \in [Worker -> Place] /\ key \in [Worker -> Key \cup {NoKey}]
        /\ op \in [Worker -> Call]
    BY DEF TypeInv, TypeOK
  <1>1. /\ pc[w] \in {"lock", "load"} => key[w] = NoKey
        /\ key[w] # NoKey => op[w] = "complete"
    BY DEF KeyInv, Attempt, Settling
  <1>2. CASE TakeLock(w) \/ LoadNothing(w) \/ LoadEvent(w)
    <2>1. /\ Others(w) /\ UNCHANGED <<claim, keyed>>
          /\ pc'[w] \in {"load", "unlock", "save"} /\ key'[w] = NoKey
      BY <1>0, <1>1, <1>2 DEF TakeLock, LoadNothing, LoadEvent, Others
    <2> QED
      BY <2>1, KeyQuiet DEF Attempt, Settling
  <1>3. CASE Unlock(w)
    <2>1. /\ Others(w) /\ UNCHANGED <<claim, keyed>>
          /\ pc'[w] = "idle" /\ key'[w] = NoKey
      BY <1>0, <1>3 DEF Unlock, Forget, Others
    <2> QED
      BY <2>1, KeyQuiet DEF Attempt, Settling
  <1>4. CASE CheckPayWay(w) \/ ReserveStock(w) \/ Persist(w)
    <2>1. /\ Others(w) /\ UNCHANGED <<claim, keyed, op, key>>
          /\ pc[w] \in {"payWay", "reserve", "persist"}
          /\ pc'[w] \in {"reserve", "persist", "create", "free"}
      BY <1>0, <1>4 DEF CheckPayWay, ReserveStock, Persist, Others
    <2> QED
      BY <2>1, KeyQuiet DEF Attempt, Settling
  <1>5. CASE IndexOrder(w) \/ StartPayment(w)
    <2>1. /\ Others(w) /\ UNCHANGED <<claim, keyed, op, key>>
          /\ pc[w] \in {"index", "pay"} /\ pc'[w] \in {"pay", "spend"}
      BY <1>0, <1>5 DEF IndexOrder, StartPayment, Others
    <2> QED
      BY <2>1, KeyQuiet DEF Attempt, Settling
  <1>6. CASE Save(w)
    <2>1. /\ Others(w) /\ UNCHANGED <<claim, keyed, op, key>>
          /\ pc'[w] \in {"record", "giveUp", "unlock"}
          /\ key[w] # NoKey => pc'[w] = "unlock"
      BY <1>0, <1>1, <1>6 DEF Save, Others
    <2> QED
      BY <2>1, KeyQuiet DEF Attempt, Settling
  <1> QED
    BY <1>2, <1>3, <1>4, <1>5, <1>6, KeyCreate, KeySettle DEF FlowStep

(* The handlers' own steps; complete_checkout is the only call that claims. *)
LEMMA KeyHandler ==
    ASSUME TypeInv, KeyInv, NEW w \in Worker, HandlerStep(w),
           pc[w] \in {"choose", "claim"} => op[w] = "complete"
    PROVE  KeyInv'
  <1>0. /\ pc \in [Worker -> Place] /\ key \in [Worker -> Key \cup {NoKey}]
        /\ op \in [Worker -> Call]
    BY DEF TypeInv, TypeOK
  <1>1. CASE ClaimCompletion(w)
    BY <1>1, KeyClaim DEF ClaimCompletion
  <1>2. CASE LoadUpdate(w) \/ LoadComplete(w) \/ LoadCancel(w)
    <2>1. PICK s \in {stored, To(stored, "canceled")},
               p \in {"edit", "choose", "resume", "save", "unlock"} : Loaded(w, s, p)
      BY <1>2 DEF LoadUpdate, LoadComplete, LoadCancel
    <2>2. /\ Others(w) /\ UNCHANGED <<claim, keyed>> /\ pc'[w] = p
          /\ key'[w] = key[w] /\ pc[w] = "load"
      BY <1>0, <1>2, <2>1
      DEF LoadUpdate, LoadComplete, LoadCancel, Loading, Loaded, Goto, Others,
          store, django
    <2>3. key[w] = NoKey
      BY <2>2 DEF KeyInv, Attempt, Settling
    <2> QED
      BY <2>2, <2>3, KeyQuiet DEF Attempt, Settling
  <1>3. CASE Edit(w) \/ ChoosePay(w) \/ ResumePayment(w)
    <2>1. /\ Others(w) /\ UNCHANGED <<claim, keyed>>
          /\ pc'[w] \in {"save", "claim", "unlock"}
          /\ key'[w] = key[w] /\ pc[w] \in {"edit", "choose", "resume"}
      BY <1>0, <1>3 DEF Edit, ChoosePay, ResumePayment, Goto, Others, store, django
    <2>2. key[w] = NoKey
      BY <2>1 DEF KeyInv, Attempt, Settling
    <2> QED
      BY <2>1, <2>2, KeyQuiet DEF Attempt, Settling
  <1> QED
    BY <1>1, <1>2, <1>3 DEF HandlerStep

(* Lapses, crashes, events and payments touch no claim that has not        *)
(* expired.                                                                *)
LEMMA KeyAround ==
    ASSUME TypeInv, KeyInv, Around, "expiry" \notin Faults
    PROVE  KeyInv'
  <1> USE DEF store, django, locals, Goto
  <1>0. /\ pc \in [Worker -> Place] /\ key \in [Worker -> Key \cup {NoKey}]
        /\ op \in [Worker -> Call]
    BY DEF TypeInv, TypeOK
  <1>1. ASSUME UNCHANGED <<pc, op, key, claim, keyed>> PROVE KeyInv'
    BY <1>1 DEF KeyInv, OneOrderPerKey
  <1>2. ASSUME NEW w \in Worker, Crash(w) PROVE KeyInv'
    <2>1. /\ Others(w) /\ UNCHANGED <<claim, keyed>>
          /\ pc'[w] = "idle" /\ key'[w] = NoKey
      BY <1>0, <1>2 DEF Crash, Forget, Others
    <2> QED
      BY <2>1, KeyQuiet DEF Attempt, Settling
  <1>3. ASSUME NEW w \in Worker, NEW o \in 1..MaxOrders, StartEvent(w, o)
        PROVE  KeyInv'
    <2>1. /\ Others(w) /\ UNCHANGED <<claim, keyed>>
          /\ pc[w] = "idle" /\ pc'[w] = "lock" /\ key'[w] = key[w]
      BY <1>0, <1>3 DEF StartEvent, Others
    <2>2. key[w] = NoKey
      BY <2>1 DEF KeyInv, Attempt, Settling
    <2> QED
      BY <2>1, <2>2, KeyQuiet DEF Attempt, Settling
  <1> QED
    BY <1>1, <1>2, <1>3
    DEF Around, LapseLock, DropEvent, ExpireLock, ExpireSession, PayOrder, ExpireClaim

(* Only a completion gets to choose and to claim.                          *)
ClaimsComplete ==
    \A w \in Worker : pc[w] \in {"choose", "claim"} => op[w] = "complete"

(* No step takes another call to where a completion chooses and claims.    *)
LEMMA ClaimsCompleteStep ==
    ASSUME TypeInv, ClaimsComplete, [Next]_vars
    PROVE  ClaimsComplete'
  <1> USE DEF store, django, locals, Goto, ClaimsComplete
  <1>0. /\ pc \in [Worker -> Place] /\ op \in [Worker -> Call]
    BY DEF TypeInv, TypeOK
  <1>1. CASE Start
    BY <1>0, <1>1 DEF Start, StartCall
  <1>2. ASSUME NEW w \in Worker, HandlerStep(w) PROVE ClaimsComplete'
    <2>1. CASE LoadUpdate(w) \/ LoadCancel(w)
      BY <1>0, <2>1 DEF LoadUpdate, LoadCancel, Loaded
    <2>2. CASE LoadComplete(w)
      BY <1>0, <2>2 DEF LoadComplete, Loading, Loaded
    <2>3. CASE Edit(w) \/ ChoosePay(w) \/ ResumePayment(w)
      BY <1>0, <2>3 DEF Edit, ChoosePay, ResumePayment
    <2>4. CASE ClaimCompletion(w)
      BY <1>0, <2>4 DEF ClaimCompletion, TakeClaim
    <2> QED
      BY <1>2, <2>1, <2>2, <2>3, <2>4 DEF HandlerStep
  <1>3. ASSUME NEW w \in Worker, FlowStep(w) PROVE ClaimsComplete'
    <2>1. /\ \A v \in Worker \ {w} : pc'[v] = pc[v] /\ op'[v] = op[v]
          /\ pc'[w] \notin {"choose", "claim"}
      BY <1>0, <1>3
      DEF FlowStep, TakeLock, LoadNothing, Unlock, Forget, CheckPayWay,
          ReserveStock, Persist, CreateOrder, IndexOrder, StartPayment, SpendKey,
          FreeKey, Save, LoadEvent
    <2> QED
      BY <2>1
  <1>4. CASE Around
    BY <1>0, <1>4
    DEF Around, LapseLock, Crash, Forget, StartEvent, DropEvent, ExpireLock,
        ExpireSession, PayOrder, ExpireClaim
  <1>5. CASE UNCHANGED vars
    BY <1>5 DEF vars
  <1> QED
    BY <1>1, <1>2, <1>3, <1>4, <1>5 DEF Next

(* Two orders are never placed under one idempotency key, even where the   *)
(* lock lapses under its holder and Redis calls fail, as long as a claim   *)
(* outlives the completion it was made for.                                *)
THEOREM UcpOneOrderPerKey ==
    ASSUME "expiry" \notin Faults
    PROVE  Spec => []OneOrderPerKey
  <1> DEFINE Inv == TypeInv /\ ClaimsComplete /\ KeyInv
  <1>1. Init => Inv
    <2> SUFFICES ASSUME Init PROVE Inv
      OBVIOUS
    <2>1. TypeInv
      BY InitType
    <2>2. /\ \A w \in Worker : pc[w] = "idle" /\ key[w] = NoKey
          /\ \A k \in Key : keyed[k] = 0
      BY DEF Init
    <2> QED
      BY <2>1, <2>2 DEF ClaimsComplete, KeyInv, OneOrderPerKey, Attempt, Settling
  <1>2. Inv /\ [Next]_vars => Inv'
    <2> SUFFICES ASSUME Inv, [Next]_vars PROVE Inv'
      OBVIOUS
    <2>1. TypeInv' /\ ClaimsComplete'
      BY NextType, ClaimsCompleteStep
    <2>2. ASSUME NEW w \in Worker, NEW call \in {"update", "complete", "cancel"},
                 StartCall(w, call)
          PROVE  KeyInv'
      <3>1. /\ pc \in [Worker -> Place] /\ op \in [Worker -> Call]
        BY DEF TypeInv, TypeOK
      <3>2. /\ Others(w) /\ UNCHANGED <<claim, keyed>>
            /\ pc[w] = "idle" /\ pc'[w] = "lock" /\ key'[w] = key[w]
        BY <2>2, <3>1 DEF StartCall, Goto, Others, store, django
      <3>3. key[w] = NoKey
        BY <3>2 DEF KeyInv, Attempt, Settling
      <3> QED
        BY <3>2, <3>3, KeyQuiet DEF Attempt, Settling
    <2>3. ASSUME NEW w \in Worker, HandlerStep(w) PROVE KeyInv'
      BY <2>3, KeyHandler DEF ClaimsComplete
    <2>4. ASSUME NEW w \in Worker, FlowStep(w) PROVE KeyInv'
      BY <2>4, KeyFlow
    <2>5. ASSUME Around PROVE KeyInv'
      BY <2>5, KeyAround
    <2>6. ASSUME UNCHANGED vars PROVE KeyInv'
      BY <2>6 DEF vars, KeyInv, OneOrderPerKey
    <2>7. KeyInv'
      BY <2>2, <2>3, <2>4, <2>5, <2>6 DEF Next, Start
    <2> QED
      BY <2>1, <2>7
  <1>3. Inv => OneOrderPerKey
    BY DEF KeyInv
  <1> QED
    BY <1>1, <1>2, <1>3, PTL DEF Spec
=============================================================================
