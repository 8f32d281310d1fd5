------------------------- MODULE AcpCheckoutProofs -------------------------
(***************************************************************************)
(* For every number of workers, keys and orders: the ACP endpoints keep    *)
(* the state typed, and, where the lock does not lapse before              *)
(* complete_in_progress is stored, place at most one order per checkout,   *)
(* cancel no checkout that has one and leave no spent key on an open       *)
(* session.  Where neither lock nor session lapses they implement          *)
(* CheckoutLifecycle, through crashes and failures of Redis.               *)
(***************************************************************************)
EXTENDS AcpCheckout, CheckoutFlowProofs

(* What the types of the state give a handler step.                        *)
LEMMA Typed ==
    ASSUME TypeInv, NEW w \in Worker
    PROVE  /\ pc \in [Worker -> Place] /\ op \in [Worker -> Call]
           /\ key \in [Worker -> Key \cup {NoKey}]
           /\ claim \in [Scope \X Key -> {"none", "inflight", "done"}]
           /\ stored \in Session /\ snap[w] \in Session
  BY DEF TypeInv, TypeOK

(* The calls, scopes and places of ACP are among those of the flow.        *)
LEMMA CallFacts ==
    /\ {"none", "replay", "complete", "update", "cancel"} \subseteq Call
    /\ Scope = {"complete", "update", "cancel"}
    /\ {"lock", "edit", "choose", "claim", "payWay", "save", "giveUp", "unlock"}
           \subseteq Place \ {"index"}
  BY AcpSession DEF Call, Scope, Place

(* A call that starts keeps both invariants.                               *)
LEMMA StartKeeps ==
    ASSUME TypeInv, NEW w \in Worker,
           \/ StartComplete(w)
           \/ \E call \in {"update", "cancel"} : StartKeyed(w, call)
    PROVE  TypeInv' /\ (OneOrderInv => OneOrderInv')
  <1>1. CASE StartComplete(w)
    <2>1. TypeInv'
      BY <1>1, Typed, CallFacts, HandlerType DEF StartComplete, Goto, store
    <2>2. OneOrderInv => OneOrderInv'
      BY <1>1, CallFacts, OutsideOneOrder DEF StartComplete, Goto, store, django
    <2> QED
      BY <2>1, <2>2
  <1>2. ASSUME NEW call \in {"update", "cancel"}, StartKeyed(w, call)
        PROVE  TypeInv' /\ (OneOrderInv => OneOrderInv')
    <2>1. TypeInv'
      BY <1>2, Typed, CallFacts, HandlerType DEF StartKeyed, Goto, store
    <2>2. Early(w)'
      BY <1>2, Typed, AcpSession DEF StartKeyed, Goto, Early
    <2>3. OneOrderInv => OneOrderInv'
      BY <1>2, <2>2, CallFacts, OutsideOneOrder DEF StartKeyed, Goto, store, django
    <2> QED
      BY <2>1, <2>3
  <1> QED
    BY <1>1, <1>2

(* update and cancel claim their key before they lock the session.         *)
LEMMA ClaimKeyedKeeps ==
    ASSUME TypeInv, NEW w \in Worker, ClaimKeyed(w)
    PROVE  TypeInv' /\ (OneOrderInv => OneOrderInv')
  <1>1. Early(w) /\ op[w] \in Scope
    BY AcpSession, CallFacts DEF ClaimKeyed, Early
  <1>2. PICK k \in Key :
          \/ TakeClaim(w, op[w], k, "lock", "unlock")
          \/ /\ op' = [op EXCEPT ![w] = "replay"]
             /\ Goto(w, "lock")
             /\ UNCHANGED <<store, key, snap, begun, event, django>>
    BY DEF ClaimKeyed
  <1>3. CASE TakeClaim(w, op[w], k, "lock", "unlock")
    <2>1. TypeInv'
      BY <1>1, <1>3, CallFacts, TakeClaimType
    <2>2. PICK p \in {"lock", "unlock"} : pc' = [pc EXCEPT ![w] = p]
      BY <1>3 DEF TakeClaim, Goto
    <2>3. UNCHANGED <<stored, lock, op, snap, begun, orders>>
      BY <1>3 DEF TakeClaim, django
    <2>4. pc[w] = "claim"
      BY DEF ClaimKeyed
    <2>5. OneOrderInv => OneOrderInv'
      BY <1>1, <2>2, <2>3, <2>4, CallFacts, OutsideOneOrder
    <2> QED
      BY <2>1, <2>5
  <1>4. CASE /\ op' = [op EXCEPT ![w] = "replay"]
             /\ Goto(w, "lock")
             /\ UNCHANGED <<store, key, snap, begun, event, django>>
    <2>1. TypeInv'
      BY <1>4, Typed, CallFacts, HandlerType DEF Goto, store
    <2>2. pc[w] = "claim"
      BY DEF ClaimKeyed
    <2>3. OneOrderInv => OneOrderInv'
      BY <1>1, <1>4, <2>2, CallFacts, OutsideOneOrder DEF Goto, store, django
    <2> QED
      BY <2>1, <2>3
  <1> QED
    BY <1>2, <1>3, <1>4

(* A call that is over gives its key up, or records it.                    *)
LEMMA SettleKeeps ==
    ASSUME TypeInv, NEW w \in Worker, GiveUp(w) \/ Record(w)
    PROVE  TypeInv' /\ (OneOrderInv => OneOrderInv')
  <1>1. /\ claim' \in {claim, Freed(w), Spent(w)}
        /\ key' \in {key, [key EXCEPT ![w] = NoKey]}
        /\ pc[w] \in {"giveUp", "record"}
        /\ pc' = [pc EXCEPT ![w] = "unlock"]
        /\ UNCHANGED <<stored, lock, linked, op, snap, begun, event, django>>
    BY DEF GiveUp, Record, Goto
  <1>2. /\ claim' \in [Scope \X Key -> {"none", "inflight", "done"}]
        /\ key' \in [Worker -> Key \cup {NoKey}]
    BY <1>1, Typed DEF Freed, Spent
  <1>3. TypeInv'
    BY <1>1, <1>2, Typed, CallFacts, HandlerType
  <1>4. OneOrderInv => OneOrderInv'
    BY <1>1, CallFacts, OutsideOneOrder DEF django
  <1> QED
    BY <1>3, <1>4

(* A handler that reads the session opens no closed one.                   *)
LEMMA LoadKeeps ==
    ASSUME TypeInv, NEW w \in Worker,
           LoadReplay(w) \/ LoadUpdate(w) \/ LoadComplete(w) \/ LoadCancel(w)
    PROVE  TypeInv' /\ (OneOrderInv => OneOrderInv')
  <1>1. /\ To(stored, "canceled") \in Session
        /\ To(stored, "canceled").status \notin Open
    BY Typed, SetFields, StatusFacts
  <1>2. PICK s \in {stored, To(stored, "canceled")},
             p \in {"edit", "claim", "save", "giveUp", "unlock"} : Loaded(w, s, p)
    BY DEF LoadReplay, LoadUpdate, LoadComplete, LoadCancel
  <1>3. pc[w] = "load"
    BY DEF LoadReplay, LoadUpdate, LoadComplete, LoadCancel, Loading
  <1>4. s \in Session /\ (s.status \in Open => stored.status \in Open)
    BY <1>1, Typed
  <1> QED
    BY <1>2, <1>3, <1>4, CallFacts, LoadedType, LoadedOneOrder

(* An update works on an open session, and leaves it open.                 *)
LEMMA EditKeeps ==
    ASSUME TypeInv, NEW w \in Worker, Edit(w)
    PROVE  TypeInv' /\ (OneOrderInv => OneOrderInv')
  <1>1. PICK s \in Session, p \in {"save", "giveUp"} :
            /\ snap' \in {snap, [snap EXCEPT ![w] = s]}
            /\ s.status \in Open => snap[w].status \in Open
            /\ pc' = [pc EXCEPT ![w] = p]
    <2>1. CASE snap' = snap
      BY <2>1, Typed DEF Edit, Goto
    <2>2. CASE snap' # snap
      <3>1. PICK d \in BOOLEAN, p \in {"collected", "none"} :
                /\ Hold(w, Recompute(PaidBy(Detailed(snap[w], d), p)))
                /\ Goto(w, "save")
        BY <2>2 DEF Edit
      <3>2. /\ Detailed(snap[w], d) \in Session
            /\ Detailed(snap[w], d).status = snap[w].status
        BY Typed, SetFields
      <3>3. /\ PaidBy(Detailed(snap[w], d), p) \in Session
            /\ PaidBy(Detailed(snap[w], d), p).status = snap[w].status
        BY <3>2, SetFields DEF PayWay
      <3> QED
        BY <3>1, <3>3, RecomputeType DEF Hold, Goto
    <2> QED
      BY <2>1, <2>2
  <1>2. /\ pc[w] = "edit" /\ ~Early(w)
        /\ UNCHANGED <<store, op, key, begun, event, django>>
    BY DEF Edit, Early
  <1>3. TypeInv'
    BY <1>1, <1>2, Typed, CallFacts, HandlerType DEF store
  <1>4. OneOrderInv => OneOrderInv'
    BY <1>1, <1>2, WorkOneOrder DEF store, django
  <1> QED
    BY <1>3, <1>4

(* complete claims its key under the lock.                                 *)
LEMMA ClaimCompleteKeeps ==
    ASSUME TypeInv, NEW w \in Worker, ClaimComplete(w)
    PROVE  TypeInv' /\ (OneOrderInv => OneOrderInv')
  <1>1. PICK k \in Key : TakeClaim(w, "complete", k, "choose", "unlock")
    BY DEF ClaimComplete
  <1>2. TypeInv'
    BY <1>1, CallFacts, TakeClaimType
  <1>3. PICK p \in {"choose", "unlock"} : pc' = [pc EXCEPT ![w] = p]
    BY <1>1 DEF TakeClaim, Goto
  <1>4. /\ pc[w] = "claim" /\ ~Early(w)
        /\ UNCHANGED <<stored, lock, op, snap, begun, orders>>
    BY <1>1 DEF ClaimComplete, TakeClaim, Early, django
  <1>5. OneOrderInv => OneOrderInv'
    BY <1>3, <1>4, Typed, WorkOneOrder
  <1> QED
    BY <1>2, <1>5

(* The pay way a completion chooses changes no status but an open one.     *)
LEMMA ChooseKeeps ==
    ASSUME TypeInv, NEW w \in Worker, Choose(w)
    PROVE  TypeInv' /\ (OneOrderInv => OneOrderInv')
  <1>1. PICK s \in Session, p \in {"payWay", "giveUp"} :
            /\ snap' \in {snap, [snap EXCEPT ![w] = s]}
            /\ s.status \in Open => snap[w].status \in Open
            /\ pc' = [pc EXCEPT ![w] = p]
    <2>1. CASE snap' = snap /\ Goto(w, "giveUp")
      BY <2>1, Typed DEF Goto
    <2>2. ASSUME NEW d \in {snap[w].details, TRUE},
                 Hold(w, PaidBy(Recompute(Detailed(snap[w], d)), "collected")),
                 Goto(w, "payWay")
          PROVE  \E s \in Session :
                    /\ snap' \in {snap, [snap EXCEPT ![w] = s]}
                    /\ s.status \in Open => snap[w].status \in Open
                    /\ pc' = [pc EXCEPT ![w] = "payWay"]
      <3>0. d \in BOOLEAN /\ snap[w] \in Session
        BY Typed, SessionFields
      <3>1. /\ Detailed(snap[w], d) \in Session
            /\ Detailed(snap[w], d).status = snap[w].status
        BY <3>0, SetFields
      <3>2. LET s == Recompute(Detailed(snap[w], d)) IN
            s \in Session /\ (s.status \in Open => snap[w].status \in Open)
        BY <3>1, RecomputeType
      <3>3. LET s == PaidBy(Recompute(Detailed(snap[w], d)), "collected") IN
            s \in Session /\ (s.status \in Open => snap[w].status \in Open)
        BY <3>2, SetFields DEF PayWay
      <3> QED
        BY <2>2, <3>3 DEF Hold, Goto
    <2> QED
      BY <2>1, <2>2 DEF Choose
  <1>2. /\ pc[w] = "choose" /\ ~Early(w)
        /\ UNCHANGED <<store, op, key, begun, event, django>>
    BY DEF Choose, Early
  <1>3. TypeInv'
    BY <1>1, <1>2, Typed, CallFacts, HandlerType DEF store
  <1>4. OneOrderInv => OneOrderInv'
    BY <1>1, <1>2, WorkOneOrder DEF store, django
  <1> QED
    BY <1>3, <1>4

(* Every step of the ACP handlers keeps both invariants.                   *)
LEMMA HandlerStepKeeps ==
    ASSUME TypeInv, NEW w \in Worker, HandlerStep(w)
    PROVE  TypeInv' /\ (OneOrderInv => OneOrderInv')
  BY ClaimKeyedKeeps, ClaimCompleteKeeps, SettleKeeps, LoadKeeps, EditKeeps,
     ChooseKeeps DEF HandlerStep

(* The two invariants under every step.                                    *)
LEMMA NextType == TypeInv /\ [Next]_vars => TypeInv'
  <1> SUFFICES ASSUME TypeInv, [Next]_vars PROVE TypeInv'
    OBVIOUS
  <1>1. CASE Start
    BY <1>1, StartKeeps DEF Start
  <1>2. ASSUME NEW w \in Worker, HandlerStep(w) PROVE TypeInv'
    BY <1>2, HandlerStepKeeps
  <1>3. ASSUME NEW w \in Worker, FlowStep(w) PROVE TypeInv'
    BY <1>3, FlowStepType
  <1>4. CASE Around
    BY <1>4, AroundType
  <1>5. CASE UNCHANGED vars
    BY <1>5, StutterType
  <1> QED
    BY <1>1, <1>2, <1>3, <1>4, <1>5 DEF Next

(* OneOrderInv under every step, where the lock does not lapse too early.  *)
LEMMA NextOneOrder ==
    ASSUME LockLapse # "any", TypeInv, OneOrderInv, [Next]_vars
    PROVE  OneOrderInv'
  <1>1. CASE Start
    BY <1>1, StartKeeps DEF Start
  <1>2. ASSUME NEW w \in Worker, HandlerStep(w) PROVE OneOrderInv'
    BY <1>2, HandlerStepKeeps
  <1>3. ASSUME NEW w \in Worker, FlowStep(w) PROVE OneOrderInv'
    BY <1>3, FlowStepOneOrder
  <1>4. CASE Around
    BY <1>4, AroundOneOrder
  <1>5. CASE UNCHANGED vars
    BY <1>5, StutterOneOrder
  <1> QED
    BY <1>1, <1>2, <1>3, <1>4, <1>5 DEF Next

(* Every variable of the model keeps its type, whatever the lock does.     *)
THEOREM AcpTypeOK == Spec => []TypeOK
  <1>1. Init => TypeInv
    BY InitType
  <1>2. TypeInv => TypeOK
    BY DEF TypeInv
  <1> QED
    BY <1>1, <1>2, NextType, PTL DEF Spec

(* Why an ACP checkout places one order: the inductive invariant, where the *)
(* lock does not lapse before complete_in_progress is stored.              *)
THEOREM AcpOneOrderInv ==
    ASSUME LockLapse # "any"
    PROVE  Spec => []OneOrderInv
  <1>1. Init => TypeInv /\ OneOrderInv
    BY InitType, InitOneOrder
  <1>2. TypeInv /\ OneOrderInv /\ [Next]_vars => (TypeInv /\ OneOrderInv)'
    BY NextType, NextOneOrder
  <1> QED
    BY <1>1, <1>2, PTL DEF Spec

(* An ACP checkout places one order at most, however many workers serve its *)
(* completions and whichever keys they come with.                          *)
THEOREM AcpOneOrder ==
    ASSUME LockLapse # "any"
    PROVE  Spec => []AtMostOneOrder
  <1>1. OneOrderInv => AtMostOneOrder
    BY OneOrderInvGives
  <1> QED
    BY <1>1, AcpOneOrderInv, PTL

(* Once the order exists no reader finds the session still open.           *)
THEOREM AcpOpenHasNoOrder ==
    ASSUME LockLapse # "any"
    PROVE  Spec => []OpenHasNoOrder
  <1>1. OneOrderInv => OpenHasNoOrder
    BY OneOrderInvGives
  <1> QED
    BY <1>1, AcpOneOrderInv, PTL

-----------------------------------------------------------------------------
(* The start of a call and the handlers' own steps are of the kinds the    *)
(* shared invariants know.                                                 *)
LEMMA StartKinds ==
    ASSUME TypeInv, NEW w \in Worker,
           \/ StartComplete(w)
           \/ \E call \in {"update", "cancel"} : StartKeyed(w, call)
    PROVE  Kind(w)
  <1>1. PICK c \in {"complete", "update", "cancel"}, p \in {"lock", "claim"} :
            /\ pc[w] = "idle" /\ pc' = [pc EXCEPT ![w] = p]
            /\ op' = [op EXCEPT ![w] = c]
            /\ p = "claim" => c \in {"update", "cancel"}
            /\ UNCHANGED <<store, key, snap, begun, event, django>>
    BY DEF StartComplete, StartKeyed, Goto
  <1>2. /\ OthersStay(w) /\ pc'[w] = p /\ op'[w] = c
        /\ UNCHANGED <<stored, orders, linked, claim, lock>>
    BY <1>1, Typed DEF OthersStay, store, django
  <1> QED
    BY <1>1, <1>2, AcpSession
    DEF Kind, Mine, Stops, Still, Writes, Writing, Early, KeySpent

(* A call on its way to the lock, or on its way out.                       *)
LEMMA PassKind ==
    ASSUME TypeInv, NEW w \in Worker,
           pc[w] \in {"giveUp", "record"} \/ Early(w),
           NEW p \in {"lock", "unlock"}, pc' = [pc EXCEPT ![w] = p],
           op' \in {op, [op EXCEPT ![w] = "replay"]}, KeySpent' => KeySpent,
           UNCHANGED <<stored, lock, linked, snap, begun, orders>>
    PROVE  Kind(w)
  <1>1. OthersStay(w) /\ pc'[w] = p /\ op'[w] \in {op[w], "replay"}
    BY Typed DEF OthersStay
  <1>2. pc[w] \in {"giveUp", "record", "claim"}
    BY DEF Early
  <1> QED
    BY <1>1, <1>2 DEF Kind, Mine, Stops, Still, Writes, Writing

(* A handler that loads the session, and cancels it only before its        *)
(* completion.                                                             *)
LEMMA LoadedKind ==
    ASSUME TypeInv, NEW w \in Worker, pc[w] = "load", stored.status # "absent",
           NEW s \in {stored, To(stored, "canceled")},
           s = stored \/ stored.status \notin Settled,
           NEW p \in {"edit", "claim", "save", "giveUp", "unlock"},
           Loaded(w, s, p)
    PROVE  Kind(w)
  <1>2. /\ OthersStay(w) /\ pc'[w] = p /\ snap'[w] = s
        /\ UNCHANGED <<stored, orders, linked, claim, lock, op, begun>>
    BY Typed DEF Loaded, Goto, Hold, OthersStay, store, django, TypeInv, TypeOK
  <1>3. /\ To(stored, "canceled").order = stored.order
        /\ To(stored, "canceled").status = "canceled"
        /\ To(stored, "canceled").payWay = stored.payWay
    BY Typed DEF To, Session
  <1>4. Reads(w)
    BY <1>2, <1>3, AcpSession DEF Reads, Still, Settled, Terminal
  <1> QED
    BY <1>2, <1>3, <1>4 DEF Kind, Mine, Writes, Writing, Early, KeySpent

(* A handler that works on its snapshot changes an open status only, and   *)
(* chooses no hosted payment.                                              *)
LEMMA WorkKind ==
    ASSUME TypeInv, NEW w \in Worker,
           pc[w] \in {"edit", "choose", "claim"}, ~Early(w),
           NEW s \in Session, s.order = snap[w].order,
           \/ s.status = snap[w].status
           \/ s.status \in Open /\ snap[w].status \in Open,
           s.payWay \in {"collected", "none", snap[w].payWay},
           NEW p \in {"choose", "payWay", "save", "giveUp", "unlock"},
           pc' = [pc EXCEPT ![w] = p], snap' \in {snap, [snap EXCEPT ![w] = s]},
           KeySpent' => KeySpent,
           UNCHANGED <<stored, lock, linked, op, begun, orders>>
    PROVE  Kind(w)
  <1>1. OthersStay(w) /\ pc'[w] = p /\ snap'[w] \in {snap[w], s}
    BY Typed DEF OthersStay, TypeInv, TypeOK
  <1>2. Works(w) \/ Stops(w)
    BY <1>1 DEF Works, Stops, Still, Writes, Writing, Early
  <1> QED
    BY <1>1, <1>2 DEF Kind, Mine, Writes, Writing, Early

(* Recompute leaves the order and the pay way alone.                       *)
LEMMA RecomputeFields ==
    ASSUME NEW x \in Session
    PROVE  /\ Recompute(x) \in Session /\ Recompute(x).order = x.order
           /\ Recompute(x).payWay = x.payWay
           /\ Recompute(x).status = x.status
              \/ (Recompute(x).status \in Open /\ x.status \in Open)
  <1>1. \A st \in Status : To(x, st).order = x.order /\ To(x, st).payWay = x.payWay
    BY DEF Session, To
  <1> QED
    BY <1>1, RecomputeType, StatusFacts DEF Recompute

(* So do the fields an update and a completion set.                        *)
LEMMA FieldFacts ==
    ASSUME NEW x \in Session, NEW d \in BOOLEAN, NEW p \in {"collected", "none"}
    PROVE  /\ Detailed(x, d) \in Session /\ Detailed(x, d).order = x.order
           /\ Detailed(x, d).status = x.status
           /\ PaidBy(x, p) \in Session /\ PaidBy(x, p).order = x.order
           /\ PaidBy(x, p).status = x.status /\ PaidBy(x, p).payWay = p
  BY SetFields DEF Session, Detailed, PaidBy, PayWay

(* Every handler step of ACP is of a kind.                                 *)
LEMMA HandlerStepKinds ==
    ASSUME TypeInv, SpentInv, NEW w \in Worker, HandlerStep(w)
    PROVE  Kind(w)
  <1>1. CASE ClaimKeyed(w)
    <2>1. Early(w)
      BY <1>1, AcpSession DEF ClaimKeyed, Early
    <2>2. PICK k \in Key :
            \/ TakeClaim(w, op[w], k, "lock", "unlock")
            \/ /\ op' = [op EXCEPT ![w] = "replay"]
               /\ Goto(w, "lock")
               /\ UNCHANGED <<store, key, snap, begun, event, django>>
      BY <1>1 DEF ClaimKeyed
    <2>3. CASE TakeClaim(w, op[w], k, "lock", "unlock")
      <3>1. KeySpent' => KeySpent
        <4>1. claim' \in {claim, [claim EXCEPT ![<<op[w], k>>] = "inflight"]}
          BY <2>3 DEF TakeClaim
        <4> QED
          BY <4>1, Typed, SpendsNone, CompleteScope
      <3>2. PICK p \in {"lock", "unlock"} : pc' = [pc EXCEPT ![w] = p]
        BY <2>3 DEF TakeClaim, Goto
      <3>3. UNCHANGED <<stored, lock, linked, op, snap, begun, orders>>
        BY <2>3 DEF TakeClaim, django
      <3> QED
        BY <2>1, <3>1, <3>2, <3>3, PassKind
    <2>4. CASE /\ op' = [op EXCEPT ![w] = "replay"]
               /\ Goto(w, "lock")
               /\ UNCHANGED <<store, key, snap, begun, event, django>>
      BY <2>1, <2>4, PassKind DEF Goto, store, django, KeySpent
    <2> QED
      BY <2>2, <2>3, <2>4
  <1>2. CASE GiveUp(w) \/ Record(w)
    <2>1. KeySpent' => KeySpent
      <3>1. CASE GiveUp(w)
        BY <3>1, Typed, SpendsNone, CompleteScope DEF GiveUp, Freed
      <3>2. CASE Record(w)
        <4>1. op[w] \in {"update", "cancel"}
          BY <3>2 DEF Record, SpentInv
        <4>2. claim' \in {claim, [claim EXCEPT ![<<op[w], key[w]>>] = "done"]}
          BY <3>2 DEF Record, Spent
        <4> QED
          BY <4>1, <4>2, Typed, CompleteScope DEF KeySpent
      <3> QED
        BY <1>2, <3>1, <3>2
    <2>2. /\ pc[w] \in {"giveUp", "record"} /\ pc' = [pc EXCEPT ![w] = "unlock"]
          /\ UNCHANGED <<stored, lock, linked, op, snap, begun, orders>>
      BY <1>2 DEF GiveUp, Record, Goto, django
    <2> QED
      BY <2>1, <2>2, PassKind
  <1>3. CASE ClaimComplete(w)
    <2>1. PICK k \in Key : TakeClaim(w, "complete", k, "choose", "unlock")
      BY <1>3 DEF ClaimComplete
    <2>2. KeySpent' => KeySpent
      <3>1. claim' \in {claim, [claim EXCEPT ![<<"complete", k>>] = "inflight"]}
        BY <2>1 DEF TakeClaim
      <3> QED
        BY <3>1, Typed, SpendsNone, CompleteScope
    <2>3. PICK p \in {"choose", "unlock"} : pc' = [pc EXCEPT ![w] = p]
      BY <2>1 DEF TakeClaim, Goto
    <2>4. /\ pc[w] = "claim" /\ ~Early(w) /\ snap' = snap
          /\ UNCHANGED <<stored, lock, linked, op, begun, orders>>
      BY <1>3, <2>1 DEF ClaimComplete, TakeClaim, Early, django
    <2> QED
      BY <2>2, <2>3, <2>4, Typed, WorkKind
  <1>4. CASE LoadReplay(w) \/ LoadUpdate(w) \/ LoadComplete(w) \/ LoadCancel(w)
    <2>1. PICK s \in {stored, To(stored, "canceled")},
               p \in {"edit", "claim", "save", "giveUp", "unlock"} :
            /\ Loaded(w, s, p)
            /\ s = stored \/ stored.status \notin Settled
      BY <1>4, StatusFacts
      DEF LoadReplay, LoadUpdate, LoadComplete, LoadCancel, Settled, Terminal
    <2>2. pc[w] = "load" /\ stored.status # "absent"
      BY <1>4 DEF LoadReplay, LoadUpdate, LoadComplete, LoadCancel, Loading
    <2> QED
      BY <2>1, <2>2, LoadedKind
  <1>5. CASE Edit(w)
    <2>1. PICK s \in Session, p \in {"save", "giveUp"} :
              /\ s.order = snap[w].order
              /\ s.status = snap[w].status \/ (s.status \in Open /\ snap[w].status \in Open)
              /\ s.payWay \in {"collected", "none", snap[w].payWay}
              /\ snap' \in {snap, [snap EXCEPT ![w] = s]}
              /\ pc' = [pc EXCEPT ![w] = p]
      <3>1. CASE snap' = snap
        BY <1>5, <3>1, Typed DEF Edit, Goto
      <3>2. CASE snap' # snap
        <4>1. PICK d \in BOOLEAN, p \in {"collected", "none"} :
                  /\ Hold(w, Recompute(PaidBy(Detailed(snap[w], d), p)))
                  /\ Goto(w, "save")
          BY <1>5, <3>2 DEF Edit
        <4>2. /\ Detailed(snap[w], d) \in Session
              /\ Detailed(snap[w], d).order = snap[w].order
              /\ Detailed(snap[w], d).status = snap[w].status
          BY Typed, FieldFacts
        <4>3. /\ PaidBy(Detailed(snap[w], d), p) \in Session
              /\ PaidBy(Detailed(snap[w], d), p).order = snap[w].order
              /\ PaidBy(Detailed(snap[w], d), p).status = snap[w].status
              /\ PaidBy(Detailed(snap[w], d), p).payWay = p
          BY <4>2, FieldFacts
        <4> QED
          BY <4>1, <4>3, RecomputeFields DEF Hold, Goto
      <3> QED
        BY <3>1, <3>2
    <2>2. pc[w] = "edit" /\ ~Early(w) /\ UNCHANGED <<store, op, begun, orders>>
      BY <1>5 DEF Edit, Early, django
    <2>3. KeySpent' => KeySpent
      BY <2>2 DEF KeySpent, store
    <2> QED
      BY <2>1, <2>2, <2>3, WorkKind DEF store
  <1>6. CASE Choose(w)
    <2>1. PICK s \in Session, p \in {"payWay", "giveUp"} :
              /\ s.order = snap[w].order
              /\ s.status = snap[w].status \/ (s.status \in Open /\ snap[w].status \in Open)
              /\ s.payWay \in {"collected", "none", snap[w].payWay}
              /\ snap' \in {snap, [snap EXCEPT ![w] = s]}
              /\ pc' = [pc EXCEPT ![w] = p]
      <3>1. CASE snap' = snap /\ Goto(w, "giveUp")
        BY <3>1, Typed DEF Goto
      <3>2. CASE \E d \in {snap[w].details, TRUE} :
                    LET s == Recompute(Detailed(snap[w], d)) IN
                    /\ s.status # "incomplete"
                    /\ Hold(w, PaidBy(s, "collected"))
                    /\ Goto(w, "payWay")
        <4>1. PICK d \in {snap[w].details, TRUE} :
                  /\ Hold(w, PaidBy(Recompute(Detailed(snap[w], d)), "collected"))
                  /\ Goto(w, "payWay")
          BY <3>2
        <4>2. d \in BOOLEAN
          BY Typed, SessionFields
        <4>3. /\ Detailed(snap[w], d) \in Session
              /\ Detailed(snap[w], d).order = snap[w].order
              /\ Detailed(snap[w], d).status = snap[w].status
          BY <4>2, Typed, FieldFacts
        <4> DEFINE r == Recompute(Detailed(snap[w], d))
        <4>4. /\ r \in Session /\ r.order = snap[w].order
              /\ r.status = snap[w].status \/ (r.status \in Open /\ snap[w].status \in Open)
          BY <4>3, RecomputeFields
        <4>5. /\ PaidBy(r, "collected") \in Session
              /\ PaidBy(r, "collected").order = r.order
              /\ PaidBy(r, "collected").status = r.status
              /\ PaidBy(r, "collected").payWay = "collected"
          BY <4>4, FieldFacts
        <4> QED
          BY <4>1, <4>4, <4>5 DEF Hold, Goto
      <3> QED
        BY <1>6, <3>1, <3>2 DEF Choose
    <2>2. pc[w] = "choose" /\ ~Early(w) /\ UNCHANGED <<store, op, begun, orders>>
      BY <1>6 DEF Choose, Early, django
    <2>3. KeySpent' => KeySpent
      BY <2>2 DEF KeySpent, store
    <2> QED
      BY <2>1, <2>2, <2>3, WorkKind DEF store
  <1> QED
    BY <1>1, <1>2, <1>3, <1>4, <1>5, <1>6 DEF HandlerStep

(* So every step is of a kind.                                             *)
LEMMA NextKinds ==
    ASSUME TypeInv, SpentInv, [Next]_vars
    PROVE  Outside \/ \E w \in Worker : Kind(w)
  <1>1. CASE Start
    BY <1>1, StartKinds DEF Start
  <1>2. ASSUME NEW w \in Worker, HandlerStep(w) PROVE Kind(w)
    BY <1>2, HandlerStepKinds
  <1>3. ASSUME NEW w \in Worker, FlowStep(w) PROVE Kind(w)
    BY <1>3, FlowStepKinds
  <1>4. CASE Around
    BY <1>4, AroundKinds
  <1>5. CASE UNCHANGED vars
    BY <1>5, StutterKind
  <1> QED
    BY <1>1, <1>2, <1>3, <1>4, <1>5 DEF Next

(* The invariants that need a lock only until complete_in_progress.        *)
LockedInv == TypeInv /\ OneOrderInv /\ SpentInv /\ CanceledInv

(* They hold at the start.                                                 *)
LEMMA InitLocked == Init => LockedInv
  BY AcpSession, InitType, InitOneOrder, SpentInit, CanceledInit DEF LockedInv

(* Every step keeps them.                                                  *)
LEMMA NextLocked ==
    ASSUME LockLapse # "any", LockedInv, [Next]_vars
    PROVE  LockedInv'
  <1>1. TypeInv' /\ OneOrderInv'
    BY NextType, NextOneOrder DEF LockedInv
  <1>2. CASE Outside
    BY <1>1, <1>2, SpentOutside, CanceledOutside DEF LockedInv
  <1>3. ASSUME NEW w \in Worker, Kind(w) PROVE LockedInv'
    BY <1>1, <1>3, AcpSession, SpentKind, CanceledKind DEF LockedInv
  <1> QED
    BY <1>2, <1>3, NextKinds DEF LockedInv

(* So they hold throughout.                                                *)
LEMMA LockedInvariant ==
    ASSUME LockLapse # "any"
    PROVE  Spec => []LockedInv
  BY InitLocked, NextLocked, PTL DEF Spec

(* A canceled session leaves no order behind, neither one placed before    *)
(* the cancellation nor one a racing completion places after it.           *)
THEOREM AcpCanceledHasNoOrder ==
    ASSUME LockLapse # "any"
    PROVE  Spec => []CanceledHasNoOrder
  <1>1. LockedInv => CanceledHasNoOrder
    BY DEF LockedInv, CanceledInv, Without, CanceledHasNoOrder
  <1> QED
    BY <1>1, LockedInvariant, PTL

(* A key is spent only for an order that exists or may: from then on no    *)
(* reader finds the session open.                                          *)
THEOREM AcpSpentKeyClosesSession ==
    ASSUME LockLapse # "any"
    PROVE  Spec => []SpentKeyClosesSession
  <1>1. LockedInv => SpentKeyClosesSession
    BY DEF LockedInv, SpentInv, KeySpent, Without, SpentKeyClosesSession
  <1> QED
    BY <1>1, LockedInvariant, PTL

(* A handler that cancels has read an open session: ACP sessions are not   *)
(* escalated.                                                              *)
LEMMA CancelsOpen ==
    ASSUME LockedInv, SavesInv, NEW w \in Worker, Kind(w),
           pc[w] = "load", Writes(w)', snap'[w].status = "canceled"
    PROVE  stored.status \in Open \cup {"canceled"}
  <1>1. ~Writes(w) /\ Reads(w)
    BY DEF Kind, Stops, Works, Reads, Begins, Asks, Indexes, Saves, Writes,
           Writing, Early
  <1>2. stored.status \in Status \ {"absent", "escalation"}
    BY DEF LockedInv, TypeInv, TypeOK, SavesInv, Session, CanceledInv, NotHosted
  <1> QED
    BY <1>1, <1>2, AcpSession DEF Reads, Status, Open, Terminal

(* The ACP endpoints implement the checkout CheckoutLifecycle promises,    *)
(* whether pods die or Redis calls fail, as long as no lock lapses under   *)
(* its holder and the session does not expire.                             *)
THEOREM AcpImplementsLifecycle ==
    ASSUME LockLapse = "never", "expiry" \notin Faults
    PROVE  Spec => ImplementsLifecycle
  <1> DEFINE Inv == LockedInv /\ AloneInv /\ SavesInv
  <1>1. Init => Inv
    BY InitLocked, AloneInit, SavesInit
  <1>2. Inv /\ [Next]_vars
           => Inv' /\ [Lifecycle!Next]_<<stored.status, orders>>
    <2> SUFFICES ASSUME Inv, [Next]_vars
                 PROVE  Inv' /\ [Lifecycle!Next]_<<stored.status, orders>>
      OBVIOUS
    <2>1. LockedInv'
      BY NextLocked
    <2>2. TypeInv /\ OneOrderInv /\ SpentInv
      BY DEF LockedInv
    <2>3. CASE Outside
      BY <2>1, <2>3, AloneOutside, SavesOutside, OutsideRefines
    <2>4. ASSUME NEW w \in Worker, Kind(w)
          PROVE  Inv' /\ [Lifecycle!Next]_<<stored.status, orders>>
      <3>1. SavesInv'
        BY <2>2, <2>4, CancelsOpen, SavesKind
      <3> QED
        BY <2>1, <2>2, <2>4, <3>1, AloneKind, KindRefines
    <2> QED
      BY <2>2, <2>3, <2>4, NextKinds
  <1>3. Init => Lifecycle!Init
    BY InitRefines
  <1> QED
    BY <1>1, <1>2, <1>3, PTL DEF Spec, ImplementsLifecycle, Lifecycle!Spec
=============================================================================
