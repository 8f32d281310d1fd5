----------------------------- MODULE StoreProofs -----------------------------
(***************************************************************************)
(* Proofs about the modules of what the gateway does with one cart, one    *)
(* quotation, one create call and one order (Carts, CartSync, CheckoutView,*)
(* AcpCreate, OrderEvents).  Each part has its inductive invariant, the    *)
(* lemmas that its steps keep it, and the theorems that follow.            *)
(***************************************************************************)
EXTENDS StoreCalls, ChatProofs

-----------------------------------------------------------------------------
(* AcpCreate.  The key has a holder while a request that claimed it has    *)
(* not answered.                                                           *)
Holds(r) == creating[r].at \in {"build", "save", "record", "release"}

(* Ids are named by requests and by the record after they were minted.     *)
IdsAreMinted ==
    /\ \A r \in Attempt : creating[r].at \in {"save", "record", "replay"} => creating[r].id \in mintedIds
    /\ idem.state = "record" => idem.id \in mintedIds

(* As long as the key did not lapse: one request holds it, before anything *)
(* is answered; and what was answered keeps it.                            *)
OneHolder ==
    \A r \in Attempt : Holds(r) =>
        /\ idem = InFlight /\ named = {}
        /\ \A q \in Attempt : Holds(q) => q = r

AnswersAgree ==
    /\ \A x \in named, y \in named : x = y
    /\ named # {} => idem # NoIdem
    /\ idem.state = "record" => [body |-> idem.body, id |-> idem.id] \in named
    /\ \A r \in Attempt : creating[r].at = "replay" =>
            [body |-> creating[r].body, id |-> creating[r].id] \in named

CreateInv == CreateTypeOK /\ IdsAreMinted /\ (~lapsed => OneHolder /\ AnswersAgree)

(* The two values of the key that are no record.                           *)
LEMMA KeyValues ==
    /\ NoIdem \in [state : {"none", "inflight", "record"}, body : Body, id : SessionId \cup {NoId}]
    /\ InFlight \in [state : {"none", "inflight", "record"}, body : Body, id : SessionId \cup {NoId}]
    /\ NoIdem.state = "none" /\ InFlight.state = "inflight" /\ NoIdem.body \in Body
<1>1. (CHOOSE b \in Body : TRUE) \in Body
    BY AcpCreateAssumption
<1> QED
    BY <1>1 DEF NoIdem, InFlight

(* Nothing is claimed, asked or answered at the start.                     *)
LEMMA CreateInitially == CreateInit => CreateInv
<1> SUFFICES ASSUME CreateInit PROVE CreateInv
    OBVIOUS
<1>1. idem = NoIdem /\ named = {} /\ alive = {} /\ mintedIds = {} /\ lapsed = FALSE
    BY DEF CreateInit
<1>2. creating = [r \in Attempt |-> [at |-> "idle", body |-> NoIdem.body, id |-> NoId]]
    BY DEF CreateInit, NoRequest
<1>3. CreateTypeOK
    BY <1>1, <1>2, KeyValues DEF CreateTypeOK
<1>4. OneHolder /\ IdsAreMinted /\ AnswersAgree
    BY <1>1, <1>2, KeyValues DEF OneHolder, Holds, IdsAreMinted, AnswersAgree
<1> QED
    BY <1>3, <1>4 DEF CreateInv

(* A request that begins or breaks off holds nothing afterwards.           *)
LEMMA CreateComesAndGoes ==
    ASSUME CreateInv, NEW r \in Attempt, NEW b \in Body,
           ReceiveCreate(r, b) \/ CreateCrash(r)
    PROVE  CreateInv'
<1> DEFINE q == creating'[r]
<1>1. /\ creating' = [creating EXCEPT ![r] = q]
      /\ q \in [at : {"idle", "claim"}, body : Body, id : {NoId}]
      /\ UNCHANGED <<idem, alive, mintedIds, named, lapsed>>
    BY KeyValues DEF ReceiveCreate, CreateCrash, CreateEnds, NoRequest, CreateInv, CreateTypeOK
<1> QED
    BY <1>1 DEF CreateInv, CreateTypeOK, OneHolder, Holds, IdsAreMinted, AnswersAgree

(* The claim: whoever finds no key finds no holder and no answer either.   *)
LEMMA CreateClaims ==
    ASSUME CreateInv, NEW r \in Attempt, ClaimCreate(r)
    PROVE  CreateInv'
<1> DEFINE q == creating'[r]
<1>0. NoIdem # InFlight
    BY KeyValues
<1>1. /\ creating' = [creating EXCEPT ![r] = q]
      /\ q \in [at : {"idle", "build", "read"}, body : Body, id : SessionId \cup {NoId}]
      /\ UNCHANGED <<alive, mintedIds, named, lapsed>>
      /\ \/ idem = NoIdem /\ idem' = InFlight /\ q.at \in {"idle", "build"}
         \/ idem' = idem /\ q.at \in {"idle", "read"}
    BY KeyValues
       DEF ClaimCreate, CreateGoes, CreateEnds, NoRequest, CreateInv, CreateTypeOK
<1>2. CASE idem = NoIdem /\ idem' = InFlight /\ q.at \in {"idle", "build"}
    <2>1. ~lapsed => named = {} /\ \A p \in Attempt : ~Holds(p)
        BY <1>0, <1>2 DEF CreateInv, OneHolder, AnswersAgree
    <2>2. CreateTypeOK' /\ IdsAreMinted'
        BY <1>1, <1>2, KeyValues DEF CreateInv, CreateTypeOK, IdsAreMinted
    <2>3. ~lapsed => OneHolder'
        BY <1>1, <1>2, <2>1 DEF CreateInv, CreateTypeOK, OneHolder, Holds
    <2>4. ~lapsed => AnswersAgree'
        BY <1>1, <1>2, <2>1, KeyValues DEF CreateInv, CreateTypeOK, AnswersAgree
    <2> QED
        BY <1>1, <2>2, <2>3, <2>4 DEF CreateInv
<1>3. CASE idem' = idem /\ q.at \in {"idle", "read"}
    BY <1>1, <1>3 DEF CreateInv, CreateTypeOK, OneHolder, Holds, IdsAreMinted, AnswersAgree
<1> QED
    BY <1>1, <1>2, <1>3

(* A replay answers what the record names.                                 *)
LEMMA CreateReplays ==
    ASSUME CreateInv, NEW r \in Attempt, ReadClaim(r) \/ Replay(r)
    PROVE  CreateInv'
<1> DEFINE q == creating'[r]
           x == [body |-> creating[r].body, id |-> creating[r].id]
<1>1. CASE ReadClaim(r)
    <2>1. /\ creating' = [creating EXCEPT ![r] = q]
          /\ q \in [at : {"idle", "replay"}, body : Body, id : SessionId \cup {NoId}]
          /\ q.at = "replay" => idem.state = "record" /\ q.body = idem.body /\ q.id = idem.id
          /\ UNCHANGED <<idem, alive, mintedIds, named, lapsed>>
        BY <1>1, KeyValues
           DEF ReadClaim, CreateEnds, NoRequest, CreateInv, CreateTypeOK
    <2> QED
        BY <2>1 DEF CreateInv, CreateTypeOK, OneHolder, Holds, IdsAreMinted, AnswersAgree
<1>2. CASE Replay(r)
    <2>1. /\ creating' = [creating EXCEPT ![r] = q]
          /\ q \in [at : {"idle"}, body : Body, id : {NoId}]
          /\ named' \in {named, named \cup {x}}
          /\ UNCHANGED <<idem, alive, mintedIds, lapsed>>
        BY <1>2, KeyValues
           DEF Replay, NameSession, CreateEnds, NoRequest, CreateInv, CreateTypeOK
    <2>2. x \in [body : Body, id : SessionId]
        BY <1>2 DEF Replay, CreateInv, CreateTypeOK, IdsAreMinted
    <2>3. ~lapsed => x \in named
        BY <1>2 DEF Replay, CreateInv, AnswersAgree
    <2>4. ~lapsed => named' = named
        BY <2>1, <2>3
    <2>5. CreateTypeOK' /\ IdsAreMinted'
        BY <2>1, <2>2 DEF CreateInv, CreateTypeOK, IdsAreMinted
    <2> QED
        BY <2>1, <2>4, <2>5 DEF CreateInv, CreateTypeOK, OneHolder, Holds, AnswersAgree
<1> QED
    BY <1>1, <1>2

(* The holder builds and saves its session, and answers nothing yet.       *)
LEMMA CreateBuilds ==
    ASSUME CreateInv, NEW r \in Attempt, BuildSession(r) \/ SaveCreated(r)
    PROVE  CreateInv'
<1> DEFINE q == creating'[r]
<1>1. /\ creating' = [creating EXCEPT ![r] = q] /\ Holds(r)
      /\ q \in [at : {"save", "record", "release"}, body : Body, id : SessionId \cup {NoId}]
      /\ UNCHANGED <<idem, named, lapsed>>
      /\ mintedIds \subseteq mintedIds' /\ mintedIds' \subseteq SessionId
      /\ alive' \subseteq mintedIds'
      /\ q.at \in {"save", "record"} => q.id \in mintedIds'
    <2>1. CASE BuildSession(r)
        BY <2>1 DEF BuildSession, CreateGoes, CreateInv, CreateTypeOK, Holds
    <2>2. CASE SaveCreated(r)
        BY <2>2 DEF SaveCreated, CreateGoes, CreateInv, CreateTypeOK, IdsAreMinted, Holds
    <2> QED
        BY <2>1, <2>2
<1>2. CreateTypeOK' /\ IdsAreMinted'
    BY <1>1 DEF CreateInv, CreateTypeOK, IdsAreMinted
<1>3. ~lapsed => OneHolder' /\ AnswersAgree'
    BY <1>1 DEF CreateInv, CreateTypeOK, OneHolder, Holds, AnswersAgree
<1> QED
    BY <1>1, <1>2, <1>3 DEF CreateInv

(* Its answer is the first one; without one it lets go of the key.         *)
LEMMA CreateConcludes ==
    ASSUME CreateInv, NEW r \in Attempt, StoreRecord(r) \/ ReleaseClaim(r)
    PROVE  CreateInv'
<1> DEFINE q == creating'[r]
           x == [body |-> creating[r].body, id |-> creating[r].id]
           record == [state |-> "record", body |-> creating[r].body, id |-> creating[r].id]
<1>1. /\ creating' = [creating EXCEPT ![r] = q] /\ Holds(r)
      /\ q \in [at : {"idle"}, body : Body, id : {NoId}]
      /\ UNCHANGED <<alive, mintedIds, lapsed>>
      /\ \/ idem' \in {idem, record} /\ named' = named \cup {x} /\ creating[r].at = "record"
         \/ idem' \in {idem, NoIdem} /\ named' = named
    BY KeyValues
       DEF StoreRecord, ReleaseClaim, NameSession, CreateEnds, NoRequest, Holds, CreateInv,
           CreateTypeOK
<1>2. ~lapsed => /\ idem = InFlight /\ named = {}
                 /\ \A p \in Attempt : Holds(p) => p = r
    BY <1>1 DEF CreateInv, OneHolder
<1>3. ~lapsed => OneHolder'
    BY <1>1, <1>2 DEF CreateInv, CreateTypeOK, OneHolder, Holds
<1>4. ~lapsed => \A p \in Attempt : creating'[p].at # "replay"
    BY <1>1, <1>2 DEF CreateInv, CreateTypeOK, AnswersAgree
<1>5. CASE idem' \in {idem, record} /\ named' = named \cup {x} /\ creating[r].at = "record"
    <2>1. creating[r].id \in mintedIds /\ creating[r].body \in Body
        BY <1>5 DEF CreateInv, CreateTypeOK, IdsAreMinted
    <2>2. CreateTypeOK' /\ IdsAreMinted'
        BY <1>1, <1>5, <2>1 DEF CreateInv, CreateTypeOK, IdsAreMinted
    <2>3. ~lapsed => AnswersAgree'
        BY <1>2, <1>4, <1>5, KeyValues DEF AnswersAgree
    <2> QED
        BY <1>1, <1>3, <2>2, <2>3 DEF CreateInv
<1>6. CASE idem' \in {idem, NoIdem} /\ named' = named
    <2>1. CreateTypeOK' /\ IdsAreMinted'
        BY <1>1, <1>6, KeyValues DEF CreateInv, CreateTypeOK, IdsAreMinted
    <2>2. ~lapsed => AnswersAgree'
        BY <1>2, <1>4, <1>6, KeyValues DEF AnswersAgree
    <2> QED
        BY <1>1, <1>3, <2>1, <2>2 DEF CreateInv
<1> QED
    BY <1>1, <1>5, <1>6

(* What expires under a request or after an answer is a lapse; a key that  *)
(* expires otherwise has no holder and no answer.                          *)
LEMMA CreateExpires ==
    ASSUME CreateInv, ExpireIdem \/ DropSession
    PROVE  CreateInv'
<1>1. CASE ExpireIdem
    <2>1. /\ idem' = NoIdem /\ UNCHANGED <<alive, mintedIds, creating, named>>
          /\ ~lapsed' => ~lapsed /\ named = {} /\ \A p \in Attempt : ~Holds(p)
          /\ lapsed' \in BOOLEAN
        BY <1>1 DEF ExpireIdem, Holds
    <2>2. CreateTypeOK' /\ IdsAreMinted'
        BY <2>1, KeyValues DEF CreateInv, CreateTypeOK, IdsAreMinted
    <2>3. ~lapsed' => OneHolder'
        BY <2>1 DEF OneHolder, Holds
    <2>4. ~lapsed' => AnswersAgree'
        BY <2>1, KeyValues DEF CreateInv, AnswersAgree
    <2> QED
        BY <2>2, <2>3, <2>4 DEF CreateInv
<1>2. CASE DropSession
    BY <1>2
       DEF DropSession, CreateInv, CreateTypeOK, OneHolder, Holds, IdsAreMinted, AnswersAgree
<1> QED
    BY <1>1, <1>2

(* Every step of the creation keeps the invariant.                         *)
LEMMA CreateStep == CreateInv /\ [CreateNext]_createVars => CreateInv'
<1> SUFFICES ASSUME CreateInv, [CreateNext]_createVars PROVE CreateInv'
    OBVIOUS
<1>1. ASSUME NEW r \in Attempt, NEW b \in Body, ReceiveCreate(r, b) PROVE CreateInv'
    BY <1>1, CreateComesAndGoes
<1>2. ASSUME NEW r \in Attempt, CreateCrash(r) PROVE CreateInv'
    BY <1>2, CreateComesAndGoes, AcpCreateAssumption
<1>3. ASSUME NEW r \in Attempt,
             \/ ClaimCreate(r) \/ ReadClaim(r) \/ Replay(r) \/ BuildSession(r)
             \/ SaveCreated(r) \/ StoreRecord(r) \/ ReleaseClaim(r)
      PROVE  CreateInv'
    BY <1>3, CreateClaims, CreateReplays, CreateBuilds, CreateConcludes
<1>4. CASE UNCHANGED createVars
    BY <1>4
       DEF createVars, CreateInv, CreateTypeOK, OneHolder, Holds, IdsAreMinted, AnswersAgree
<1> QED
    BY <1>1, <1>2, <1>3, <1>4, CreateExpires DEF CreateNext

(* However many creates come at once, fail, die or are repeated under one  *)
(* key: as long as that did not expire under a request or after an answer, *)
(* the answers are to one body and name one session.                       *)
THEOREM CreateNamesOneSession == CreateSpec => []CreateNamesOne
<1>1. CreateInv => CreateNamesOne
    <2> SUFFICES ASSUME CreateInv, ~lapsed PROVE Cardinality(named) <= 1
        BY DEF CreateNamesOne
    <2>1. CASE named = {}
        BY <2>1, FS_EmptySet
    <2>2. CASE named # {}
        <3>1. PICK x \in named : TRUE
            BY <2>2
        <3>2. named = {x}
            BY DEF CreateInv, AnswersAgree
        <3> QED
            BY <3>2, FS_Singleton
    <2> QED
        BY <2>1, <2>2
<1> QED
    BY <1>1, CreateInitially, CreateStep, PTL DEF CreateSpec

-----------------------------------------------------------------------------
(* OrderEvents.  A push that is handled is of a change there was, and what *)
(* a handler read is not older than the event it read it for.  If links    *)
(* are written in time, an order of an agent has its link before it        *)
(* changes, so that no event of it is dropped for want of one.             *)
EventShape ==
    /\ OrderEventsTypeOK
    /\ \A h \in Handler : handling[h].at # "idle" => handling[h].event \in Event
    /\ \A h \in Handler : handling[h].at = "enqueue" => handling[h].state \in Event

PushesAreOfChanges ==
    /\ \A e \in Event : pushes[e] # "none" => e <= placed.state
    /\ \A h \in Handler : handling[h].at # "idle" => pushes[handling[h].event] # "none"

LinkedBeforeChange == ~LinkLate /\ origin = "agent" /\ placed.state > 0 => link # "none"

ReadAfterEvent ==
    \A h \in Handler : handling[h].at = "enqueue" => handling[h].state >= handling[h].event

EventsInv ==
    /\ EventShape /\ PushesAreOfChanges /\ LinkedBeforeChange /\ ReadAfterEvent
    /\ ~LinkLate => AckedReachesQueue

(* The order is new, and nothing was pushed.                               *)
LEMMA EventsInitially == OrderEventsInit => EventsInv
<1> SUFFICES ASSUME OrderEventsInit PROVE EventsInv
    OBVIOUS
<1>1. MaxChanges \in Nat
    BY OrderEventsAssumption
<1>2. EventShape
    BY <1>1 DEF OrderEventsInit, EventShape, OrderEventsTypeOK, NoEvent, Event
<1>3. PushesAreOfChanges /\ LinkedBeforeChange /\ ReadAfterEvent /\ AckedReachesQueue
    BY <1>1
       DEF OrderEventsInit, PushesAreOfChanges, LinkedBeforeChange, ReadAfterEvent,
           AckedReachesQueue, NoEvent
<1> QED
    BY <1>2, <1>3 DEF EventsInv

(* The steps around the handlers: a change makes an event that is due.     *)
LEMMA EventsAround ==
    ASSUME EventsInv, ChangeOrder \/ DeleteOrder \/ MoveDomain \/ WriteLink
    PROVE  EventsInv'
<1>0. MaxChanges \in Nat
    BY OrderEventsAssumption
<1>1. CASE ChangeOrder
    <2> DEFINE n == placed.state + 1
    <2>1. /\ placed' = [placed EXCEPT !.state = n] /\ n \in Event
          /\ placed'.state = n
          /\ pushes' = [pushes EXCEPT ![n] = "due"]
          /\ UNCHANGED <<origin, link, domainOf, handling, webhooks, excused>>
          /\ LinkLate \/ origin = "shop" \/ link # "none"
        BY <1>0, <1>1 DEF ChangeOrder, EventsInv, EventShape, OrderEventsTypeOK, Event
    <2>2. EventShape'
        BY <1>0, <2>1 DEF EventsInv, EventShape, OrderEventsTypeOK, Event
    <2>3. PushesAreOfChanges'
        BY <1>0, <2>1
           DEF EventsInv, EventShape, OrderEventsTypeOK, PushesAreOfChanges, Event
    <2>4. LinkedBeforeChange' /\ ReadAfterEvent'
        BY <2>1 DEF EventsInv, LinkedBeforeChange, ReadAfterEvent
    <2>5. (~LinkLate => AckedReachesQueue)'
        BY <2>1 DEF EventsInv, EventShape, OrderEventsTypeOK, AckedReachesQueue
    <2> QED
        BY <2>2, <2>3, <2>4, <2>5 DEF EventsInv
<1>2. CASE DeleteOrder \/ MoveDomain \/ WriteLink
    <2>1. /\ UNCHANGED <<origin, pushes, handling, webhooks, excused>>
          /\ placed' \in [state : 0..MaxChanges, gone : BOOLEAN] /\ placed'.state = placed.state
          /\ domainOf' \in {"ours", "other", "unknown"}
          /\ link' \in {"none", "plain", "hooked"} /\ (link # "none" => link' # "none")
        BY <1>2
           DEF DeleteOrder, MoveDomain, WriteLink, EventsInv, EventShape, OrderEventsTypeOK
    <2>2. EventShape'
        BY <2>1 DEF EventsInv, EventShape, OrderEventsTypeOK
    <2> QED
        BY <2>1, <2>2
           DEF EventsInv, PushesAreOfChanges, LinkedBeforeChange, ReadAfterEvent,
               AckedReachesQueue
<1> QED
    BY <1>1, <1>2

(* A handler goes on, or ends without an answer, or answers an event that  *)
(* no retry could deliver or that has its webhook.                         *)
GoesOn(h, q) ==
    /\ handling' = [handling EXCEPT ![h] = q]
    /\ q \in [at : {"idle", "link", "apply", "resolve", "fetch", "enqueue"},
             event : 0..MaxChanges, state : 0..MaxChanges]
    /\ q.at # "idle" => q.event \in Event /\ pushes[q.event] # "none"
    /\ q.at = "enqueue" => q.state \in Event /\ q.state >= q.event
    /\ UNCHANGED world

(* A handler that only goes on tells nobody anything.                      *)
LEMMA HandlerGoesOn ==
    ASSUME EventsInv, NEW h \in Handler, NEW q, GoesOn(h, q),
           UNCHANGED <<pushes, webhooks, excused>>
    PROVE  EventsInv'
<1>1. EventShape' /\ PushesAreOfChanges' /\ ReadAfterEvent'
    BY DEF GoesOn, world, EventsInv, EventShape, OrderEventsTypeOK, PushesAreOfChanges,
           ReadAfterEvent
<1> QED
    BY <1>1 DEF GoesOn, world, EventsInv, LinkedBeforeChange, AckedReachesQueue

(* A handler may answer 2xx once the webhook is queued, or nothing could   *)
(* deliver it.                                                             *)
LEMMA HandlerAnswers ==
    ASSUME EventsInv, NEW h \in Handler, handling[h].at # "idle", Acknowledge(h),
           UNCHANGED world,
           webhooks \subseteq webhooks', webhooks' \subseteq [event : Event, state : Event],
           excused \subseteq excused', excused' \subseteq Event,
           \/ LinkLate \/ handling[h].event \in excused'
           \/ \E w \in webhooks' : w.event = handling[h].event /\ w.state >= handling[h].event
    PROVE  EventsInv'
<1> DEFINE n == handling[h].event
<1>1. /\ handling' = [handling EXCEPT ![h] = NoEvent]
      /\ pushes' \in {pushes, [pushes EXCEPT ![n] = "acked"]}
      /\ n \in Event /\ UNCHANGED <<placed, origin, link, domainOf>>
    BY DEF Acknowledge, Ends, world, EventsInv, EventShape
<1>2. NoEvent \in [at : {"idle"}, event : 0..MaxChanges, state : 0..MaxChanges]
    BY OrderEventsAssumption DEF NoEvent
<1>3. EventShape'
    BY <1>1, <1>2 DEF EventsInv, EventShape, OrderEventsTypeOK
<1>4. PushesAreOfChanges'
    <2>1. pushes[n] # "none"
        BY DEF EventsInv, PushesAreOfChanges
    <2>2. \A e \in Event : pushes'[e] # "none" <=> pushes[e] # "none"
        BY <1>1, <2>1 DEF EventsInv, EventShape, OrderEventsTypeOK
    <2> QED
        BY <1>1, <1>2, <2>2 DEF EventsInv, EventShape, OrderEventsTypeOK, PushesAreOfChanges
<1>5. LinkedBeforeChange' /\ ReadAfterEvent'
    BY <1>1, <1>2
       DEF EventsInv, EventShape, OrderEventsTypeOK, LinkedBeforeChange, ReadAfterEvent
<1>6. (~LinkLate => AckedReachesQueue)'
    BY <1>1 DEF EventsInv, EventShape, OrderEventsTypeOK, AckedReachesQueue
<1> QED
    BY <1>3, <1>4, <1>5, <1>6 DEF EventsInv

(* An order with an event and no link is the shop's own, or its link late. *)
LEMMA UnlinkedIsOfShop ==
    ASSUME EventsInv, NEW h \in Handler, handling[h].at # "idle", link = "none"
    PROVE  LinkLate \/ origin = "shop"
<1> DEFINE n == handling[h].event
<1>1. n \in Event /\ pushes[n] # "none"
    BY DEF EventsInv, EventShape, PushesAreOfChanges
<1>2. n <= placed.state /\ n > 0 /\ placed.state \in Nat
    BY <1>1, OrderEventsAssumption
       DEF EventsInv, EventShape, OrderEventsTypeOK, PushesAreOfChanges, Event
<1> QED
    BY <1>2 DEF EventsInv, EventShape, OrderEventsTypeOK, LinkedBeforeChange

(* An event that is dropped has its excuse, or its link is late.           *)
LEMMA DropStep ==
    ASSUME EventsInv, NEW h \in Handler, handling[h].at # "idle",
           NEW final \in BOOLEAN, DropPush(h, final), LinkLate \/ final, UNCHANGED <<world, webhooks>>
    PROVE  EventsInv'
<1>1. /\ Acknowledge(h) /\ handling[h].event \in Event
      /\ excused' = IF final THEN excused \cup {handling[h].event} ELSE excused
    BY DEF DropPush, EventsInv, EventShape
<1>2. excused \subseteq Event /\ webhooks \subseteq [event : Event, state : Event]
    BY DEF EventsInv, EventShape, OrderEventsTypeOK
<1> QED
    BY <1>1, <1>2, HandlerAnswers

(* The next step of a handler keeps what it has.                           *)
LEMMA ProceedStep ==
    ASSUME EventsInv, NEW h \in Handler, handling[h].at # "idle",
           NEW at \in {"link", "apply", "resolve", "fetch"}, Proceed(h, at),
           UNCHANGED <<world, webhooks>>
    PROVE  EventsInv'
<1> DEFINE q == [handling[h] EXCEPT !.at = at]
<1>1. /\ handling[h] \in [at : {"idle", "link", "apply", "resolve", "fetch", "enqueue"},
                          event : 0..MaxChanges, state : 0..MaxChanges]
      /\ handling[h].event \in Event /\ pushes[handling[h].event] # "none"
    BY DEF EventsInv, EventShape, OrderEventsTypeOK, PushesAreOfChanges
<1>2. /\ q \in [at : {"link", "apply", "resolve", "fetch"},
                event : 0..MaxChanges, state : 0..MaxChanges]
      /\ q.event = handling[h].event
      /\ handling' = [handling EXCEPT ![h] = q] /\ UNCHANGED <<pushes, excused>>
    BY <1>1 DEF Proceed
<1> HIDE DEF q
<1>3. GoesOn(h, q)
    BY <1>1, <1>2 DEF GoesOn
<1> QED
    BY <1>2, <1>3, HandlerGoesOn

(* Every step of the endpoint: it goes on, drops or answers.               *)
LEMMA HandlerStep ==
    ASSUME EventsInv, NEW h \in Handler,
           \/ \E e \in Event : PushEvent(h, e)
           \/ RetryPush(h) \/ ReadLink(h) \/ ApplyEvent(h) \/ ResolveStore(h) \/ FetchOrder(h)
           \/ EnqueueWebhook(h)
    PROVE  EventsInv'
<1>0. /\ MaxChanges \in Nat /\ placed \in [state : 0..MaxChanges, gone : BOOLEAN]
      /\ webhooks \subseteq [event : Event, state : Event] /\ excused \subseteq Event
      /\ Event \subseteq 0..MaxChanges
    BY OrderEventsAssumption DEF EventsInv, EventShape, OrderEventsTypeOK, Event
<1>1. ASSUME NEW e \in Event, PushEvent(h, e) PROVE EventsInv'
    <2> DEFINE q == [at |-> "link", event |-> e, state |-> 0]
    <2>1. /\ handling' = [handling EXCEPT ![h] = q] /\ pushes[e] # "none"
          /\ UNCHANGED <<world, pushes, webhooks, excused>>
        BY <1>1 DEF PushEvent
    <2>2. /\ q \in [at : {"link"}, event : 0..MaxChanges, state : 0..MaxChanges]
          /\ q.event = e
        BY <1>0
    <2> HIDE DEF q
    <2>3. GoesOn(h, q)
        BY <2>1, <2>2 DEF GoesOn
    <2> QED
        BY <2>1, <2>3, HandlerGoesOn
<1>2. CASE RetryPush(h)
    <2>1. /\ handling' = [handling EXCEPT ![h] = NoEvent]
          /\ UNCHANGED <<world, pushes, webhooks, excused>>
        BY <1>2 DEF RetryPush, Ends
    <2>2. NoEvent \in [at : {"idle"}, event : 0..MaxChanges, state : 0..MaxChanges]
        BY <1>0 DEF NoEvent
    <2>3. GoesOn(h, NoEvent)
        BY <2>1, <2>2 DEF GoesOn
    <2> QED
        BY <2>1, <2>3, HandlerGoesOn
<1>3. CASE ReadLink(h)
    <2>1. link = "none" => LinkLate \/ origin = "shop"
        BY <1>3, UnlinkedIsOfShop DEF ReadLink
    <2>2. CASE link = "none"
        <3>1. /\ DropPush(h, origin = "shop") /\ handling[h].at # "idle"
              /\ UNCHANGED <<world, webhooks>>
            BY <1>3, <2>2 DEF ReadLink
        <3> QED
            BY <2>1, <2>2, <3>1, DropStep
    <2>3. CASE link # "none"
        <3>1. Proceed(h, "apply") /\ handling[h].at # "idle" /\ UNCHANGED <<world, webhooks>>
            BY <1>3, <2>3 DEF ReadLink
        <3> QED
            BY <3>1, ProceedStep
    <2> QED
        BY <2>2, <2>3
<1>4. CASE ApplyEvent(h)
    <2>1. /\ DropPush(h, TRUE) \/ Proceed(h, "resolve")
          /\ handling[h].at # "idle" /\ UNCHANGED <<world, webhooks>>
        BY <1>4 DEF ApplyEvent
    <2> QED
        BY <2>1, DropStep, ProceedStep
<1>5. CASE ResolveStore(h)
    <2>1. /\ DropPush(h, TRUE) \/ Proceed(h, "fetch")
          /\ handling[h].at # "idle" /\ UNCHANGED <<world, webhooks>>
        BY <1>5 DEF ResolveStore
    <2> QED
        BY <2>1, DropStep, ProceedStep
<1>6. CASE FetchOrder(h)
    <2> DEFINE g == [handling[h] EXCEPT !.at = "enqueue"]
               q == [g EXCEPT !.state = placed.state]
    <2>1. /\ handling[h] \in [at : {"idle", "link", "apply", "resolve", "fetch", "enqueue"},
                              event : 0..MaxChanges, state : 0..MaxChanges]
          /\ handling[h].event \in Event /\ pushes[handling[h].event] # "none"
          /\ handling[h].at # "idle" /\ UNCHANGED <<world, webhooks>>
        BY <1>6 DEF FetchOrder, EventsInv, EventShape, OrderEventsTypeOK, PushesAreOfChanges
    <2>2. handling[h].event <= placed.state /\ placed.state \in 0..MaxChanges
        BY <1>0, <2>1 DEF EventsInv, PushesAreOfChanges
    <2>3. placed.state \in Event
        BY <1>0, <2>1, <2>2 DEF Event
    <2>4. CASE DropPush(h, TRUE)
        BY <2>1, <2>4, DropStep
    <2>5. CASE ~DropPush(h, TRUE)
        <3>1. handling' = [handling EXCEPT ![h] = q] /\ UNCHANGED <<pushes, excused>>
            BY <1>6, <2>5 DEF FetchOrder, EventsInv, EventShape, OrderEventsTypeOK
        <3>2. /\ q \in [at : {"enqueue"}, event : 0..MaxChanges, state : 0..MaxChanges]
              /\ q.event = handling[h].event /\ q.state = placed.state
            <4>1. /\ g \in [at : {"enqueue"}, event : 0..MaxChanges, state : 0..MaxChanges]
                  /\ g.event = handling[h].event
                BY <2>1
            <4> HIDE DEF g
            <4> QED
                BY <4>1, <2>2
        <3> HIDE DEF q
        <3>3. GoesOn(h, q)
            BY <1>0, <2>1, <2>2, <2>3, <3>1, <3>2 DEF GoesOn, Event
        <3> QED
            BY <2>1, <3>1, <3>3, HandlerGoesOn
    <2> QED
        BY <2>4, <2>5
<1>7. CASE EnqueueWebhook(h)
    <2>1. /\ handling[h].at = "enqueue" /\ UNCHANGED <<world, excused>>
          /\ webhooks' = webhooks \cup {Webhook(h)}
          /\ Webhook(h) \in [event : Event, state : Event]
          /\ Webhook(h).event = handling[h].event /\ Webhook(h).state >= handling[h].event
        BY <1>7 DEF EnqueueWebhook, Webhook, EventsInv, EventShape, ReadAfterEvent
    <2>2. CASE Acknowledge(h)
        BY <1>0, <2>1, <2>2, HandlerAnswers
    <2>3. CASE Ends(h) /\ UNCHANGED pushes
        <3>1. Acknowledge(h)
            BY <2>3 DEF Acknowledge
        <3> QED
            BY <1>0, <2>1, <3>1, HandlerAnswers
    <2> QED
        BY <1>7, <2>2, <2>3 DEF EnqueueWebhook
<1> QED
    BY <1>1, <1>2, <1>3, <1>4, <1>5, <1>6, <1>7

(* Every step keeps the invariant.                                         *)
LEMMA EventsStep == EventsInv /\ [OrderEventsNext]_orderEventVars => EventsInv'
<1> SUFFICES ASSUME EventsInv, [OrderEventsNext]_orderEventVars PROVE EventsInv'
    OBVIOUS
<1>1. CASE UNCHANGED orderEventVars
    BY <1>1
       DEF orderEventVars, EventsInv, EventShape, OrderEventsTypeOK, PushesAreOfChanges,
           LinkedBeforeChange, ReadAfterEvent, AckedReachesQueue
<1> QED
    BY <1>1, EventsAround, HandlerStep DEF OrderEventsNext

(* With the link of an order written before the order changes: an event    *)
(* that Django was told is done, and that a retry could have delivered,    *)
(* has its webhook, of the order as it was then or later, for any number   *)
(* of handlers, changes, retries and lost answers.                         *)
THEOREM EventsReachTheQueue ==
    ASSUME LinkLate = FALSE
    PROVE  OrderEventsSpec => []AckedReachesQueue
<1>1. EventsInv => AckedReachesQueue
    BY DEF EventsInv
<1> QED
    BY <1>1, EventsInitially, EventsStep, PTL DEF OrderEventsSpec

-----------------------------------------------------------------------------
(* Carts.  What a tool call has confirmed before it reads the cart back    *)
(* stays told; nothing is confirmed before it is sent; and a guest's call  *)
(* has the id of a cart, but where it makes one.                           *)
Confirmed ==
    /\ tool.at = "read" /\ tool.hit # "none" => tool.call \in Changing /\ turn.mutated
    /\ tool.at = "send" => tool.call \in Changing /\ tool.hit = "none"

GuestNames ==
    tool.at \in {"read", "send"} /\ ~turn.signedIn /\ tool.call # "create" /\ tool.id = "none" =>
        tool.at = "read" /\ tool.call = "add" /\ tool.hit = "none"

CartsInv == CartsTypeOK /\ Confirmed /\ GuestNames /\ AcceptedIsTold

ToolType ==
    [at : {"idle", "read", "send", "done"}, call : Changing \cup Reading \cup {"none"},
     id : Named, product : Product, tries : 1..MaxTries, hit : Named,
     answer : {"none", "shown", "readBack", "denied", "down"}, shown : Named]

(* No call, and the call that has its answer.                              *)
LEMMA NoToolIsTool == NoTool \in ToolType /\ NoTool.at = "idle" /\ NoTool.hit = "none"
BY CartsAssumption DEF NoTool, ToolType, Named, Kept

(* An answer keeps the call it is the answer to.                           *)
LEMMA AnswerIsTool ==
    ASSUME tool \in ToolType, NEW x \in {"shown", "readBack", "denied", "down"}, NEW c \in Named
    PROVE  /\ ToolAnswer(x, c) \in ToolType
           /\ ToolAnswer(x, c).at = "done" /\ ToolAnswer(x, c).answer = x
           /\ ToolAnswer(x, c).shown = c /\ ToolAnswer(x, c).hit = tool.hit
           /\ ToolAnswer(x, c).call = tool.call /\ ToolAnswer(x, c).id = tool.id
<1> DEFINE f == [tool EXCEPT !.at = "done"]
           g == [f EXCEPT !.answer = x]
<1>1. /\ f \in ToolType /\ f.at = "done" /\ f.hit = tool.hit /\ f.call = tool.call
      /\ f.id = tool.id
    BY DEF ToolType
<1>2. ToolAnswer(x, c) = [g EXCEPT !.shown = c]
    BY DEF ToolAnswer
<1> HIDE DEF f
<1>3. /\ g \in ToolType /\ g.at = "done" /\ g.answer = x /\ g.hit = tool.hit
      /\ g.call = tool.call /\ g.id = tool.id
    BY <1>1 DEF ToolType
<1> HIDE DEF g
<1> QED
    BY <1>2, <1>3 DEF ToolType

(* The shop is as it is, and no tool has been called.                      *)
LEMMA CartsInitially == CartsInit => CartsInv
<1> SUFFICES ASSUME CartsInit PROVE CartsInv
    OBVIOUS
<1>1. CartsTypeOK
    BY CartsAssumption, NoToolIsTool
       DEF CartsInit, CartsTypeOK, ToolType, NewTurn, EmptyCart
<1> QED
    BY <1>1, NoToolIsTool DEF CartsInit, CartsInv, Confirmed, GuestNames, AcceptedIsTold

(* The cart that a call acts on: the shopper's own with a token, and the   *)
(* one it names, or a stray, without.                                      *)
LEMMA TargetServes ==
    ASSUME CartsInv
    PROVE  LET t == Target(tool.id) IN
           /\ t.token <=> turn.signedIn
           /\ turn.signedIn => ServedTo(t) = "own" /\ ~Makes(t)
           /\ ~turn.signedIn =>
                 /\ ServedTo(t) \in {"guest", "stray"} /\ t.named = tool.id
                 /\ Makes(t) <=> tool.id = "none"
                 /\ tool.id # "none" /\ ServedNamed(t, ServedTo(t)) => ServedTo(t) = tool.id
           /\ ServedTo(t) \in {"own", "guest", "stray"} /\ Made \in {"guest", "stray"}
<1>1. turn \in [signedIn : BOOLEAN, refused : BOOLEAN, mutated : BOOLEAN]
    BY DEF CartsInv, CartsTypeOK
<1> QED
    BY <1>1 DEF Target, ServedTo, Reached, ServedNamed, Makes, Made

(* A call that begins has confirmed nothing.                               *)
LEMMA CallToolStep ==
    ASSUME CartsInv, NEW call1 \in Changing \cup Reading, NEW id \in {"none"} \cup Kept,
           NEW p \in Product, CallTool(call1, id, p)
    PROVE  CartsInv'
<1> DEFINE at == IF call1 \in Reading \/ (call1 = "add" /\ id = "none" /\ ~turn.signedIn)
                 THEN "read" ELSE "send"
           f == [NoTool EXCEPT !.call = call1]
           g == [f EXCEPT !.id = id]
           h == [g EXCEPT !.product = p]
<1>1. UNCHANGED <<lines, coupon, guest, valid, turn>>
    BY DEF CallTool, shop
<1>2. f \in ToolType /\ f.call = call1 /\ f.hit = "none"
    BY NoToolIsTool DEF ToolType
<1>3. tool' = [h EXCEPT !.at = at]
    BY DEF CallTool
<1> HIDE DEF f
<1>4. g \in ToolType /\ g.call = call1 /\ g.id = id /\ g.hit = "none"
    BY <1>2 DEF ToolType, Named
<1> HIDE DEF g
<1>5. h \in ToolType /\ h.call = call1 /\ h.id = id /\ h.hit = "none"
    BY <1>4 DEF ToolType
<1> HIDE DEF h
<1>6. /\ tool' \in ToolType /\ tool'.at = at /\ tool'.call = call1 /\ tool'.id = id
      /\ tool'.hit = "none"
    BY <1>3, <1>5 DEF ToolType
<1>7. id = "none" => turn.signedIn \/ call1 \in {"create", "add"}
    BY DEF CallTool
<1>8. CartsTypeOK'
    BY <1>1, <1>6 DEF CartsInv, CartsTypeOK, ToolType
<1>9. Confirmed' /\ GuestNames' /\ AcceptedIsTold'
    BY <1>1, <1>6, <1>7 DEF Confirmed, GuestNames, AcceptedIsTold, Changing, Reading
<1> QED
    BY <1>8, <1>9 DEF CartsInv

(* A step that ends in an answer keeps the invariant, if it tells what the *)
(* call confirmed and shows the right cart.                                *)
LEMMA AnswerStep ==
    ASSUME CartsInv, NEW x \in {"shown", "readBack", "denied", "down"}, NEW c \in Named,
           tool' = ToolAnswer(x, c),
           tool.hit # "none" => x \in {"shown", "readBack"} /\ turn'.mutated,
           x = "shown" /\ tool.call # "create" =>
               c = IF turn.signedIn THEN "own" ELSE tool.id,
           turn'.signedIn = turn.signedIn,
           turn' \in [signedIn : BOOLEAN, refused : BOOLEAN, mutated : BOOLEAN],
           lines' \in [Kept -> [Product -> 0..MaxQty]], coupon' \in [Kept -> Code \cup {NoCode}],
           guest' \in {"none", "open", "gone"}, valid' \in BOOLEAN
    PROVE  CartsInv'
<1>1. tool \in ToolType
    BY DEF CartsInv, CartsTypeOK, ToolType
<1>2. /\ tool' \in ToolType /\ tool'.at = "done" /\ tool'.answer = x /\ tool'.shown = c
      /\ tool'.hit = tool.hit /\ tool'.call = tool.call /\ tool'.id = tool.id
    BY <1>1, AnswerIsTool
<1>3. CartsTypeOK'
    BY <1>2 DEF CartsTypeOK, ToolType
<1> QED
    BY <1>2, <1>3 DEF CartsInv, Confirmed, GuestNames, AcceptedIsTold

(* What the invariant says of the types.                                   *)
LEMMA CartsFacts ==
    ASSUME CartsInv
    PROVE  /\ lines \in [Kept -> [Product -> 0..MaxQty]] /\ coupon \in [Kept -> Code \cup {NoCode}]
           /\ guest \in {"none", "open", "gone"} /\ valid \in BOOLEAN
           /\ turn \in [signedIn : BOOLEAN, refused : BOOLEAN, mutated : BOOLEAN]
           /\ tool \in ToolType
BY DEF CartsInv, CartsTypeOK, ToolType

(* A read shows the cart, makes one for an add, or says what it cannot.    *)
LEMMA ReadCartStep == CartsInv /\ ReadCart => CartsInv'
<1> SUFFICES ASSUME CartsInv, ReadCart PROVE CartsInv'
    OBVIOUS
<1> DEFINE t == Target(tool.id)
           served == IF Makes(t) THEN Made ELSE ServedTo(t)
           x == IF tool.call \in Changing /\ tool.hit # "none" THEN "readBack" ELSE "denied"
<1>0. /\ lines \in [Kept -> [Product -> 0..MaxQty]] /\ coupon \in [Kept -> Code \cup {NoCode}]
      /\ guest \in {"none", "open", "gone"} /\ valid \in BOOLEAN
      /\ turn \in [signedIn : BOOLEAN, refused : BOOLEAN, mutated : BOOLEAN]
      /\ tool \in ToolType
    BY CartsFacts
<1>1. /\ tool.at = "read" /\ UNCHANGED <<lines, coupon, valid>>
      /\ guest' \in {"none", "open", "gone"}
      /\ turn' \in [signedIn : BOOLEAN, refused : BOOLEAN, mutated : BOOLEAN]
      /\ turn'.signedIn = turn.signedIn /\ (turn.mutated => turn'.mutated)
    BY <1>0 DEF ReadCart
<1>2. /\ \/ ~ServedNamed(t, served) /\ tool' = ToolAnswer(x, "none")
         \/ /\ tool.call = "add" /\ tool.hit = "none"
            /\ tool' = [tool EXCEPT !.at = "send", !.id = served, !.tries = 1]
         \/ /\ ServedNamed(t, served) /\ ~(tool.call = "add" /\ tool.hit = "none")
            /\ tool' = ToolAnswer("shown", served)
    BY DEF ReadCart
<1>3. served \in {"own", "guest", "stray"}
    BY TargetServes
<1>4. tool.hit # "none" => tool.call \in Changing /\ turn'.mutated
    BY <1>1 DEF CartsInv, Confirmed
<1>5. ASSUME ServedNamed(t, served), ~(tool.call = "add" /\ tool.hit = "none"), tool.call # "create"
      PROVE  served = IF turn.signedIn THEN "own" ELSE tool.id
    <2>1. ~turn.signedIn => tool.id # "none"
        BY <1>1, <1>5 DEF CartsInv, GuestNames
    <2> QED
        BY <1>0, <1>5, <2>1, TargetServes
<1> HIDE DEF served
<1>6. CASE ~ServedNamed(t, served) /\ tool' = ToolAnswer(x, "none")
    <2>1. /\ x \in {"readBack", "denied"} /\ (tool.hit # "none" => x = "readBack")
          /\ "none" \in Named
        BY <1>4 DEF Named
    <2> HIDE DEF x
    <2> QED
        BY <1>0, <1>1, <1>4, <1>6, <2>1, AnswerStep
<1>7. CASE /\ tool.call = "add" /\ tool.hit = "none"
           /\ tool' = [tool EXCEPT !.at = "send", !.id = served, !.tries = 1]
    <2> DEFINE f == [tool EXCEPT !.at = "send"]
               g == [f EXCEPT !.id = served]
    <2>1. f \in ToolType /\ f.at = "send" /\ f.call = "add" /\ f.hit = "none"
        BY <1>0, <1>7 DEF ToolType
    <2>2. tool' = [g EXCEPT !.tries = 1]
        BY <1>7
    <2> HIDE DEF f
    <2>3. g \in ToolType /\ g.at = "send" /\ g.call = "add" /\ g.hit = "none" /\ g.id = served
        BY <1>3, <2>1 DEF ToolType, Named, Kept
    <2> HIDE DEF g
    <2>4. /\ tool' \in ToolType /\ tool'.at = "send" /\ tool'.call = "add" /\ tool'.hit = "none"
          /\ tool'.id = served
        BY <2>2, <2>3, CartsAssumption DEF ToolType
    <2>5. CartsTypeOK'
        BY <1>0, <1>1, <2>4 DEF CartsTypeOK, ToolType
    <2> QED
        BY <1>3, <2>4, <2>5 DEF CartsInv, Confirmed, GuestNames, AcceptedIsTold, Changing
<1>8. CASE /\ ServedNamed(t, served) /\ ~(tool.call = "add" /\ tool.hit = "none")
           /\ tool' = ToolAnswer("shown", served)
    <2>1. served \in Named
        BY <1>3 DEF Named, Kept
    <2> QED
        BY <1>0, <1>1, <1>4, <1>5, <1>8, <2>1, AnswerStep
<1> QED
    BY <1>2, <1>6, <1>7, <1>8

(* Where a call is refused, the turn remembers it, and is the same else.   *)
LEMMA RefusalNoted ==
    ASSUME NEW refused \in BOOLEAN, CartsInv, turn' = [turn EXCEPT !.refused = @ \/ refused]
    PROVE  /\ turn' \in [signedIn : BOOLEAN, refused : BOOLEAN, mutated : BOOLEAN]
           /\ turn'.signedIn = turn.signedIn /\ turn'.mutated = turn.mutated
<1>1. turn \in [signedIn : BOOLEAN, refused : BOOLEAN, mutated : BOOLEAN]
    BY CartsFacts
<1>2. (turn.refused \/ refused) \in BOOLEAN
    OBVIOUS
<1>3. turn' = [turn EXCEPT !.refused = (turn.refused \/ refused)]
    OBVIOUS
<1> QED
    BY <1>1, <1>2, <1>3

(* A failed read tells what was confirmed before it, or tries again.       *)
LEMMA ReadFailsStep == CartsInv /\ ReadFails => CartsInv'
<1> SUFFICES ASSUME CartsInv, ReadFails PROVE CartsInv'
    OBVIOUS
<1> DEFINE t == Target(tool.id)
           refused == t.send /\ t.token /\ ~valid
           x == IF tool.hit # "none" THEN "readBack" ELSE "denied"
<1>0. /\ lines \in [Kept -> [Product -> 0..MaxQty]] /\ coupon \in [Kept -> Code \cup {NoCode}]
      /\ guest \in {"none", "open", "gone"} /\ valid \in BOOLEAN
      /\ tool \in ToolType
    BY CartsFacts
<1>1. /\ tool.at = "read" /\ UNCHANGED <<lines, coupon, guest, valid>>
      /\ turn' = [turn EXCEPT !.refused = @ \/ refused]
      /\ \/ tool' = ToolAnswer(x, "none")
         \/ tool' = [tool EXCEPT !.tries = @ + 1] /\ tool.tries < MaxTries
    BY DEF ReadFails, shop
<1>2. refused \in BOOLEAN
    OBVIOUS
<1> HIDE DEF refused
<1>3. /\ turn' \in [signedIn : BOOLEAN, refused : BOOLEAN, mutated : BOOLEAN]
      /\ turn'.signedIn = turn.signedIn /\ turn'.mutated = turn.mutated
    BY <1>1, <1>2, RefusalNoted
<1>4. tool.hit # "none" => tool.call \in Changing /\ turn'.mutated
    BY <1>1, <1>3 DEF CartsInv, Confirmed
<1>5. CASE tool' = ToolAnswer(x, "none")
    <2>1. /\ x \in {"readBack", "denied"} /\ (tool.hit # "none" => x = "readBack")
          /\ "none" \in Named
        BY DEF Named
    <2> HIDE DEF x
    <2> QED
        BY <1>0, <1>1, <1>3, <1>4, <1>5, <2>1, AnswerStep
<1>6. CASE tool' = [tool EXCEPT !.tries = @ + 1] /\ tool.tries < MaxTries
    <2>1. tool.tries + 1 \in 1..MaxTries
        BY <1>0, <1>6, CartsAssumption DEF ToolType
    <2>2. /\ tool' \in ToolType /\ tool'.at = "read" /\ tool'.call = tool.call
          /\ tool'.hit = tool.hit /\ tool'.id = tool.id
        BY <1>0, <1>1, <1>6, <2>1 DEF ToolType
    <2>3. CartsTypeOK'
        BY <1>0, <1>1, <1>3, <2>2 DEF CartsTypeOK, ToolType
    <2>4. GuestNames'
        BY <1>1, <1>3, <2>2 DEF CartsInv, GuestNames
    <2> QED
        BY <1>3, <1>4, <2>2, <2>3, <2>4 DEF CartsInv, Confirmed, AcceptedIsTold
<1> QED
    BY <1>1, <1>5, <1>6

(* A change that arrives changes the cart it is for, and no other.         *)
LEMMA DoChangesOne ==
    ASSUME CartsInv, tool.at = "send", NEW c \in {"own", "guest", "stray"}, Do(c)
    PROVE  /\ lines' \in [Kept -> [Product -> 0..MaxQty]] /\ coupon' \in [Kept -> Code \cup {NoCode}]
           /\ \A k \in Kept \ {c} : lines'[k] = lines[k] /\ coupon'[k] = coupon[k]
<1>0. /\ lines \in [Kept -> [Product -> 0..MaxQty]] /\ coupon \in [Kept -> Code \cup {NoCode}]
      /\ tool.product \in Product /\ MaxQty \in Nat
    BY CartsFacts, CartsAssumption DEF ToolType
<1>1. tool.call \in Changing
    BY DEF CartsInv, Confirmed
<1>2. ASSUME NEW q, Put(c, tool.product, q), c \in Kept => q \in 0..MaxQty
      PROVE  /\ lines' \in [Kept -> [Product -> 0..MaxQty]]
             /\ \A k \in Kept \ {c} : lines'[k] = lines[k]
    BY <1>0, <1>2 DEF Put
<1>3. ASSUME NEW x \in Code \cup {NoCode}, Attach(c, x)
      PROVE  /\ coupon' \in [Kept -> Code \cup {NoCode}]
             /\ \A k \in Kept \ {c} : coupon'[k] = coupon[k]
    BY <1>0, <1>3 DEF Attach
<1>4. CASE tool.call = "add"
    <2> DEFINE q == IF c \in Kept THEN lines[c][tool.product] + 1 ELSE 1
    <2>1. Put(c, tool.product, q) /\ UNCHANGED coupon
        BY <1>4 DEF Do, DoAdd
    <2>2. c \in Kept => lines[c][tool.product] + 1 <= MaxQty
        BY <1>4 DEF Do, DoAdd
    <2>3. c \in Kept => q \in 0..MaxQty
        BY <1>0, <2>2
    <2> HIDE DEF q
    <2> QED
        BY <1>0, <1>2, <2>1, <2>3
<1>5. CASE tool.call = "update"
    <2>1. PICK q \in 1..MaxQty : Put(c, tool.product, q) /\ UNCHANGED coupon
        BY <1>5 DEF Do, DoUpdate
    <2>2. q \in 0..MaxQty
        BY <1>0
    <2> QED
        BY <1>0, <1>2, <2>1, <2>2
<1>6. CASE tool.call = "remove"
    <2>1. Put(c, tool.product, 0) /\ UNCHANGED coupon /\ 0 \in 0..MaxQty
        BY <1>0, <1>6 DEF Do, DoRemove
    <2> QED
        BY <1>0, <1>2, <2>1
<1>7. CASE tool.call = "apply"
    <2>1. PICK x \in Code : Attach(c, x) /\ UNCHANGED lines
        BY <1>7 DEF Do
    <2> QED
        BY <1>0, <1>3, <2>1
<1>8. CASE tool.call = "unapply"
    <2>1. Attach(c, NoCode) /\ UNCHANGED lines
        BY <1>8 DEF Do
    <2> QED
        BY <1>0, <1>3, <2>1
<1> QED
    BY <1>1, <1>4, <1>5, <1>6, <1>7, <1>8 DEF Changing

(* A change that was accepted is recorded before the cart is read back.    *)
LEMMA SendChangeStep == CartsInv /\ SendChange => CartsInv'
<1> SUFFICES ASSUME CartsInv, SendChange PROVE CartsInv'
    OBVIOUS
<1> DEFINE t == Target(tool.id)
           served == ServedTo(t)
<1>0. /\ guest \in {"none", "open", "gone"} /\ valid \in BOOLEAN
      /\ turn \in [signedIn : BOOLEAN, refused : BOOLEAN, mutated : BOOLEAN]
      /\ tool \in ToolType
    BY CartsFacts
<1>1. tool.at = "send" /\ Do(served) /\ UNCHANGED <<guest, valid>>
    BY DEF SendChange
<1>2. served \in {"own", "guest", "stray"} /\ served \in Named /\ "none" \in Named
    BY TargetServes DEF Named, Kept
<1>3. tool.hit = "none" /\ tool.call \in Changing
    BY <1>1 DEF CartsInv, Confirmed
<1>4. ServedNamed(t, served) => served = IF turn.signedIn THEN "own" ELSE tool.id
    <2>1. ~turn.signedIn => tool.id # "none"
        BY <1>1, <1>3 DEF CartsInv, GuestNames, Changing
    <2> QED
        BY <1>0, <2>1, TargetServes
<1>5. /\ lines' \in [Kept -> [Product -> 0..MaxQty]]
      /\ coupon' \in [Kept -> Code \cup {NoCode}]
    BY <1>1, <1>2, DoChangesOne
<1>6. \/ tool' = ToolAnswer("denied", "none") /\ turn' = turn
      \/ tool' = ToolAnswer("down", "none") /\ turn' = turn
      \/ /\ ServedNamed(t, served) /\ turn' = [turn EXCEPT !.mutated = TRUE]
         /\ \/ tool' = [ToolAnswer("shown", served) EXCEPT !.hit = served]
            \/ tool' = [tool EXCEPT !.at = "read", !.hit = served, !.tries = 1]
    BY DEF SendChange, Accepted
<1> HIDE DEF served
<1>7. CASE /\ tool' = ToolAnswer("denied", "none") \/ tool' = ToolAnswer("down", "none")
           /\ turn' = turn
    BY <1>0, <1>1, <1>2, <1>3, <1>5, <1>7, AnswerStep
<1>8. ASSUME ServedNamed(t, served), turn' = [turn EXCEPT !.mutated = TRUE]
      PROVE  /\ turn' \in [signedIn : BOOLEAN, refused : BOOLEAN, mutated : BOOLEAN]
             /\ turn'.signedIn = turn.signedIn /\ turn'.mutated
    BY <1>0, <1>8
<1>9. CASE /\ ServedNamed(t, served) /\ turn' = [turn EXCEPT !.mutated = TRUE]
           /\ tool' = [ToolAnswer("shown", served) EXCEPT !.hit = served]
    <2> DEFINE f == ToolAnswer("shown", served)
    <2>1. /\ f \in ToolType /\ f.at = "done" /\ f.answer = "shown" /\ f.shown = served
          /\ f.call = tool.call /\ f.id = tool.id
        BY <1>0, <1>2, AnswerIsTool
    <2> HIDE DEF f
    <2>2. tool' = [f EXCEPT !.hit = served]
        BY <1>9 DEF f
    <2>3. /\ tool' \in ToolType /\ tool'.at = "done" /\ tool'.answer = "shown"
          /\ tool'.shown = served /\ tool'.call = tool.call /\ tool'.id = tool.id
        BY <1>2, <2>1, <2>2 DEF ToolType
    <2>4. CartsTypeOK'
        BY <1>0, <1>1, <1>5, <1>8, <1>9, <2>3 DEF CartsTypeOK, ToolType
    <2> QED
        BY <1>4, <1>8, <1>9, <2>3, <2>4 DEF CartsInv, Confirmed, GuestNames, AcceptedIsTold
<1>10. CASE /\ ServedNamed(t, served) /\ turn' = [turn EXCEPT !.mutated = TRUE]
            /\ tool' = [tool EXCEPT !.at = "read", !.hit = served, !.tries = 1]
    <2> DEFINE f == [tool EXCEPT !.at = "read"]
               g == [f EXCEPT !.hit = served]
    <2>1. f \in ToolType /\ f.at = "read" /\ f.call = tool.call /\ f.id = tool.id
        BY <1>0 DEF ToolType
    <2>2. tool' = [g EXCEPT !.tries = 1]
        BY <1>10
    <2> HIDE DEF f
    <2>3. /\ g \in ToolType /\ g.at = "read" /\ g.call = tool.call /\ g.id = tool.id
          /\ g.hit = served
        BY <1>2, <2>1 DEF ToolType
    <2> HIDE DEF g
    <2>4. /\ tool' \in ToolType /\ tool'.at = "read" /\ tool'.call = tool.call
          /\ tool'.id = tool.id /\ tool'.hit = served
        BY <2>2, <2>3, CartsAssumption DEF ToolType
    <2>5. CartsTypeOK'
        BY <1>0, <1>1, <1>5, <1>8, <1>10, <2>4 DEF CartsTypeOK, ToolType
    <2>6. ~turn.signedIn => tool.id # "none"
        BY <1>1, <1>3 DEF CartsInv, GuestNames, Changing
    <2> QED
        BY <1>3, <1>8, <1>10, <2>4, <2>5, <2>6
           DEF CartsInv, Confirmed, GuestNames, AcceptedIsTold
<1> QED
    BY <1>6, <1>7, <1>9, <1>10

(* A change that is not sent, is refused or does not arrive confirms       *)
(* nothing.                                                                *)
LEMMA SendFailsStep == CartsInv /\ SendFails => CartsInv'
<1> SUFFICES ASSUME CartsInv, SendFails PROVE CartsInv'
    OBVIOUS
<1> DEFINE t == Target(tool.id)
           refused == t.send /\ t.token /\ ~valid
<1>0. /\ lines \in [Kept -> [Product -> 0..MaxQty]] /\ coupon \in [Kept -> Code \cup {NoCode}]
      /\ guest \in {"none", "open", "gone"} /\ valid \in BOOLEAN
    BY CartsFacts
<1>1. /\ tool.at = "send" /\ UNCHANGED <<lines, coupon, guest, valid>>
      /\ turn' = [turn EXCEPT !.refused = @ \/ refused]
      /\ tool' \in {ToolAnswer("denied", "none"), ToolAnswer("down", "none")}
    BY DEF SendFails, shop
<1>2. refused \in BOOLEAN /\ "none" \in Named
    BY DEF Named
<1> HIDE DEF refused
<1>3. /\ turn' \in [signedIn : BOOLEAN, refused : BOOLEAN, mutated : BOOLEAN]
      /\ turn'.signedIn = turn.signedIn
    BY <1>1, <1>2, RefusalNoted
<1>4. tool.hit = "none"
    BY <1>1 DEF CartsInv, Confirmed
<1> QED
    BY <1>0, <1>1, <1>2, <1>3, <1>4, AnswerStep

(* The steps between calls and around them.                                *)
LEMMA CartsAround ==
    CartsInv /\ (ToolEnds \/ BeginTurn \/ RevokeToken \/ LoseGuestCart) => CartsInv'
<1> SUFFICES ASSUME CartsInv, ToolEnds \/ BeginTurn \/ RevokeToken \/ LoseGuestCart
             PROVE  CartsInv'
    OBVIOUS
<1>0. /\ lines \in [Kept -> [Product -> 0..MaxQty]] /\ coupon \in [Kept -> Code \cup {NoCode}]
      /\ guest \in {"none", "open", "gone"} /\ valid \in BOOLEAN
      /\ turn \in [signedIn : BOOLEAN, refused : BOOLEAN, mutated : BOOLEAN]
      /\ tool \in ToolType
    BY CartsFacts
<1>1. CASE ToolEnds
    <2>1. UNCHANGED <<lines, coupon, guest, valid, turn>> /\ tool' = NoTool
        BY <1>1 DEF ToolEnds, shop
    <2>2. CartsTypeOK'
        BY <1>0, <2>1, NoToolIsTool DEF CartsTypeOK, ToolType
    <2> QED
        BY <2>1, <2>2, NoToolIsTool DEF CartsInv, Confirmed, GuestNames, AcceptedIsTold
<1>2. CASE BeginTurn
    <2>1. /\ UNCHANGED <<lines, coupon, guest, tool>> /\ tool.at = "idle" /\ valid' \in BOOLEAN
          /\ turn' \in [signedIn : BOOLEAN, refused : BOOLEAN, mutated : BOOLEAN]
        BY <1>2 DEF BeginTurn, shop, NewTurn
    <2>2. CartsTypeOK'
        BY <1>0, <2>1 DEF CartsTypeOK, ToolType
    <2> QED
        BY <2>1, <2>2 DEF CartsInv, Confirmed, GuestNames, AcceptedIsTold
<1>3. CASE RevokeToken
    <2>1. UNCHANGED <<lines, coupon, guest, tool, turn>> /\ valid' \in BOOLEAN
        BY <1>3 DEF RevokeToken, shop
    <2>2. CartsTypeOK'
        BY <1>0, <2>1 DEF CartsTypeOK, ToolType
    <2> QED
        BY <2>1, <2>2 DEF CartsInv, Confirmed, GuestNames, AcceptedIsTold
<1>4. CASE LoseGuestCart
    <2>1. /\ UNCHANGED <<valid, tool, turn>> /\ guest' = "gone"
          /\ lines' = [lines EXCEPT !["guest"] = EmptyCart]
          /\ coupon' = [coupon EXCEPT !["guest"] = NoCode]
        BY <1>4 DEF LoseGuestCart
    <2>2. EmptyCart \in [Product -> 0..MaxQty]
        BY CartsAssumption DEF EmptyCart
    <2>3. CartsTypeOK'
        BY <1>0, <2>1, <2>2 DEF CartsTypeOK, ToolType
    <2> QED
        BY <2>1, <2>3 DEF CartsInv, Confirmed, GuestNames, AcceptedIsTold
<1> QED
    BY <1>1, <1>2, <1>3, <1>4

(* Every step of the tools, of the shopper and of the store.               *)
LEMMA CartsStep == CartsInv /\ [CartsNext]_cartVars => CartsInv'
<1> SUFFICES ASSUME CartsInv, [CartsNext]_cartVars PROVE CartsInv'
    OBVIOUS
<1>1. CASE UNCHANGED cartVars
    BY <1>1 DEF cartVars, CartsInv, CartsTypeOK, Confirmed, GuestNames, AcceptedIsTold
<1> QED
    BY <1>1, CallToolStep, ReadCartStep, ReadFailsStep, SendChangeStep, SendFailsStep,
       CartsAround DEF CartsNext, ToolStep

(* A change the store confirmed is never denied to the agent, whatever     *)
(* fails after it, and a tool shows the cart it was called for.            *)
THEOREM CartsTellWhatWasAccepted == CartsSpec => []AcceptedIsTold
<1>1. CartsInv => AcceptedIsTold
    BY DEF CartsInv
<1> QED
    BY <1>1, CartsInitially, CartsStep, PTL DEF CartsSpec

(* No tool of a signed-in shopper changes the guest cart, also when their  *)
(* token is refused, and no tool of a guest changes a shopper's own.       *)
THEOREM CartsChangeOwnOnly == CartsSpec => OwnCartOnly
<1> DEFINE other == IF turn.signedIn THEN "guest" ELSE "own"
           Kind == \/ lines'[other] = lines[other] /\ coupon'[other] = coupon[other]
                   \/ LoseGuestCart
<1>1. CartsInv /\ [CartsNext]_cartVars => [Kind]_cartVars
    <2> SUFFICES ASSUME CartsInv, CartsNext PROVE Kind
        OBVIOUS
    <2>1. CASE SendChange
        <3> DEFINE c == ServedTo(Target(tool.id))
        <3>1. /\ tool.at = "send" /\ Do(c) /\ c \in {"own", "guest", "stray"}
              /\ turn.signedIn => c = "own"
              /\ ~turn.signedIn => c \in {"guest", "stray"}
            BY <2>1, TargetServes DEF SendChange
        <3> HIDE DEF c
        <3>2. \A k \in Kept \ {c} : lines'[k] = lines[k] /\ coupon'[k] = coupon[k]
            BY <3>1, DoChangesOne
        <3>3. other \in Kept \ {c}
            BY <3>1 DEF Kept
        <3> QED
            BY <3>2, <3>3
    <2>2. CASE ~SendChange
        <3>1. ASSUME NEW x, NEW id, NEW p, CallTool(x, id, p) PROVE UNCHANGED <<lines, coupon>>
            BY <3>1 DEF CallTool, shop
        <3>2. ReadCart \/ ReadFails \/ SendFails => UNCHANGED <<lines, coupon>>
            BY DEF ReadCart, ReadFails, SendFails, shop
        <3>3. ToolEnds \/ BeginTurn \/ RevokeToken => UNCHANGED <<lines, coupon>>
            BY DEF ToolEnds, BeginTurn, RevokeToken, shop
        <3>4. LoseGuestCart \/ UNCHANGED <<lines, coupon>>
            BY <2>2, <3>1, <3>2, <3>3 DEF CartsNext, ToolStep
        <3> QED
            BY <3>4
    <2> QED
        BY <2>1, <2>2
<1>2. CartsInv /\ [CartsNext]_cartVars => CartsInv'
    BY CartsStep
<1> QED
    BY <1>1, <1>2, CartsInitially, PTL DEF CartsSpec, OwnCartOnly

-----------------------------------------------------------------------------
(* CartSync.  Once the codes of a call are settled, and until it is        *)
(* answered, the cart has the code that the session will tell of.          *)
Lined == [item : Item, qty : 1..Top]
Phase == {"idle", "read", "lines", "drop", "codes", "clear", "region", "pay", "save", "answered", "failed"}
CallType ==
    [at : Phase, new : BOOLEAN, list : Lists \cup {Untouched}, codes : CodeLists \cup {Untouched},
     left : Seq(Lined), seen : [Item -> 0..Top], gone : SUBSET Item, rejected : BOOLEAN, kept : BOOLEAN]

SyncShape ==
    /\ SyncTypeOK /\ call \in CallType
    /\ call.at \in {"read", "lines", "drop"} => call.list \in Lists
    /\ call.at \in {"codes", "clear"} => call.codes \in CodeLists

Settled == call.at \in {"pay", "save"} \/ (call.at = "region" /\ call.new)

CodesAgree ==
    Settled /\ call.codes # Untouched /\ alone /\ ~call.kept =>
        code = IF call.codes = <<>> \/ call.rejected THEN Blank ELSE Head(call.codes)

SyncInv == SyncShape /\ CodesAgree /\ CodesReplaced

(* No call.                                                                *)
LEMMA NoCallIsCall == NoCall \in CallType /\ NoLines \in [Item -> 0..Top]
<1>1. NoLines \in [Item -> 0..Top]
    BY CartSyncAssumption DEF NoLines
<1> QED
    BY <1>1 DEF NoCall, CallType, Phase

(* The cart is empty, and there is no session.                             *)
LEMMA SyncInitially == SyncInit => SyncInv
<1> SUFFICES ASSUME SyncInit PROVE SyncInv
    OBVIOUS
<1>1. /\ call = NoCall /\ call.at = "idle" /\ call.list = Untouched /\ call.codes = Untouched
      /\ call.seen = NoLines /\ call.gone = {}
    BY DEF SyncInit, NoCall
<1>2. SyncShape
    BY <1>1, NoCallIsCall DEF SyncInit, SyncShape, SyncTypeOK, NoSession
<1> QED
    BY <1>1, <1>2 DEF SyncInv, CodesAgree, CodesReplaced, Settled

(* A step that leaves the session alone and settles no codes keeps the     *)
(* invariant.                                                              *)
LEMMA UnsettledStep ==
    ASSUME SyncInv, call' \in CallType, ~Settled' \/ call'.codes = Untouched,
           call'.at # "answered",
           call'.at \in {"read", "lines", "drop"} => call'.list \in Lists,
           call'.at \in {"codes", "clear"} => call'.codes \in CodeLists,
           cart' \in [Item -> 0..Top], code' \in Coupon \cup {Blank},
           alone' \in BOOLEAN, UNCHANGED <<promotions, session>>
    PROVE  SyncInv'
<1>1. /\ call'.list \in Lists \cup {Untouched} /\ call'.codes \in CodeLists \cup {Untouched}
      /\ call'.seen \in [Item -> 0..Top] /\ call'.gone \subseteq Item
    BY DEF CallType
<1>2. SyncShape'
    BY <1>1 DEF SyncInv, SyncShape, SyncTypeOK
<1> QED
    BY <1>2 DEF SyncInv, CodesAgree, CodesReplaced

(* What a call keeps when it only goes on.                                 *)
LEMMA GoKeeps ==
    ASSUME SyncInv, NEW at \in Phase, Go(at)
    PROVE  /\ call' \in CallType /\ call'.at = at /\ call'.new = call.new
           /\ call'.list = call.list /\ call'.codes = call.codes
           /\ call'.rejected = call.rejected /\ call'.kept = call.kept
BY DEF SyncInv, SyncShape, CallType, Go

(* What the invariant says of the types.                                   *)
LEMMA SyncFacts ==
    ASSUME SyncInv
    PROVE  /\ call \in CallType /\ cart \in [Item -> 0..Top] /\ code \in Coupon \cup {Blank}
           /\ alone \in BOOLEAN /\ promotions \in BOOLEAN
           /\ session \in [there : BOOLEAN, codes : CodeLists \cup {<<>>}, rejected : BOOLEAN]
           /\ call.list \in Lists \cup {Untouched} /\ call.codes \in CodeLists \cup {Untouched}
           /\ call.new \in BOOLEAN
BY DEF SyncInv, SyncShape, SyncTypeOK, CallType

(* A call that fails settles nothing.                                      *)
LEMMA FailStep ==
    ASSUME SyncInv, Fails, cart' \in [Item -> 0..Top], code' \in Coupon \cup {Blank},
           UNCHANGED <<promotions, session, alone>>
    PROVE  SyncInv'
<1>1. call' \in CallType /\ call'.at = "failed"
    BY DEF SyncInv, SyncShape, CallType, Fails, Phase
<1>2. ~Settled' /\ alone' \in BOOLEAN
    BY <1>1, SyncFacts DEF Settled
<1> QED
    BY <1>1, <1>2, UnsettledStep

(* Settled codes stay settled on the way to the save.                      *)
LEMMA SettledGoesOn ==
    ASSUME SyncInv, Settled \/ call.codes = Untouched, NEW at \in {"pay", "save"}, Go(at), Others
    PROVE  SyncInv'
<1>1. /\ call' \in CallType /\ call'.at = at
      /\ call'.list = call.list /\ call'.codes = call.codes
      /\ call'.rejected = call.rejected /\ call'.kept = call.kept
    BY GoKeeps DEF Phase
<1>2. UNCHANGED <<cart, code, promotions, session, alone>>
    BY DEF Others
<1>3. /\ call'.list \in Lists \cup {Untouched} /\ call'.codes \in CodeLists \cup {Untouched}
      /\ call'.seen \in [Item -> 0..Top] /\ call'.gone \subseteq Item
    BY <1>1 DEF CallType
<1>4. SyncShape'
    BY <1>1, <1>2, <1>3 DEF SyncInv, SyncShape, SyncTypeOK
<1>5. CodesAgree'
    BY <1>1, <1>2 DEF SyncInv, CodesAgree
<1> QED
    BY <1>1, <1>4, <1>5 DEF SyncInv, CodesReplaced

(* The codes are settled, as the call will tell.                           *)
LEMMA SettleStep ==
    ASSUME SyncInv, call.at \in {"codes", "clear"}, NEW rejected \in BOOLEAN, NEW kept \in BOOLEAN,
           Settle(rejected, kept), UNCHANGED <<cart, promotions, session, alone>>,
           code' \in Coupon \cup {Blank},
           kept \/ code' = IF call.codes = <<>> \/ rejected THEN Blank ELSE Head(call.codes)
    PROVE  SyncInv'
<1> DEFINE f == [call EXCEPT !.at = AfterCodes]
           g == [f EXCEPT !.rejected = rejected]
<1>1. AfterCodes \in {"region", "pay"} /\ (AfterCodes = "region" => call.new)
    BY DEF AfterCodes
<1>2. f \in CallType /\ f.at = AfterCodes /\ f.codes = call.codes
    BY <1>1, SyncFacts DEF CallType, Phase
<1>3. call' = [g EXCEPT !.kept = kept]
    BY DEF Settle
<1> HIDE DEF f
<1>4. g \in CallType /\ g.at = AfterCodes /\ g.codes = call.codes /\ g.rejected = rejected
    BY <1>2 DEF CallType
<1> HIDE DEF g
<1>5. /\ call' \in CallType /\ call'.at = AfterCodes /\ call'.codes = call.codes
      /\ call'.rejected = rejected /\ call'.kept = kept
    BY <1>3, <1>4 DEF CallType
<1>6. /\ call'.list \in Lists \cup {Untouched} /\ call'.codes \in CodeLists \cup {Untouched}
      /\ call'.seen \in [Item -> 0..Top] /\ call'.gone \subseteq Item
    BY <1>5 DEF CallType
<1>7. SyncShape'
    BY <1>1, <1>5, <1>6, SyncFacts DEF SyncShape, SyncTypeOK
<1>8. CodesAgree'
    BY <1>5 DEF CodesAgree
<1> QED
    BY <1>1, <1>5, <1>7, <1>8 DEF SyncInv, CodesReplaced

(* A call that begins has nothing settled, or no codes to settle.          *)
LEMMA BeginStep ==
    ASSUME SyncInv, NEW list \in Lists \cup {Untouched}, NEW codes \in CodeLists \cup {Untouched},
           BeginCreate(list, codes) \/ BeginUpdate(list, codes)
    PROVE  SyncInv'
<1>0. UNCHANGED <<cart, code, promotions, session>> /\ alone' = TRUE
    BY DEF BeginCreate, BeginUpdate
<1>1. CASE BeginCreate(list, codes)
    <2> DEFINE at == IF list # Untouched THEN "read" ELSE IF codes # Untouched THEN "codes" ELSE "region"
               f == [NoCall EXCEPT !.new = TRUE]
               g == [f EXCEPT !.list = list]
               h == [g EXCEPT !.codes = codes]
    <2>1. f \in CallType
        BY NoCallIsCall DEF CallType
    <2>2. call' = [h EXCEPT !.at = at]
        BY <1>1 DEF BeginCreate
    <2> HIDE DEF f
    <2>3. g \in CallType /\ g.list = list
        BY <2>1 DEF CallType
    <2> HIDE DEF g
    <2>4. h \in CallType /\ h.list = list /\ h.codes = codes
        BY <2>3 DEF CallType
    <2> HIDE DEF h
    <2>5. call' \in CallType /\ call'.at = at /\ call'.list = list /\ call'.codes = codes
        BY <2>2, <2>4 DEF CallType, Phase
    <2>6. ~Settled' \/ call'.codes = Untouched
        BY <2>5 DEF Settled
    <2> QED
        BY <1>0, <2>5, <2>6, SyncFacts, UnsettledStep
<1>2. CASE BeginUpdate(list, codes)
    <2> DEFINE f == [NoCall EXCEPT !.list = list]
               g == [f EXCEPT !.codes = codes]
    <2>1. f \in CallType /\ f.new = FALSE
        BY NoCallIsCall DEF CallType, NoCall
    <2>2. call' = [g EXCEPT !.at = "region"]
        BY <1>2 DEF BeginUpdate
    <2> HIDE DEF f
    <2>3. g \in CallType /\ g.new = FALSE
        BY <2>1 DEF CallType
    <2> HIDE DEF g
    <2>4. call' \in CallType /\ call'.at = "region" /\ call'.new = FALSE
        BY <2>2, <2>3 DEF CallType, Phase
    <2>5. ~Settled'
        BY <2>4 DEF Settled
    <2> QED
        BY <1>0, <2>4, <2>5, SyncFacts, UnsettledStep
<1> QED
    BY <1>1, <1>2

(* The lookups before the cart is written and before the save.             *)
LEMMA LookUpSteps ==
    ASSUME SyncInv, LookUpRegion \/ LookUpPayWays
    PROVE  SyncInv'
<1>0. /\ UNCHANGED <<cart, code, promotions, session, alone>>
      /\ cart' \in [Item -> 0..Top] /\ code' \in Coupon \cup {Blank} /\ alone' \in BOOLEAN
    BY SyncFacts DEF LookUpRegion, LookUpPayWays, Others
<1>1. CASE Fails
    BY <1>0, <1>1, FailStep
<1>2. CASE LookUpPayWays /\ ~Fails
    <2>1. Settled /\ Go("save") /\ Others
        BY <1>2 DEF LookUpPayWays, Settled
    <2> QED
        BY <2>1, SettledGoesOn
<1>3. CASE LookUpRegion /\ ~Fails /\ call.new
    <2>1. Settled /\ Go("pay") /\ Others
        BY <1>3 DEF LookUpRegion, Settled
    <2> QED
        BY <2>1, SettledGoesOn
<1>4. CASE LookUpRegion /\ ~Fails /\ ~call.new
    <2> DEFINE at == IF call.list # Untouched THEN "read" ELSE AfterLines
    <2>1. Go(at) /\ Others
        BY <1>4 DEF LookUpRegion
    <2>2. CASE at = "pay"
        <3>1. call.codes = Untouched /\ Go("pay")
            BY <2>1, <2>2 DEF AfterLines
        <3> QED
            BY <2>1, <3>1, SettledGoesOn
    <2>3. CASE at # "pay"
        <3>1. /\ at \in {"read", "codes"} /\ at \in Phase
              /\ at = "read" => call.list # Untouched
              /\ at = "codes" => call.codes # Untouched
            BY <2>3 DEF AfterLines, Phase
        <3> HIDE DEF at
        <3>2. /\ call' \in CallType /\ call'.at = at /\ call'.list = call.list
              /\ call'.codes = call.codes
            BY <2>1, <3>1, GoKeeps
        <3>3. /\ ~Settled'
              /\ call'.at = "read" => call'.list \in Lists
              /\ call'.at = "codes" => call'.codes \in CodeLists
            BY <3>1, <3>2, SyncFacts DEF Settled
        <3> QED
            BY <1>0, <3>1, <3>2, <3>3, UnsettledStep
    <2> QED
        BY <2>2, <2>3
<1>5. call.new \in BOOLEAN
    BY SyncFacts
<1> QED
    BY <1>1, <1>2, <1>3, <1>4, <1>5

(* What the store makes of a line is a quantity it has.                    *)
LEMMA HeldFits ==
    ASSUME SyncInv, NEW line \in Lined, NEW q \in Held(call.seen, line)
    PROVE  q \in 0..Top
<1>1. /\ cart[line.item] \in 0..Top /\ line.qty \in 1..Top /\ Top \in Nat
    BY SyncFacts, CartSyncAssumption DEF Lined
<1>2. Write(call.seen, line) \in {"add", "set", "skip"}
    BY DEF Write
<1>3. CASE Write(call.seen, line) = "add"
    <2>1. q = cart[line.item] + line.qty /\ q <= Top
        BY <1>3 DEF Held
    <2> QED
        BY <1>1, <2>1
<1>4. CASE Write(call.seen, line) = "set"
    BY <1>1, <1>4 DEF Held
<1>5. CASE Write(call.seen, line) = "skip"
    BY <1>1, <1>5 DEF Held
<1> QED
    BY <1>2, <1>3, <1>4, <1>5

(* The first of the lines that are left, and the rest.                     *)
LEMMA HeadAndTail ==
    ASSUME NEW S, NEW s \in Seq(S), s # <<>>
    PROVE  Head(s) \in S /\ Tail(s) \in Seq(S)
OBVIOUS

(* The lines are read, written and dropped before any code is settled.     *)
LEMMA LineSteps ==
    ASSUME SyncInv, ReadLines \/ WriteLine \/ WroteLines \/ DropLine \/ Dropped
    PROVE  SyncInv'
<1>0. /\ call \in CallType /\ cart \in [Item -> 0..Top] /\ code \in Coupon \cup {Blank}
      /\ alone \in BOOLEAN
      /\ UNCHANGED <<code, promotions, session, alone>>
      /\ call.at \in {"read", "lines", "drop"} /\ call.list \in Lists
    BY SyncFacts
       DEF SyncInv, SyncShape, ReadLines, WriteLine, WroteLines, DropLine, Dropped, Others
<1>1. ASSUME Fails, cart' \in [Item -> 0..Top] PROVE SyncInv'
    BY <1>0, <1>1, FailStep
<1>2. ASSUME call' \in CallType, call'.list = call.list, call'.at \in {"lines", "drop"},
             cart' \in [Item -> 0..Top]
      PROVE  SyncInv'
    <2>1. ~Settled'
        BY <1>2 DEF Settled
    <2> QED
        BY <1>0, <1>2, <2>1, UnsettledStep
<1>3. CASE ReadLines
    <2>1. UNCHANGED cart
        BY <1>3 DEF ReadLines, Others
    <2>2. CASE Fails
        BY <1>0, <1>1, <2>1, <2>2
    <2>3. CASE ~Fails
        <3> DEFINE f == [call EXCEPT !.at = "lines"]
                   g == [f EXCEPT !.left = call.list]
        <3>1. f \in CallType /\ f.at = "lines" /\ f.list = call.list
            BY <1>0 DEF CallType, Phase
        <3>2. call' = [g EXCEPT !.seen = cart]
            BY <1>3, <2>3 DEF ReadLines
        <3>3. call.list \in Seq(Lined)
            BY <1>0, CartSyncAssumption DEF Lined
        <3> HIDE DEF f
        <3>4. g \in CallType /\ g.at = "lines" /\ g.list = call.list
            BY <3>1, <3>3 DEF CallType
        <3> HIDE DEF g
        <3>5. call' \in CallType /\ call'.at = "lines" /\ call'.list = call.list
            BY <1>0, <3>2, <3>4 DEF CallType
        <3> QED
            BY <1>0, <1>2, <2>1, <3>5
    <2> QED
        BY <2>2, <2>3
<1>4. CASE WriteLine
    <2> DEFINE line == Head(call.left)
    <2>1. call.left \in Seq(Lined) /\ call.left # <<>>
        BY <1>0, <1>4 DEF WriteLine, CallType
    <2>2. line \in Lined /\ Tail(call.left) \in Seq(Lined)
        BY <2>1, HeadAndTail
    <2>3. \/ UNCHANGED cart
          \/ \E q \in Held(call.seen, line) : cart' = [cart EXCEPT ![line.item] = q]
        BY <1>4 DEF WriteLine
    <2>4. cart' \in [Item -> 0..Top]
        <3>1. line.item \in Item
            BY <2>2 DEF Lined
        <3> QED
            BY <1>0, <2>2, <2>3, <3>1, HeldFits
    <2>5. Fails \/ call' = [call EXCEPT !.left = Tail(@)]
        BY <1>4 DEF WriteLine
    <2>6. CASE Fails
        BY <1>1, <2>4, <2>6
    <2>7. CASE call' = [call EXCEPT !.left = Tail(@)]
        <3>1. call' \in CallType /\ call'.at = "lines" /\ call'.list = call.list
            BY <1>0, <1>4, <2>2, <2>7 DEF CallType, WriteLine
        <3> QED
            BY <1>2, <2>4, <3>1
    <2> QED
        BY <2>5, <2>6, <2>7
<1>5. CASE WroteLines
    <2> DEFINE f == [call EXCEPT !.at = "drop"]
               gone == Unlisted(call.list, call.seen)
    <2>1. f \in CallType /\ f.at = "drop" /\ f.list = call.list
        BY <1>0 DEF CallType, Phase
    <2>2. gone \subseteq Item
        BY DEF Unlisted
    <2>3. call' = [f EXCEPT !.gone = gone] /\ UNCHANGED cart
        BY <1>5 DEF WroteLines, Others
    <2> HIDE DEF f, gone
    <2>4. call' \in CallType /\ call'.at = "drop" /\ call'.list = call.list
        BY <2>1, <2>2, <2>3 DEF CallType
    <2> QED
        BY <1>0, <1>2, <2>3, <2>4
<1>6. CASE DropLine
    <2>1. PICK i \in call.gone :
              /\ cart' = [cart EXCEPT ![i] = 0] \/ UNCHANGED cart
              /\ Fails \/ call' = [call EXCEPT !.gone = @ \ {i}]
        BY <1>6 DEF DropLine, Fails
    <2>2. call.gone \subseteq Item /\ i \in Item /\ 0 \in 0..Top
        BY <1>0, CartSyncAssumption DEF CallType
    <2>3. cart' \in [Item -> 0..Top]
        BY <1>0, <2>1, <2>2
    <2>4. CASE Fails
        BY <1>1, <2>3, <2>4
    <2>5. CASE call' = [call EXCEPT !.gone = @ \ {i}]
        <3>1. call' \in CallType /\ call'.at = "drop" /\ call'.list = call.list
            BY <1>0, <1>6, <2>2, <2>5 DEF CallType, DropLine
        <3> QED
            BY <1>2, <2>3, <3>1
    <2> QED
        BY <2>1, <2>4, <2>5
<1>7. CASE Dropped
    <2> DEFINE at == IF call.codes # Untouched THEN "codes" ELSE IF call.new THEN "region" ELSE "pay"
    <2>1. Go(at) /\ UNCHANGED cart
        BY <1>7 DEF Dropped, Others
    <2>2. /\ at \in {"codes", "region", "pay"} /\ at \in Phase
          /\ at = "codes" => call.codes # Untouched
          /\ at # "codes" => call.codes = Untouched
        BY DEF Phase
    <2> HIDE DEF at
    <2>3. call' \in CallType /\ call'.at = at /\ call'.codes = call.codes
        BY <2>1, <2>2, GoKeeps
    <2>4. ~Settled' \/ call'.codes = Untouched
        BY <2>2, <2>3 DEF Settled
    <2>5. call'.at = "codes" => call'.codes \in CodeLists
        BY <2>2, <2>3, SyncFacts
    <2> QED
        BY <1>0, <2>1, <2>2, <2>3, <2>4, <2>5, UnsettledStep
<1> QED
    BY <1>3, <1>4, <1>5, <1>6, <1>7

(* The codes are settled, or the call fails.                               *)
LEMMA CodeSteps ==
    ASSUME SyncInv, CodesWithoutPromotions \/ NoCodes \/ ApplyFirst \/ ClearRefused
    PROVE  SyncInv'
<1>0. /\ cart \in [Item -> 0..Top] /\ code \in Coupon \cup {Blank} /\ alone \in BOOLEAN
      /\ UNCHANGED <<cart, promotions, session, alone>>
      /\ call.at \in {"codes", "clear"} /\ call.codes \in CodeLists
    BY SyncFacts
       DEF SyncInv, SyncShape, CodesWithoutPromotions, NoCodes, ApplyFirst, ClearRefused
<1>1. call.codes # <<>> => Head(call.codes) \in Coupon
    BY <1>0, CartSyncAssumption
<1>2. ASSUME Fails, code' \in Coupon \cup {Blank} PROVE SyncInv'
    BY <1>0, <1>2, FailStep
<1>3. CASE CodesWithoutPromotions
    <2> DEFINE rejected == call.codes # <<>>
    <2>1. \/ code' = Blank /\ Settle(rejected, FALSE)
          \/ code' = code /\ Settle(rejected, TRUE)
        BY <1>3 DEF CodesWithoutPromotions
    <2>2. rejected \in BOOLEAN /\ (call.codes = <<>> \/ rejected)
        OBVIOUS
    <2> HIDE DEF rejected
    <2> QED
        BY <1>0, <2>1, <2>2, SettleStep
<1>4. CASE NoCodes
    <2>1. \/ code' = Blank /\ Settle(FALSE, FALSE) /\ call.codes = <<>>
          \/ code' \in {code, Blank} /\ Fails
        BY <1>4 DEF NoCodes
    <2> QED
        BY <1>0, <1>2, <2>1, SettleStep
<1>5. CASE ApplyFirst
    <2>1. /\ call.codes # <<>>
          /\ \/ code' = Head(call.codes) /\ Settle(FALSE, FALSE)
             \/ code' \in {code, Head(call.codes)} /\ Fails
             \/ code' \in {code, Blank} /\ Go("clear")
        BY <1>5 DEF ApplyFirst
    <2>2. CASE code' \in {code, Blank} /\ Go("clear")
        <3>1. call' \in CallType /\ call'.at = "clear" /\ call'.codes = call.codes
            BY <2>2, GoKeeps DEF Phase
        <3>2. ~Settled'
            BY <3>1 DEF Settled
        <3> QED
            BY <1>0, <2>2, <3>1, <3>2, UnsettledStep
    <2> QED
        BY <1>0, <1>1, <1>2, <2>1, <2>2, SettleStep
<1>6. CASE ClearRefused
    <2>1. \/ code' = Blank /\ Settle(TRUE, FALSE)
          \/ code' = code /\ Settle(TRUE, TRUE)
        BY <1>6 DEF ClearRefused
    <2> QED
        BY <1>0, <2>1, SettleStep
<1> QED
    BY <1>3, <1>4, <1>5, <1>6

(* The session that is saved tells of the settled codes.                   *)
LEMMA SaveStep == SyncInv /\ SaveSession => SyncInv'
<1> SUFFICES ASSUME SyncInv, SaveSession PROVE SyncInv'
    OBVIOUS
<1>0. /\ call \in CallType /\ cart \in [Item -> 0..Top] /\ code \in Coupon \cup {Blank}
      /\ UNCHANGED <<cart, code, promotions, alone>> /\ call.at = "save"
      /\ session \in [there : BOOLEAN, codes : CodeLists \cup {<<>>}, rejected : BOOLEAN]
    BY SyncFacts DEF SaveSession
<1>1. CASE Fails /\ UNCHANGED session
    BY <1>0, <1>1, FailStep
<1>2. CASE ~(Fails /\ UNCHANGED session)
    <2>1. /\ Go("answered")
          /\ session' = [there |-> TRUE,
                         codes |-> IF call.codes = Untouched THEN session.codes ELSE call.codes,
                         rejected |-> IF call.codes = Untouched THEN session.rejected ELSE call.rejected]
        BY <1>2 DEF SaveSession
    <2>2. /\ call' \in CallType /\ call'.at = "answered" /\ call'.codes = call.codes
          /\ call'.kept = call.kept
        BY <2>1, GoKeeps DEF Phase
    <2>3. /\ session' \in [there : BOOLEAN, codes : CodeLists \cup {<<>>}, rejected : BOOLEAN]
          /\ call.codes # Untouched => session'.codes = call.codes /\ session'.rejected = call.rejected
        BY <1>0, <2>1 DEF CallType
    <2>4. /\ call'.list \in Lists \cup {Untouched} /\ call'.codes \in CodeLists \cup {Untouched}
          /\ call'.seen \in [Item -> 0..Top] /\ call'.gone \subseteq Item
        BY <2>2 DEF CallType
    <2>5. SyncShape'
        BY <1>0, <2>2, <2>3, <2>4 DEF SyncInv, SyncShape, SyncTypeOK
    <2>6. ~Settled'
        BY <2>2 DEF Settled
    <2>7. CodesReplaced'
        BY <1>0, <2>2, <2>3 DEF SyncInv, CodesAgree, Settled, CodesReplaced
    <2> QED
        BY <2>5, <2>6, <2>7 DEF SyncInv, CodesAgree
<1> QED
    BY <1>1, <1>2

(* The end of a call, the shopper's own edits and the feature's switch.    *)
LEMMA SyncAround ==
    ASSUME SyncInv, EndCall \/ ShopperEdits \/ SwitchPromotions
    PROVE  SyncInv'
<1>0. /\ call \in CallType /\ cart \in [Item -> 0..Top] /\ code \in Coupon \cup {Blank}
      /\ alone \in BOOLEAN /\ promotions \in BOOLEAN
    BY SyncFacts
<1>1. CASE EndCall
    <2>1. /\ call' = NoCall /\ call'.at = "idle"
          /\ UNCHANGED <<cart, code, promotions, session, alone>>
        BY <1>1 DEF EndCall, NoCall
    <2>2. ~Settled'
        BY <2>1 DEF Settled
    <2> QED
        BY <1>0, <2>1, <2>2, NoCallIsCall, UnsettledStep
<1>2. CASE ShopperEdits
    <2>1. /\ alone' = FALSE /\ UNCHANGED <<promotions, session, call>>
          /\ cart' \in [Item -> 0..Top] /\ code' \in Coupon \cup {Blank}
        BY <1>0, <1>2 DEF ShopperEdits
    <2>2. SyncShape'
        BY <2>1 DEF SyncInv, SyncShape, SyncTypeOK
    <2> QED
        BY <2>1, <2>2 DEF SyncInv, CodesAgree, CodesReplaced
<1>3. CASE SwitchPromotions
    <2>1. /\ UNCHANGED <<cart, code, session, call, alone>> /\ promotions' \in BOOLEAN
        BY <1>0, <1>3 DEF SwitchPromotions
    <2>2. SyncShape'
        BY <2>1 DEF SyncInv, SyncShape, SyncTypeOK
    <2> QED
        BY <2>1, <2>2 DEF SyncInv, CodesAgree, CodesReplaced, Settled
<1> QED
    BY <1>1, <1>2, <1>3

(* Every step of a call, and of what goes on beside it.                    *)
LEMMA SyncStep == SyncInv /\ [SyncNext]_syncVars => SyncInv'
<1> SUFFICES ASSUME SyncInv, [SyncNext]_syncVars PROVE SyncInv'
    OBVIOUS
<1>1. CASE UNCHANGED syncVars
    BY <1>1
       DEF syncVars, SyncInv, SyncShape, SyncTypeOK, CodesAgree, CodesReplaced, Settled
<1>2. ASSUME NEW list \in Lists \cup {Untouched}, NEW codes \in CodeLists \cup {Untouched},
             BeginCreate(list, codes) \/ BeginUpdate(list, codes)
      PROVE  SyncInv'
    BY <1>2, BeginStep
<1> QED
    BY <1>1, <1>2, LookUpSteps, LineSteps, CodeSteps, SaveStep, SyncAround
       DEF SyncNext, CallStep

(* An answered call with a code list leaves cart and session in agreement, *)
(* for any lists of lines and codes, whatever broke off before.            *)
THEOREM SyncReplacesCodes == SyncSpec => []CodesReplaced
<1>1. SyncInv => CodesReplaced
    BY DEF SyncInv
<1> QED
    BY <1>1, SyncInitially, SyncStep, PTL DEF SyncSpec

-----------------------------------------------------------------------------
(* The lines.  While nobody else writes to the cart: what a call has still *)
(* to write is as it was read, what it wrote is as it asked, and from the  *)
(* last line that it drops to its answer the cart is what it asked for.    *)

\* A list asks for each product once.
OneLineEach(list) == \A m, n \in DOMAIN list : list[m].item = list[n].item => m = n

Has(line) == cart[line.item] = line.qty
HasAll(list) == \A n \in DOMAIN list : Has(list[n])
Among(line, list) == \E n \in DOMAIN list : line = list[n]

Writing(list, left) ==
    /\ OneLineEach(left) /\ \A m \in DOMAIN left : Among(left[m], list)
    /\ \A n \in DOMAIN list : Has(list[n]) \/ Among(list[n], left)
    /\ \A i \in Item : i \in ItemsOf(left) \/ i \notin ItemsOf(list) => cart[i] = call.seen[i]

Dropping(list) ==
    /\ HasAll(list)
    /\ call.gone \cap ItemsOf(list) = {}
    /\ \A i \in Item : i \in ItemsOf(list) \/ i \in call.gone \/ cart[i] = 0

Exact(list) == HasAll(list) /\ \A i \in Item : i \in ItemsOf(list) \/ cart[i] = 0

Filled == call.at \in {"codes", "clear", "pay", "save", "answered"} \/ (call.at = "region" /\ call.new)

LinesInv ==
    alone /\ call.list # Untouched =>
        /\ call.at = "lines" => Writing(call.list, call.left)
        /\ call.at = "drop" => Dropping(call.list)
        /\ Filled => Exact(call.list)

(* The rest of the lines are those after the first.                        *)
LEMMA RestOfLines ==
    ASSUME NEW S, NEW s \in Seq(S), s # <<>>
    PROVE  /\ 1 \in DOMAIN s /\ Head(s) = s[1]
           /\ \A m \in DOMAIN Tail(s) : m + 1 \in DOMAIN s /\ Tail(s)[m] = s[m + 1] /\ m \in Nat
           /\ \A m \in DOMAIN s : m = 1 \/ (m - 1 \in DOMAIN Tail(s) /\ Tail(s)[m - 1] = s[m])
<1>1. Len(s) \in Nat /\ Len(s) > 0 /\ DOMAIN s = 1..Len(s)
    OBVIOUS
<1>2. Tail(s) \in Seq(S) /\ Len(Tail(s)) = Len(s) - 1
    OBVIOUS
<1>3. Head(s) = s[1]
    OBVIOUS
<1>4. DOMAIN Tail(s) = 1..(Len(s) - 1)
    BY <1>2
<1>5. \A m \in DOMAIN Tail(s) : m + 1 \in DOMAIN s /\ m \in Nat /\ Tail(s)[m] = s[m + 1]
    <2>1. ASSUME NEW m \in 1..(Len(s) - 1) PROVE Tail(s)[m] = s[m + 1]
        OBVIOUS
    <2> QED
        BY <1>1, <1>4, <2>1
<1>6. ASSUME NEW m \in DOMAIN s, m # 1 PROVE m - 1 \in DOMAIN Tail(s) /\ Tail(s)[m - 1] = s[m]
    <2>1. m - 1 \in 1..(Len(s) - 1) /\ (m - 1) + 1 = m
        BY <1>1, <1>6
    <2> QED
        BY <1>4, <1>5, <2>1
<1> QED
    BY <1>1, <1>3, <1>5, <1>6

(* The elements of a sequence.                                             *)
LEMMA ElementsOfList ==
    ASSUME NEW S, NEW s \in Seq(S)
    PROVE  DOMAIN s = 1..Len(s) /\ Len(s) \in Nat /\ \A n \in DOMAIN s : s[n] \in S
OBVIOUS

(* A cart that has a list exactly is the one the list asks for: of each    *)
(* product at most one line counts.                                        *)
LEMMA ExactIsSubmitted ==
    ASSUME NEW list \in Lists, OneLineEach(list), Exact(list), cart \in [Item -> 0..Top]
    PROVE  cart = Submitted(list)
<1>1. /\ list \in Seq(Lined) /\ DOMAIN list = 1..Len(list) /\ Len(list) \in Nat
      /\ \A n \in DOMAIN list : list[n] \in Lined
    <2>1. list \in Seq(Lined)
        BY CartSyncAssumption DEF Lined
    <2> QED
        BY <2>1, ElementsOfList
<1>2. IsFiniteSet(DOMAIN list)
    BY <1>1, FS_Interval
<1>3. ASSUME NEW i \in Item PROVE cart[i] = Submitted(list)[i]
    <2> DEFINE f == [n \in DOMAIN list |-> IF list[n].item = i THEN list[n].qty ELSE 0]
    <2>1. Submitted(list)[i] = SumFunctionOnSet(f, DOMAIN list)
        BY DEF Submitted, SumFunction
    <2>2. CASE i \in ItemsOf(list)
        <3>1. PICK n \in DOMAIN list : list[n].item = i
            BY <2>2 DEF ItemsOf
        <3>2. f[n] = list[n].qty /\ f[n] \in Int /\ cart[i] = list[n].qty
            BY <1>1, <3>1, CartSyncAssumption DEF Exact, HasAll, Has, Lined
        <3>3. \A m \in DOMAIN list : m # n => f[m] = 0
            BY <3>1 DEF OneLineEach
        <3> HIDE DEF f
        <3> QED
            BY <1>2, <2>1, <3>2, <3>3, SumOfOne
    <2>3. CASE i \notin ItemsOf(list)
        <3>1. \A n \in DOMAIN list : f[n] = 0
            BY <2>3 DEF ItemsOf
        <3>2. cart[i] = 0
            BY <2>3 DEF Exact
        <3> HIDE DEF f
        <3> QED
            BY <1>2, <2>1, <3>1, <3>2, SumOfZeros
    <2> QED
        BY <2>2, <2>3
<1>4. Submitted(list) = [i \in Item |-> Submitted(list)[i]]
    BY DEF Submitted
<1> QED
    BY <1>3, <1>4

(* A step that writes nothing to the cart keeps what the call has done.    *)
LEMMA LinesRest ==
    ASSUME LinesInv, UNCHANGED <<cart, alone>>, call'.list = call.list,
           call'.at \notin {"lines", "drop"}, Filled' => Filled
    PROVE  LinesInv'
<1>1. call.list # Untouched => Exact(call.list)' = Exact(call.list)
    BY DEF Exact, HasAll, Has
<1> QED
    BY <1>1 DEF LinesInv

(* A call that fails has done nothing that is looked at.                   *)
LEMMA LinesFail == Fails /\ SyncInv => call'.at = "failed" /\ ~Filled'
BY SyncFacts DEF Fails, CallType, Filled

(* The lines are read: all of them are left, and the cart is as it was.    *)
LEMMA ReadStarts ==
    ASSUME SyncInv, ReadLines, ~Fails, \A list \in Lists : OneLineEach(list)
    PROVE  LinesInv'
<1>1. /\ call \in CallType /\ call.list \in Lists /\ UNCHANGED cart
      /\ call' = [call EXCEPT !.at = "lines", !.left = call.list, !.seen = cart]
    BY SyncFacts DEF ReadLines, Others, SyncInv, SyncShape
<1>2. /\ call'.at = "lines" /\ call'.left = call.list /\ call'.seen = cart /\ call'.list = call.list
      /\ ~Filled'
    BY <1>1 DEF CallType, Filled
<1>3. Writing(call.list, call.list)'
    BY <1>1, <1>2 DEF Writing, Among
<1> QED
    BY <1>2, <1>3 DEF LinesInv

(* What a line is written as is what it asks for, when its product is as   *)
(* it was read.                                                            *)
LEMMA HeldIsAsked ==
    ASSUME SyncInv, NEW line \in Lined, NEW q \in Held(call.seen, line),
           cart[line.item] = call.seen[line.item]
    PROVE  q = line.qty
<1>1. cart[line.item] \in 0..Top /\ line.qty \in 1..Top /\ Top \in Nat
    BY SyncFacts, CartSyncAssumption DEF Lined
<1>2. CASE Write(call.seen, line) = "add"
    <2>1. q = cart[line.item] + line.qty /\ cart[line.item] = 0
        BY <1>2 DEF Held, Write
    <2> QED
        BY <1>1, <2>1
<1>3. CASE Write(call.seen, line) = "set"
    BY <1>3 DEF Held
<1>4. CASE Write(call.seen, line) = "skip"
    <2>1. q = cart[line.item] /\ call.seen[line.item] = line.qty
        BY <1>4 DEF Held, Write
    <2> QED
        BY <2>1
<1> QED
    BY <1>2, <1>3, <1>4 DEF Write

(* One line is written: it is as it asks, the others stay as they were.    *)
LEMMA WriteGoesOn ==
    ASSUME SyncInv, LinesInv, WriteLine, ~Fails, \A list \in Lists : OneLineEach(list)
    PROVE  LinesInv'
<1> SUFFICES ASSUME alone' PROVE LinesInv'
    BY DEF LinesInv
<1> DEFINE line == Head(call.left)
           list == call.list
<1>1. /\ call \in CallType /\ list \in Lists /\ alone /\ call.at = "lines"
      /\ call.left \in Seq(Lined) /\ call.left # <<>>
      /\ call' = [call EXCEPT !.left = Tail(@)]
      /\ \E q \in Held(call.seen, line) : cart' = [cart EXCEPT ![line.item] = q]
    BY SyncFacts DEF WriteLine, CallType, SyncInv, SyncShape
<1>2. /\ call'.at = "lines" /\ call'.left = Tail(call.left) /\ call'.seen = call.seen /\ call'.list = list
      /\ ~Filled'
    BY <1>1 DEF CallType, Filled
<1>3. OneLineEach(list) /\ list # Untouched
    BY <1>1, CartSyncAssumption
<1>4. Writing(list, call.left)
    BY <1>1, <1>3 DEF LinesInv
<1>5. /\ 1 \in DOMAIN call.left /\ line = call.left[1] /\ line \in Lined
      /\ \A m \in DOMAIN Tail(call.left) :
            m + 1 \in DOMAIN call.left /\ Tail(call.left)[m] = call.left[m + 1] /\ m \in Nat
      /\ \A m \in DOMAIN call.left :
            m = 1 \/ (m - 1 \in DOMAIN Tail(call.left) /\ Tail(call.left)[m - 1] = call.left[m])
      /\ DOMAIN Tail(call.left) = 1..Len(Tail(call.left))
    <2>1. Tail(call.left) \in Seq(Lined) /\ line \in Lined
        BY <1>1, HeadAndTail
    <2> QED
        BY <1>1, <2>1, RestOfLines, ElementsOfList
<1> DEFINE rest == call'.left
           left == call.left
<1>6. /\ \A m \in DOMAIN rest : m \in Nat /\ m + 1 # 1 /\ m + 1 \in DOMAIN left /\ rest[m] = left[m + 1]
      /\ \A m \in DOMAIN left : m # 1 => m - 1 \in DOMAIN rest /\ rest[m - 1] = left[m]
    BY <1>2, <1>5
<1>7. /\ OneLineEach(left)
      /\ \A m \in DOMAIN left : Among(left[m], list)
      /\ \A n \in DOMAIN list : Has(list[n]) \/ Among(list[n], left)
      /\ \A i \in Item : i \in ItemsOf(left) \/ i \notin ItemsOf(list) => cart[i] = call.seen[i]
    BY <1>4 DEF Writing
<1>8. 1 \in DOMAIN left /\ line = left[1]
    BY <1>5
<1>9. /\ cart' = [cart EXCEPT ![line.item] = line.qty] /\ line.item \in Item
      /\ cart \in [Item -> 0..Top]
    <2>1. line.item \in ItemsOf(call.left) /\ line.item \in Item
        BY <1>5 DEF ItemsOf, Lined
    <2>2. cart[line.item] = call.seen[line.item]
        BY <1>4, <2>1 DEF Writing
    <2> HIDE DEF line
    <2>3. PICK q \in Held(call.seen, line) : cart' = [cart EXCEPT ![line.item] = q]
        BY <1>1
    <2>4. q = line.qty
        BY <1>5, <2>2, HeldIsAsked
    <2> QED
        BY <2>1, <2>3, <2>4, SyncFacts
<1>10. PICK k \in DOMAIN list : line = list[k]
    BY <1>4, <1>5 DEF Writing, Among
<1> HIDE DEF line, rest, left
<1>11. \A m \in DOMAIN rest : rest[m].item # line.item
    BY <1>6, <1>7, <1>8 DEF OneLineEach
<1>12. OneLineEach(rest) /\ \A m \in DOMAIN rest : Among(rest[m], list)
    <2>1. ASSUME NEW m \in DOMAIN rest, NEW n \in DOMAIN rest, rest[m].item = rest[n].item
          PROVE  m = n
        <3>1. m + 1 = n + 1
            BY <1>6, <1>7, <2>1 DEF OneLineEach
        <3> QED
            BY <1>6, <3>1
    <2> QED
        BY <1>6, <1>7, <2>1 DEF OneLineEach
<1>13. \A n \in DOMAIN list : cart'[list[n].item] = list[n].qty \/ Among(list[n], rest)
    <2> SUFFICES ASSUME NEW n \in DOMAIN list PROVE cart'[list[n].item] = list[n].qty \/ Among(list[n], rest)
        OBVIOUS
    <2>0. list[n].item \in Item
        <3>1. list \in Seq(Lined)
            BY <1>1, CartSyncAssumption DEF Lined
        <3>2. list[n] \in Lined
            BY <3>1, ElementsOfList
        <3> QED
            BY <3>2 DEF Lined
    <2>1. CASE list[n].item = line.item
        <3>1. n = k
            BY <1>3, <1>10, <2>1 DEF OneLineEach
        <3> QED
            BY <1>9, <1>10, <3>1
    <2>2. CASE list[n].item # line.item /\ Has(list[n])
        BY <1>9, <2>0, <2>2 DEF Has
    <2>3. CASE list[n].item # line.item /\ ~Has(list[n])
        <3>1. PICK m \in DOMAIN left : list[n] = left[m]
            BY <1>7, <2>3 DEF Among
        <3>2. m # 1
            BY <1>8, <2>3, <3>1
        <3> QED
            BY <1>6, <3>1, <3>2 DEF Among
    <2> QED
        BY <2>1, <2>2, <2>3
<1>14. ASSUME NEW i \in Item, i \in ItemsOf(rest) \/ i \notin ItemsOf(list)
       PROVE  cart'[i] = call'.seen[i]
    <2>1. line.item \in ItemsOf(list)
        BY <1>10 DEF ItemsOf
    <2>2. i # line.item
        BY <1>11, <1>14, <2>1 DEF ItemsOf
    <2>3. i \in ItemsOf(left) \/ i \notin ItemsOf(list)
        BY <1>6, <1>14 DEF ItemsOf
    <2>4. cart[i] = call.seen[i]
        BY <1>7, <2>3
    <2> QED
        BY <1>2, <1>9, <2>2, <2>4
<1>15. Writing(list, call.left)'
    <2> USE DEF rest
    <2>1. OneLineEach(call'.left) /\ \A m \in DOMAIN call'.left : Among(call'.left[m], call'.list)
        BY <1>2, <1>12
    <2>2. \A n \in DOMAIN call'.list : Has(list[n])' \/ Among(call'.list[n], call'.left)
        BY <1>2, <1>13 DEF Has
    <2>3. \A i \in Item : i \in ItemsOf(call'.left) \/ i \notin ItemsOf(call'.list) => cart'[i] = call'.seen[i]
        BY <1>2, <1>14
    <2> QED
        BY <2>1, <2>2, <2>3 DEF Writing
<1> QED
    BY <1>2, <1>15 DEF LinesInv

(* All lines are written: what the cart had beside them is to go.          *)
LEMMA WroteGoesOn ==
    ASSUME SyncInv, LinesInv, WroteLines
    PROVE  LinesInv'
<1> SUFFICES ASSUME alone' PROVE LinesInv'
    BY DEF LinesInv
<1> DEFINE list == call.list
<1>1. /\ call \in CallType /\ list \in Lists /\ alone /\ call.at = "lines" /\ call.left = <<>>
      /\ UNCHANGED cart /\ cart \in [Item -> 0..Top]
      /\ call' = [call EXCEPT !.at = "drop", !.gone = Unlisted(list, call.seen)]
    BY SyncFacts DEF WroteLines, Others, SyncInv, SyncShape
<1>2. /\ call'.at = "drop" /\ call'.list = list /\ call'.gone = Unlisted(list, call.seen) /\ ~Filled'
    BY <1>1 DEF CallType, Filled
<1>3. Writing(list, call.left) /\ list # Untouched
    BY <1>1, CartSyncAssumption DEF LinesInv
<1>4. \A n \in DOMAIN list : Has(list[n])
    BY <1>1, <1>3 DEF Writing, Among
<1>5. ASSUME NEW i \in Item, i \notin ItemsOf(list), i \notin Unlisted(list, call.seen) PROVE cart[i] = 0
    <2>1. cart[i] = call.seen[i] /\ cart[i] \in 0..Top /\ Top \in Nat
        BY <1>1, <1>3, <1>5, CartSyncAssumption DEF Writing
    <2>2. ~(call.seen[i] > 0)
        BY <1>5 DEF Unlisted
    <2> QED
        BY <2>1, <2>2
<1>6. Unlisted(list, call.seen) \cap ItemsOf(list) = {}
    BY DEF Unlisted
<1>7. Dropping(call.list)'
    BY <1>1, <1>2, <1>4, <1>5, <1>6 DEF Dropping, HasAll, Has
<1> QED
    BY <1>2, <1>7 DEF LinesInv

(* One of them goes: it is none of the list.                               *)
LEMMA DropGoesOn ==
    ASSUME SyncInv, LinesInv, DropLine, ~Fails
    PROVE  LinesInv'
<1> SUFFICES ASSUME alone' PROVE LinesInv'
    BY DEF LinesInv
<1> DEFINE list == call.list
<1>1. /\ call \in CallType /\ list \in Lists /\ alone /\ call.at = "drop"
      /\ cart \in [Item -> 0..Top] /\ call.gone \in SUBSET Item
    BY SyncFacts DEF DropLine, SyncInv, SyncShape, CallType
<1>2. PICK i \in call.gone : cart' = [cart EXCEPT ![i] = 0] /\ call' = [call EXCEPT !.gone = @ \ {i}]
    BY DEF DropLine, Fails
<1>3. /\ call'.at = "drop" /\ call'.list = list /\ call'.gone = call.gone \ {i} /\ ~Filled'
    BY <1>1, <1>2 DEF CallType, Filled
<1>4. Dropping(list)
    BY <1>1, CartSyncAssumption DEF LinesInv
<1>5. ASSUME NEW n \in DOMAIN list PROVE cart'[list[n].item] = list[n].qty
    <2>1. list[n] \in Lined
        <3>1. list \in Seq(Lined)
            BY <1>1, CartSyncAssumption DEF Lined
        <3> QED
            BY <3>1, ElementsOfList
    <2>2. list[n].item \in Item /\ list[n].item # i
        BY <1>4, <2>1 DEF Dropping, ItemsOf, Lined
    <2> QED
        BY <1>1, <1>2, <1>4, <2>2 DEF Dropping, HasAll, Has
<1>6. \A j \in Item : j \in ItemsOf(list) \/ j \in call.gone \ {i} \/ cart'[j] = 0
    BY <1>1, <1>2, <1>4 DEF Dropping
<1>7. HasAll(call.list)'
    BY <1>3, <1>5 DEF HasAll, Has
<1>8. Dropping(call.list)'
    BY <1>3, <1>4, <1>6, <1>7 DEF Dropping
<1> QED
    BY <1>3, <1>8 DEF LinesInv

(* Nothing is left to go: the cart is what was asked for.                  *)
LEMMA DroppedGoesOn ==
    ASSUME SyncInv, LinesInv, Dropped
    PROVE  LinesInv'
<1> SUFFICES ASSUME alone' PROVE LinesInv'
    BY DEF LinesInv
<1> DEFINE at == IF call.codes # Untouched THEN "codes" ELSE IF call.new THEN "region" ELSE "pay"
<1>1. /\ call.at = "drop" /\ call.gone = {} /\ Go(at) /\ UNCHANGED <<cart, alone>> /\ call.list \in Lists
      /\ at \in Phase /\ at \notin {"lines", "drop"}
    BY DEF Dropped, Others, SyncInv, SyncShape, Phase
<1>2. Dropping(call.list)
    BY <1>1, CartSyncAssumption DEF LinesInv
<1>3. Exact(call.list)
    BY <1>1, <1>2 DEF Dropping, Exact
<1> HIDE DEF at
<1>4. call'.list = call.list /\ call'.at = at
    BY <1>1, GoKeeps
<1>5. Exact(call.list)'
    BY <1>1, <1>3, <1>4 DEF Exact, HasAll, Has
<1> QED
    BY <1>1, <1>4, <1>5 DEF LinesInv

(* Every other step leaves the cart alone, or somebody else writes to it.  *)
LEMMA LinesStep ==
    ASSUME SyncInv, LinesInv, [SyncNext]_syncVars, \A list \in Lists : OneLineEach(list)
    PROVE  LinesInv'
<1>1. CASE Fails
    BY <1>1, LinesFail DEF LinesInv
<1>2. CASE UNCHANGED syncVars
    BY <1>2 DEF syncVars, LinesInv, Writing, Dropping, Exact, HasAll, Has, Filled
<1>3. ASSUME NEW at \in Phase, Go(at), UNCHANGED <<cart, alone>>, at \notin {"lines", "drop"},
             \/ Filled
             \/ at \notin {"codes", "clear", "pay", "save", "answered"} /\ (at = "region" => ~call.new)
             \/ call.list = Untouched
      PROVE  LinesInv'
    <2>1. call'.at = at /\ call'.new = call.new /\ call'.list = call.list
        BY <1>3, GoKeeps
    <2>2. CASE call.list = Untouched
        BY <2>1, <2>2 DEF LinesInv
    <2>3. CASE call.list # Untouched
        <3>1. Filled' => Filled
            BY <1>3, <2>1, <2>3 DEF Filled
        <3> QED
            BY <1>3, <2>1, <3>1, LinesRest
    <2> QED
        BY <2>2, <2>3
<1>4. ASSUME NEW list \in Lists \cup {Untouched}, NEW codes \in CodeLists \cup {Untouched},
             BeginCreate(list, codes) \/ BeginUpdate(list, codes)
      PROVE  LinesInv'
    <2>1. \/ call'.list = Untouched
          \/ call'.at = "read"
          \/ call'.at = "region" /\ ~call'.new
        BY <1>4 DEF BeginCreate, BeginUpdate, NoCall
    <2> QED
        BY <2>1 DEF LinesInv, Filled
<1>5. CASE LookUpRegion
    <2> DEFINE at == IF call.new THEN "pay" ELSE IF call.list # Untouched THEN "read" ELSE AfterLines
    <2>1. call.at = "region" /\ UNCHANGED <<cart, alone>> /\ (Go(at) \/ Fails)
        BY <1>5 DEF LookUpRegion, Others
    <2>2. /\ at \in Phase /\ at \notin {"lines", "drop", "region"}
          /\ call.new \/ at = "read" \/ call.list = Untouched
        BY DEF AfterLines, Phase
    <2> HIDE DEF at
    <2>3. Filled \/ at = "read" \/ call.list = Untouched
        BY <2>1, <2>2 DEF Filled
    <2> QED
        BY <1>1, <1>3, <2>1, <2>2, <2>3
<1>6. CASE ReadLines
    BY <1>1, <1>6, ReadStarts
<1>7. CASE WriteLine
    BY <1>1, <1>7, WriteGoesOn
<1>8. CASE WroteLines
    BY <1>8, WroteGoesOn
<1>9. CASE DropLine
    BY <1>1, <1>9, DropGoesOn
<1>10. CASE Dropped
    BY <1>10, DroppedGoesOn
<1>11. ASSUME NEW rejected, NEW kept, Settle(rejected, kept), UNCHANGED <<cart, alone>>, Filled
       PROVE  LinesInv'
    <2>1. call'.list = call.list /\ call'.at \notin {"lines", "drop"}
        BY <1>11, SyncFacts DEF Settle, AfterCodes, CallType
    <2> QED
        BY <1>11, <2>1, LinesRest
<1>12. CASE CodesWithoutPromotions \/ NoCodes \/ ApplyFirst \/ ClearRefused
    <2>1. /\ call.at \in {"codes", "clear"} /\ UNCHANGED <<cart, alone>>
          /\ (\E rejected, kept \in BOOLEAN : Settle(rejected, kept)) \/ Fails \/ Go("clear")
        <3>1. CASE CodesWithoutPromotions
            BY <3>1 DEF CodesWithoutPromotions
        <3>2. CASE NoCodes
            BY <3>2 DEF NoCodes
        <3>3. CASE ApplyFirst
            BY <3>3 DEF ApplyFirst
        <3>4. CASE ClearRefused
            BY <3>4 DEF ClearRefused
        <3> QED
            BY <1>12, <3>1, <3>2, <3>3, <3>4
    <2>2. Filled
        BY <2>1 DEF Filled
    <2> QED
        BY <1>1, <1>3, <1>11, <2>1, <2>2 DEF Phase
<1>13. CASE LookUpPayWays \/ SaveSession
    <2>1. /\ call.at \in {"pay", "save"} /\ UNCHANGED <<cart, alone>>
          /\ Go("save") \/ Go("answered") \/ Fails
        BY <1>13 DEF LookUpPayWays, SaveSession, Others
    <2>2. Filled
        BY <2>1 DEF Filled
    <2> QED
        BY <1>1, <1>3, <2>1, <2>2 DEF Phase
<1>14. CASE EndCall
    BY <1>14 DEF EndCall, NoCall, LinesInv
<1>15. CASE ShopperEdits
    BY <1>15 DEF ShopperEdits, LinesInv
<1>16. CASE SwitchPromotions
    BY <1>16 DEF SwitchPromotions, LinesInv, Writing, Dropping, Exact, HasAll, Has, Filled
<1> QED
    BY <1>2, <1>4, <1>5, <1>6, <1>7, <1>8, <1>9, <1>10, <1>12, <1>13, <1>14, <1>15, <1>16
       DEF SyncNext, CallStep

(* If no list asks for a product twice: an answered call with lines leaves *)
(* the cart with exactly these, whatever it held and however earlier calls *)
(* broke off, unless somebody else wrote to it meanwhile (SyncCartLines).  *)
THEOREM SyncHoldsExactlyLines ==
    ASSUME \A list \in Lists : OneLineEach(list)
    PROVE  SyncSpec => []HoldsExactlyLines
<1>1. SyncInit => LinesInv
    BY DEF SyncInit, NoCall, LinesInv
<1>2. SyncInv /\ LinesInv => HoldsExactlyLines
    <2> SUFFICES ASSUME SyncInv, LinesInv, call.at = "answered", call.list # Untouched, alone
                 PROVE  cart = Submitted(call.list)
        BY DEF HoldsExactlyLines
    <2>1. Exact(call.list) /\ call.list \in Lists /\ cart \in [Item -> 0..Top]
        BY SyncFacts DEF LinesInv, Filled
    <2> QED
        BY <2>1, ExactIsSubmitted
<1>3. SyncInv /\ LinesInv /\ [SyncNext]_syncVars => LinesInv'
    BY LinesStep
<1> QED
    BY <1>1, <1>2, <1>3, SyncInitially, SyncStep, PTL DEF SyncSpec

-----------------------------------------------------------------------------
(* CheckoutView.  The status is always that of the data it was computed    *)
(* from; once there is a country, the choices are its regions and the      *)
(* region one of them or none; and ACP selects no pickup point.            *)
DeliveryType(regions) ==
    [country : Country \cup {Empty}, address : BOOLEAN, number : BOOLEAN, kind : Kinds,
     provider : Provider \cup {Empty}, point : Points, region : regions]

ViewType(regions) ==
    [buyer : BOOLEAN, delivery : DeliveryType(regions), choices : SUBSET DOMAIN Region,
     payWay : BOOLEAN, status : {"incomplete", "ready"}]

Chosens == DOMAIN Region \cup {Empty}

DataOk(v, s) ==
    /\ v \in ViewType(Chosens)
    /\ v.delivery.country # Empty =>
          /\ v.choices = RegionsOf(v.delivery.country)
          /\ v.delivery.region \in v.choices \cup {Empty}
    /\ s = "acp" => v.delivery.kind \in {Empty, "home_delivery"}

StatusOk(v, s) ==
    v.status = IF v.buyer /\ Complete(v.delivery) /\ ~RegionMissing(v) /\ (s = "acp" \/ v.payWay)
               THEN "ready" ELSE "incomplete"

ViewInv ==
    /\ surface \in {"ucp", "acp"} /\ reply.of \in {"nothing", "cart", "order"}
    /\ DataOk(view, surface) /\ StatusOk(view, surface)

(* Nothing is known at first, and nothing is ready.                        *)
LEMMA ViewInitially == ViewInit => ViewInv
<1> SUFFICES ASSUME ViewInit PROVE ViewInv
    OBVIOUS
<1>1. surface \in {"ucp", "acp"} /\ reply.of = "nothing"
    BY DEF ViewInit, NoReply
<1>2. /\ view = [buyer |-> FALSE, delivery |-> NoDelivery, choices |-> {}, payWay |-> FALSE,
                 status |-> "incomplete"]
      /\ NoDelivery \in DeliveryType(Chosens) /\ NoDelivery.country = Empty
      /\ NoDelivery.kind = Empty
    BY DEF ViewInit, NoDelivery, DeliveryType, Chosens, Kinds, Points
<1>3. DataOk(view, surface)
    BY <1>2 DEF DataOk, ViewType
<1>4. StatusOk(view, surface)
    BY <1>2 DEF StatusOk
<1> QED
    BY <1>1, <1>3, <1>4 DEF ViewInv

(* The computed status is that of the data.                                *)
LEMMA RecomputedIsOk ==
    ASSUME NEW v, DataOk(v, surface)
    PROVE  DataOk(Recomputed(v), surface) /\ StatusOk(Recomputed(v), surface)
<1> DEFINE st == IF v.buyer /\ Complete(v.delivery) /\ ~RegionMissing(v) /\ (surface = "acp" \/ v.payWay)
                 THEN "ready" ELSE "incomplete"
           w == Recomputed(v)
<1>1. w = [v EXCEPT !.status = st] /\ st \in {"incomplete", "ready"}
    BY DEF Recomputed
<1>2. v \in ViewType(Chosens)
    BY DEF DataOk
<1> HIDE DEF w
<1>3. /\ w \in ViewType(Chosens) /\ w.status = st /\ w.buyer = v.buyer /\ w.delivery = v.delivery
      /\ w.choices = v.choices /\ w.payWay = v.payWay
    BY <1>1, <1>2 DEF ViewType
<1>4. DataOk(w, surface)
    BY <1>3 DEF DataOk
<1>5. RegionMissing(w) <=> RegionMissing(v)
    BY <1>3 DEF RegionMissing
<1>6. StatusOk(w, surface)
    BY <1>3, <1>5 DEF StatusOk
<1> QED
    BY <1>4, <1>6 DEF w

(* A resolved region is one of the country's, or none.                     *)
LEMMA ResolvedIsOk ==
    ASSUME NEW v, NEW regions, v \in ViewType(regions), NEW called,
           surface = "acp" => v.delivery.kind \in {Empty, "home_delivery"}
    PROVE  DataOk(RegionResolved(v, called), surface)
<1> DEFINE c == RegionsOf(v.delivery.country)
           found == {r \in c : called \in RegionNames[r]}
           chosen == IF found = {} THEN Empty ELSE CHOOSE r \in found : TRUE
           f == [v EXCEPT !.choices = c]
           d == [v.delivery EXCEPT !.region = chosen]
           w == RegionResolved(v, called)
<1>1. c \subseteq DOMAIN Region /\ chosen \in c \cup {Empty}
    BY DEF RegionsOf
<1>2. v.delivery \in DeliveryType(regions)
    BY DEF ViewType
<1> HIDE DEF c, chosen
<1>3. /\ d \in DeliveryType(Chosens) /\ d.region = chosen
      /\ d.country = v.delivery.country /\ d.kind = v.delivery.kind
    BY <1>1, <1>2 DEF DeliveryType, Chosens
<1>4. /\ f.delivery = v.delivery /\ f.choices = c
      /\ f \in ViewType(regions)
    BY <1>1 DEF ViewType
<1>5. w = [f EXCEPT !.delivery = d]
    BY <1>4 DEF RegionResolved, c, chosen, ViewType
<1> HIDE DEF f, d, w
<1>6. w \in ViewType(Chosens) /\ w.delivery = d /\ w.choices = c
    BY <1>3, <1>4, <1>5 DEF ViewType
<1>7. c = RegionsOf(d.country)
    BY <1>3 DEF c
<1> QED
    BY <1>1, <1>3, <1>6, <1>7 DEF DataOk, w

(* Who buys and how they pay leaves the delivery as it is.                 *)
LEMMA PartsAreOk ==
    ASSUME NEW v, DataOk(v, surface), NEW b \in BOOLEAN
    PROVE  /\ DataOk([v EXCEPT !.buyer = b], surface)
           /\ DataOk([v EXCEPT !.payWay = b], surface)
BY DEF DataOk, ViewType

(* An update leaves data whose status was computed from it.                *)
LEMMA UpdateStep ==
    ASSUME ViewInv, NEW v, DataOk(v, surface), view' = Recomputed(v), UNCHANGED <<surface, reply>>
    PROVE  ViewInv'
BY RecomputedIsOk DEF ViewInv

(* The updates of UCP.                                                     *)
LEMMA UcpUpdatesStep == ViewInv /\ UcpUpdates => ViewInv'
<1> SUFFICES ASSUME ViewInv, UcpUpdates PROVE ViewInv'
    OBVIOUS
<1>0. DataOk(view, surface) /\ UNCHANGED <<surface, reply>> /\ surface = "ucp"
    BY DEF ViewInv, UcpUpdates
<1>1. ASSUME NEW given \in BOOLEAN, view' = Recomputed([view EXCEPT !.buyer = given])
      PROVE  ViewInv'
    <2> DEFINE v == [view EXCEPT !.buyer = given]
    <2>1. DataOk(v, surface)
        BY <1>0, PartsAreOk
    <2>2. view' = Recomputed(v)
        BY <1>1
    <2> HIDE DEF v
    <2> QED
        BY <1>0, <2>1, <2>2, UpdateStep
<1>2. ASSUME view' = Recomputed([view EXCEPT !.payWay = TRUE]) PROVE ViewInv'
    <2> DEFINE v == [view EXCEPT !.payWay = TRUE]
    <2>1. DataOk(v, surface)
        BY <1>0, PartsAreOk
    <2>2. view' = Recomputed(v)
        BY <1>2
    <2> HIDE DEF v
    <2> QED
        BY <1>0, <2>1, <2>2, UpdateStep
<1>3. ASSUME NEW c \in Country \cup {Empty}, NEW a1 \in BOOLEAN, NEW n \in BOOLEAN,
             NEW k \in Kinds, NEW pr \in Provider \cup {Empty}, NEW called \in Names,
             NEW pt \in IF k = "pickup_point" THEN Points ELSE {{}},
             view' = Recomputed(RegionResolved(
                 [view EXCEPT !.delivery = [country |-> c, address |-> a1, number |-> n, kind |-> k,
                                            provider |-> pr, point |-> pt, region |-> called]], called))
      PROVE  ViewInv'
    <2> DEFINE d == [country |-> c, address |-> a1, number |-> n, kind |-> k,
                     provider |-> pr, point |-> pt, region |-> called]
               v == [view EXCEPT !.delivery = d]
               w == RegionResolved(v, called)
    <2>1. pt \in Points
        BY DEF Points
    <2>2. d \in DeliveryType(Names)
        BY <2>1 DEF DeliveryType
    <2>3. view' = Recomputed(w)
        BY <1>3
    <2> HIDE DEF d
    <2>4. v \in ViewType(Names)
        BY <1>0, <2>2 DEF DataOk, ViewType
    <2> HIDE DEF v
    <2>5. DataOk(w, surface)
        BY <1>0, <2>4, ResolvedIsOk
    <2> HIDE DEF w
    <2> QED
        BY <1>0, <2>3, <2>5, UpdateStep
<1> QED
    BY <1>1, <1>2, <1>3, ZenonT(60) DEF UcpUpdates

(* An update of ACP ends in the choice of a pay way.                       *)
LEMMA AcpSettles ==
    ASSUME ViewInv, NEW offline \in BOOLEAN, NEW w, DataOk(w, surface),
           view' = Recomputed(PayWaySelected(w, offline)), UNCHANGED <<surface, reply>>
    PROVE  ViewInv'
<1> DEFINE b == Complete(w.delivery) /\ offline
<1>1. b \in BOOLEAN
    BY DEF Complete
<1>2. PayWaySelected(w, offline) = [w EXCEPT !.payWay = b]
    BY DEF PayWaySelected
<1> HIDE DEF b
<1>3. DataOk(PayWaySelected(w, offline), surface)
    BY <1>1, <1>2, PartsAreOk
<1> QED
    BY <1>3, UpdateStep

(* A selection and an address keep the parts they do not set.              *)
LEMMA SelectedIsOk ==
    ASSUME NEW v, DataOk(v, surface), NEW pr \in Provider \cup {Empty}
    PROVE  DataOk(HomeDelivery(v, pr), surface)
<1> DEFINE d == [v.delivery EXCEPT !.kind = "home_delivery", !.provider = pr]
           w == HomeDelivery(v, pr)
<1>0. v \in ViewType(Chosens) /\ v.delivery \in DeliveryType(Chosens)
    BY DEF DataOk, ViewType
<1>1. w = [v EXCEPT !.delivery = d]
    BY <1>0 DEF HomeDelivery, ViewType
<1>2. /\ d \in DeliveryType(Chosens) /\ d.kind = "home_delivery"
      /\ d.country = v.delivery.country /\ d.region = v.delivery.region
    BY <1>0 DEF DeliveryType, Kinds
<1> HIDE DEF d, w
<1>3. w \in ViewType(Chosens) /\ w.delivery = d /\ w.choices = v.choices
    BY <1>0, <1>1, <1>2 DEF ViewType
<1>4. DataOk(w, surface)
    BY <1>2, <1>3 DEF DataOk
<1> QED
    BY <1>4 DEF w

(* A destination that is set and its region resolved leave the data in     *)
(* order.                                                                  *)
LEMMA AddressedIsOk ==
    ASSUME NEW v, DataOk(v, surface), NEW c \in Country \cup {Empty}, NEW address \in BOOLEAN,
           NEW number \in BOOLEAN, NEW called
    PROVE  DataOk(RegionResolved(Addressed(v, c, address, number), called), surface)
<1> DEFINE d == [v.delivery EXCEPT !.country = c, !.address = address, !.number = number]
           w == Addressed(v, c, address, number)
<1>0. v \in ViewType(Chosens) /\ v.delivery \in DeliveryType(Chosens)
    BY DEF DataOk, ViewType
<1>1. w = [v EXCEPT !.delivery = d]
    BY <1>0 DEF Addressed, ViewType
<1>2. d \in DeliveryType(Chosens) /\ d.kind = v.delivery.kind
    BY <1>0 DEF DeliveryType
<1> HIDE DEF d, w
<1>3. w \in ViewType(Chosens) /\ w.delivery.kind = v.delivery.kind
    BY <1>0, <1>1, <1>2 DEF ViewType
<1>4. DataOk(RegionResolved(w, called), surface)
    BY <1>3, ResolvedIsOk DEF DataOk
<1> QED
    BY <1>4 DEF w

(* The updates of ACP.                                                     *)
LEMMA AcpUpdatesStep == ViewInv /\ AcpUpdates => ViewInv'
<1> SUFFICES ASSUME ViewInv, AcpUpdates PROVE ViewInv'
    OBVIOUS
<1>0. DataOk(view, surface) /\ UNCHANGED <<surface, reply>>
    BY DEF ViewInv, AcpUpdates
<1>1. PICK offline \in BOOLEAN :
          \/ view' = Recomputed(PayWaySelected([view EXCEPT !.buyer = TRUE], offline))
          \/ \E pr \in Provider \cup {Empty} :
                view' = Recomputed(PayWaySelected(HomeDelivery(view, pr), offline))
          \/ \E c \in Country \cup {Empty}, address \in BOOLEAN, number \in BOOLEAN, called \in Names :
                view' = Recomputed(PayWaySelected(
                            RegionResolved(Addressed(view, c, address, number), called), offline))
    BY DEF AcpUpdates
<1>2. CASE view' = Recomputed(PayWaySelected([view EXCEPT !.buyer = TRUE], offline))
    <2> DEFINE w == [view EXCEPT !.buyer = TRUE]
    <2>1. DataOk(w, surface) /\ view' = Recomputed(PayWaySelected(w, offline))
        BY <1>0, <1>2, PartsAreOk
    <2> HIDE DEF w
    <2> QED
        BY <1>0, <2>1, AcpSettles
<1>3. ASSUME NEW pr \in Provider \cup {Empty},
             view' = Recomputed(PayWaySelected(HomeDelivery(view, pr), offline))
      PROVE  ViewInv'
    BY <1>0, <1>3, SelectedIsOk, AcpSettles
<1>4. ASSUME NEW c \in Country \cup {Empty}, NEW address \in BOOLEAN, NEW number \in BOOLEAN,
             NEW called \in Names,
             view' = Recomputed(PayWaySelected(
                         RegionResolved(Addressed(view, c, address, number), called), offline))
      PROVE  ViewInv'
    BY <1>0, <1>4, AddressedIsOk, AcpSettles
<1> QED
    BY <1>1, <1>2, <1>3, <1>4

(* Every step keeps the invariant.                                         *)
LEMMA ViewStep == ViewInv /\ [ViewNext]_viewVars => ViewInv'
<1> SUFFICES ASSUME ViewInv, [ViewNext]_viewVars PROVE ViewInv'
    OBVIOUS
<1>1. ASSUME UNCHANGED <<surface, view>>, reply'.of \in {"nothing", "cart", "order"} PROVE ViewInv'
    BY <1>1 DEF ViewInv
<1>2. CASE ReplyFromCart \/ ReplyFromOrder \/ NextCall
    <2>1. UNCHANGED <<surface, view>>
        BY <1>2 DEF ReplyFromCart, ReplyFromOrder, NextCall
    <2>2. ReplyFromCart => reply'.of = "cart"
        BY DEF ReplyFromCart
    <2>3. ReplyFromOrder => reply'.of = "order"
        BY DEF ReplyFromOrder
    <2>4. NextCall => reply'.of = "nothing"
        BY DEF NextCall, NoReply
    <2> QED
        BY <1>1, <1>2, <2>1, <2>2, <2>3, <2>4
<1>3. CASE UNCHANGED viewVars
    BY <1>3 DEF viewVars, ViewInv
<1> QED
    BY <1>2, <1>3, UcpUpdatesStep, AcpUpdatesStep DEF ViewNext

(* A session that is not ready asks for something, and one that is ready   *)
(* can be ordered, whatever updates led there, for all countries, regions  *)
(* and names of regions.                                                   *)
THEOREM ViewReadinessIsHonest == ViewSpec => []ReadinessIsHonest
<1>1. ViewInv => ReadinessIsHonest
    <2> SUFFICES ASSUME ViewInv PROVE ReadinessIsHonest
        OBVIOUS
    <2> DEFINE d == view.delivery
               ready == /\ view.buyer /\ Complete(d) /\ ~RegionMissing(view)
                        /\ surface = "acp" \/ view.payWay
    <2>0. /\ view \in ViewType(Chosens) /\ d \in DeliveryType(Chosens)
          /\ surface \in {"ucp", "acp"}
        BY DEF ViewInv, DataOk, ViewType
    <2>1. view.status = IF ready THEN "ready" ELSE "incomplete"
        BY DEF ViewInv, StatusOk
    <2>2. CASE ready
        <3>1. /\ d.country # Empty /\ d.address /\ d.number /\ view.buyer
              /\ surface = "ucp" => view.payWay
            BY <2>2 DEF Complete
        <3>2. /\ view.choices = RegionsOf(d.country)
              /\ d.region \in RegionsOf(d.country) \cup {Empty}
            BY <3>1 DEF ViewInv, DataOk
        <3>3. RegionsOf(d.country) = {} \/ d.region # Empty
            BY <2>2, <3>2 DEF RegionMissing
        <3> HIDE DEF ready
        <3>4. view.status = "ready"
            BY <2>1, <2>2
        <3> QED
            BY <3>1, <3>2, <3>3, <3>4 DEF ReadinessIsHonest
    <2>3. CASE ~ready /\ surface = "ucp"
        <3>1. \/ "buyer" \in Missing(view) \/ "fulfillment" \in Missing(view)
              \/ "region" \in Missing(view) \/ "payWay" \in Missing(view)
            BY <2>3 DEF Missing
        <3> QED
            BY <2>1, <2>3, <3>1 DEF ReadinessIsHonest
    <2>4. CASE ~ready /\ surface = "acp"
        <3>1. d.kind \in {Empty, "home_delivery"}
            BY <2>4 DEF ViewInv, DataOk
        <3>2. \/ ~view.buyer \/ RegionMissing(view)
              \/ d.country = Empty \/ ~d.address \/ ~d.number \/ d.kind = Empty
            BY <2>4, <3>1 DEF Complete
        <3>3. \/ "buyer" \in Asks(view) \/ "address" \in Asks(view) \/ "line_one" \in Asks(view)
              \/ "state" \in Asks(view) \/ "option" \in Asks(view)
            BY <3>2 DEF Asks
        <3> QED
            BY <2>1, <2>4, <3>3 DEF ReadinessIsHonest
    <2> QED
        BY <2>0, <2>2, <2>3, <2>4
<1> QED
    BY <1>1, ViewInitially, ViewStep, PTL DEF ViewSpec

\* Rows as replies show them.
RowType == [type : {"subtotal", "discount", "fulfillment", "fee"}, amount : Int]

\* The rows with one more, if it is shown.
With(rows, b, row) == rows \cup If(b, row)

(* A row that is not there yet adds its amount, if it is shown.            *)
LEMMA RowAdds ==
    ASSUME NEW rows \in SUBSET RowType, IsFiniteSet(rows), NEW row \in RowType,
           \A r \in rows : r.type # row.type, NEW b \in BOOLEAN
    PROVE  /\ With(rows, b, row) \in SUBSET RowType /\ IsFiniteSet(With(rows, b, row))
           /\ \A r \in With(rows, b, row) : r.type = row.type \/ \E q \in rows : r.type = q.type
           /\ AddUp(rows) \in Int
           /\ AddUp(With(rows, b, row)) = AddUp(rows) + (IF b THEN Signed(row) ELSE 0)
<1> DEFINE more == rows \cup {row}
           f == [r \in more |-> Signed(r)]
           g == [r \in rows |-> Signed(r)]
           all == With(rows, b, row)
<1>1. row \notin rows /\ more \ {row} = rows /\ more \in SUBSET RowType
    OBVIOUS
<1>2. IsFiniteSet(more)
    BY FS_AddElement
<1>3. \A r \in more : Signed(r) \in Int
    BY <1>1 DEF Signed, RowType
<1>4. Whole(f, more)
    BY <1>3 DEF Whole
<1>5. /\ SumFunctionOnSet(f, more) = f[row] + SumFunctionOnSet(f, rows)
      /\ SumFunctionOnSet(f, rows) \in Int
    <2>1. row \in more
        OBVIOUS
    <2> HIDE DEF f, more
    <2>2. /\ SumFunctionOnSet(f, more) = f[row] + SumFunctionOnSet(f, more \ {row})
          /\ SumFunctionOnSet(f, more \ {row}) \in Int
        BY <1>2, <1>4, <2>1, SumTakes
    <2>3. SumFunctionOnSet(f, more \ {row}) = SumFunctionOnSet(f, rows)
        BY <1>1
    <2> QED
        BY <2>2, <2>3
<1>6. SumFunctionOnSet(f, rows) = SumFunctionOnSet(g, rows)
    <2>1. \A r \in rows : f[r] = g[r]
        OBVIOUS
    <2> HIDE DEF f, g
    <2> QED
        BY <2>1, SumOfSame
<1>7. /\ AddUp(more) = SumFunctionOnSet(f, more) /\ AddUp(rows) = SumFunctionOnSet(g, rows)
      /\ f[row] = Signed(row)
    BY DEF AddUp, SumFunction
<1>8. AddUp(rows) \in Int /\ AddUp(more) = AddUp(rows) + Signed(row) /\ Signed(row) \in Int
    <2>1. Signed(row) \in Int
        BY <1>3
    <2> HIDE DEF f, g, more
    <2> QED
        BY <1>1, <1>5, <1>6, <1>7, <2>1
<1> HIDE DEF f, g
<1>9. CASE b
    <2>1. all = more /\ \A r \in more : r = row \/ r \in rows
        BY <1>9 DEF If, With
    <2> HIDE DEF all, more
    <2>2. AddUp(all) = AddUp(rows) + Signed(row)
        BY <1>8, <2>1
    <2> QED
        BY <1>1, <1>2, <1>8, <1>9, <2>1, <2>2 DEF all
<1>10. CASE ~b
    <2>1. all = rows
        BY <1>10 DEF If, With
    <2> HIDE DEF all
    <2>2. AddUp(all) = AddUp(rows) + 0
        BY <1>8, <2>1
    <2> QED
        BY <1>8, <1>10, <2>1, <2>2 DEF all
<1> QED
    BY <1>9, <1>10

\* What a reply is made of: amounts, and none of a row that is not shown.
PriceType ==
    {p \in [items : Nat, discount : Nat, hasDelivery : BOOLEAN, delivery : Nat, hasFee : BOOLEAN, fee : Nat, total : Int] :
        /\ ~p.hasDelivery => p.delivery = 0
        /\ ~p.hasFee => p.fee = 0}

\* What the amounts make together.
Balance(p) == p.items - p.discount + p.delivery + p.fee

(* The rows of either surface add up to what the amounts make.             *)
LEMMA RowsAddUp ==
    ASSUME NEW p \in PriceType
    PROVE  AddUp(UcpRows(p)) = Balance(p) /\ AddUp(AcpRows(p)) = Balance(p)
<1>1. /\ p.items \in Nat /\ p.discount \in Nat /\ p.delivery \in Nat /\ p.fee \in Nat
      /\ p.hasDelivery \in BOOLEAN /\ p.hasFee \in BOOLEAN
      /\ ~p.hasDelivery => p.delivery = 0
      /\ ~p.hasFee => p.fee = 0
      /\ Balance(p) = p.items - p.discount + p.delivery + p.fee
    BY DEF PriceType, Balance
<1>2. ASSUME NEW shown \in {p.discount, -p.discount}
      PROVE  AddUp({Row("subtotal", p.items)} \cup If(p.discount > 0, Row("discount", shown))
                   \cup If(p.hasDelivery, Row("fulfillment", p.delivery)) \cup If(p.hasFee, Row("fee", p.fee)))
             = Balance(p)
    <2>a. PICK off \in BOOLEAN : off = TRUE <=> p.discount > 0
        <3>1. CASE p.discount > 0
            BY <3>1
        <3>2. CASE ~(p.discount > 0)
            BY <3>2
        <3> QED
            BY <3>1, <3>2
    <2> DEFINE one == {Row("subtotal", p.items)}
               two == With(one, off, Row("discount", shown))
               three == With(two, p.hasDelivery, Row("fulfillment", p.delivery))
               four == With(three, p.hasFee, Row("fee", p.fee))
    <2>0. /\ Row("subtotal", p.items) \in RowType /\ Row("discount", shown) \in RowType
          /\ Row("fulfillment", p.delivery) \in RowType /\ Row("fee", p.fee) \in RowType
          /\ Row("subtotal", p.items).type = "subtotal" /\ Row("discount", shown).type = "discount"
          /\ Row("fulfillment", p.delivery).type = "fulfillment" /\ Row("fee", p.fee).type = "fee"
          /\ Signed(Row("subtotal", p.items)) = p.items
          /\ p.discount > 0 => Signed(Row("discount", shown)) = -p.discount
          /\ Signed(Row("fulfillment", p.delivery)) = p.delivery /\ Signed(Row("fee", p.fee)) = p.fee
        BY <1>1 DEF Row, RowType, Signed
    <2>1. off = TRUE \/ off = FALSE
        OBVIOUS
    <2>2. /\ one \in SUBSET RowType /\ IsFiniteSet(one) /\ \A r \in one : r.type \in {"subtotal"}
          /\ AddUp(one) = p.items
        <3> DEFINE f == [r \in one |-> Signed(r)]
                   a == Row("subtotal", p.items)
        <3>1. IsFiniteSet(one)
            BY FS_Singleton
        <3>2. f[a] = p.items /\ a \in one /\ \A x \in one : x # a => f[x] = 0
            BY <2>0
        <3>3. AddUp(one) = SumFunctionOnSet(f, one)
            BY DEF AddUp, SumFunction
        <3>4. SumFunctionOnSet(f, one) = p.items
            <4> HIDE DEF f, a, one
            <4> QED
                BY <1>1, <3>1, <3>2, SumOfOne
        <3> QED
            BY <2>0, <3>1, <3>3, <3>4
    <2> HIDE DEF one
    <2>3. /\ two \in SUBSET RowType /\ IsFiniteSet(two) /\ \A r \in two : r.type \in {"subtotal", "discount"}
          /\ AddUp(two) = p.items - p.discount
        <3>1. /\ two \in SUBSET RowType /\ IsFiniteSet(two)
              /\ \A r \in two : r.type = "discount" \/ \E q \in one : r.type = q.type
              /\ AddUp(two) = p.items + (IF off THEN Signed(Row("discount", shown)) ELSE 0)
            <4> DEFINE row == Row("discount", shown)
            <4>1. row \in RowType /\ row.type = "discount" /\ \A r \in one : r.type # row.type
                BY <2>0, <2>2
            <4> HIDE DEF row
            <4>2. /\ With(one, off, row) \in SUBSET RowType /\ IsFiniteSet(With(one, off, row))
                  /\ \A r \in With(one, off, row) : r.type = row.type \/ \E q \in one : r.type = q.type
                  /\ AddUp(With(one, off, row)) = AddUp(one) + (IF off THEN Signed(row) ELSE 0)
                BY <2>2, <4>1, RowAdds
            <4> QED
                BY <2>2, <4>1, <4>2 DEF row
        <3> HIDE DEF two
        <3> QED
            BY <1>1, <2>a, <2>0, <2>1, <2>2, <3>1
    <2> HIDE DEF two
    <2>4. /\ three \in SUBSET RowType /\ IsFiniteSet(three)
          /\ \A r \in three : r.type \in {"subtotal", "discount", "fulfillment"}
          /\ AddUp(three) = p.items - p.discount + p.delivery
        <3>1. /\ three \in SUBSET RowType /\ IsFiniteSet(three)
              /\ \A r \in three : r.type = "fulfillment" \/ \E q \in two : r.type = q.type
              /\ AddUp(three) = (p.items - p.discount)
                                + (IF p.hasDelivery THEN Signed(Row("fulfillment", p.delivery)) ELSE 0)
            BY <1>1, <2>0, <2>3, RowAdds
        <3> HIDE DEF three
        <3> QED
            BY <1>1, <2>0, <2>3, <3>1
    <2> HIDE DEF three
    <2>5. AddUp(four) = (p.items - p.discount + p.delivery) + (IF p.hasFee THEN Signed(Row("fee", p.fee)) ELSE 0)
        BY <1>1, <2>0, <2>4, RowAdds
    <2>6. AddUp(four) = Balance(p)
        <3> HIDE DEF four
        <3> QED
            BY <1>1, <2>0, <2>5
    <2>7. If(off, Row("discount", shown)) = If(p.discount > 0, Row("discount", shown))
        BY <2>a, <2>1 DEF If
    <2> QED
        BY <2>6, <2>7 DEF one, two, three, With
<1> QED
    BY <1>2 DEF UcpRows, AcpRows

(* The totals of a cart: no row but the discount takes away, a fee is zero *)
(* unless it is due, and the total is what they make, or nothing.          *)
LEMMA PricingFits ==
    ASSUME NEW v, NEW c \in CartsPriced, NEW offers, offers \subseteq Offers, NEW ways, ways \subseteq PayWays
    PROVE  /\ Pricing(v, c, offers, ways) \in PriceType
           /\ Pricing(v, c, offers, ways).total = NotNegative(Balance(Pricing(v, c, offers, ways)))
           /\ Pricing(v, c, offers, ways).hasDelivery = Deliverable(v.delivery, offers)
<1> DEFINE there == Deliverable(v.delivery, offers)
           due == \E w \in ways : FeeDue(w, c.items - c.discount)
           delivery == IF there /\ ~c.free THEN DeliveryFee(v.delivery, offers) ELSE 0
           fee == IF due THEN (CHOOSE w \in ways : TRUE).cost ELSE 0
           total == NotNegative(c.items - c.discount + delivery + fee)
<1>1. c.items \in Nat /\ c.discount \in Nat
    BY ViewAssumption DEF CartsPriced
<1>2. delivery \in Nat /\ (~there => delivery = 0)
    <2>1. ASSUME there PROVE DeliveryFee(v.delivery, offers) \in Nat
        <3>1. \E o \in Chosen(v.delivery, offers) : o.fits
            BY <2>1 DEF Deliverable
        <3>2. (CHOOSE o \in Chosen(v.delivery, offers) : o.fits) \in Chosen(v.delivery, offers)
            BY <3>1
        <3>3. \A o \in Chosen(v.delivery, offers) : o.fee \in Nat
            BY ViewAssumption DEF Chosen, Offers
        <3> QED
            BY <3>2, <3>3 DEF DeliveryFee
    <2> QED
        BY <2>1
<1>3. fee \in Nat /\ (~due => fee = 0)
    <2>1. ASSUME due PROVE (CHOOSE w \in ways : TRUE).cost \in Nat
        <3>1. (CHOOSE w \in ways : TRUE) \in ways
            BY <2>1
        <3>2. \A w \in ways : w.cost \in Nat
            BY ViewAssumption DEF PayWays
        <3> QED
            BY <3>1, <3>2
    <2> QED
        BY <2>1
<1>4. /\ there \in BOOLEAN /\ due \in BOOLEAN
      /\ Pricing(v, c, offers, ways) =
            [items |-> c.items, discount |-> c.discount, hasDelivery |-> there, delivery |-> delivery,
             hasFee |-> due, fee |-> fee, total |-> total]
    BY DEF Pricing, Deliverable
<1> DEFINE p == Pricing(v, c, offers, ways)
<1> HIDE DEF there, due, delivery, fee
<1>5. total \in Int
    BY <1>1, <1>2, <1>3 DEF NotNegative
<1>6. /\ p.items = c.items /\ p.discount = c.discount /\ p.delivery = delivery /\ p.fee = fee
      /\ p.hasDelivery = there /\ p.hasFee = due /\ p.total = total
    BY <1>4
<1>7. Balance(p) = c.items - c.discount + delivery + fee
    BY <1>6 DEF Balance
<1> HIDE DEF p, total
<1>8. p \in PriceType
    <2>1. p \in [items : Nat, discount : Nat, hasDelivery : BOOLEAN, delivery : Nat, hasFee : BOOLEAN, fee : Nat, total : Int]
        BY <1>1, <1>2, <1>3, <1>4, <1>5 DEF p
    <2> QED
        BY <1>2, <1>3, <1>6, <2>1 DEF PriceType
<1>9. p.total = NotNegative(Balance(p))
    BY <1>6, <1>7 DEF total
<1> QED
    BY <1>6, <1>8, <1>9 DEF p, there

(* A cart's reply adds up; ACP's echoes the delivery that is in it, if the *)
(* store answered both times, and asks to be paid when the session is      *)
(* ready.                                                                  *)
LEMMA CartReplyStep ==
    ASSUME ViewInv, ReplyFromCart
    PROVE  TotalsAddUp'
<1>1. PICK c \in CartsPriced, offers \in {{}} \cup {{o} : o \in Offers}, ways \in {{}} \cup {{w} : w \in PayWays} :
          \E priced \in {offers, {}}, shown \in {offers, {}} :
             LET p == Pricing(view, c, priced, ways) IN
             reply' = [of |-> "cart", rows |-> Rows(p), total |-> p.total, priced |-> p.hasDelivery,
                       echoed |-> Echoed(view.delivery, shown), alike |-> priced = shown,
                       status |-> IF surface = "acp" THEN AcpStatus(view) ELSE view.status]
    BY DEF ReplyFromCart
<1>a. PICK priced \in {offers, {}}, shown \in {offers, {}} :
          LET p == Pricing(view, c, priced, ways) IN
          reply' = [of |-> "cart", rows |-> Rows(p), total |-> p.total, priced |-> p.hasDelivery,
                    echoed |-> Echoed(view.delivery, shown), alike |-> priced = shown,
                    status |-> IF surface = "acp" THEN AcpStatus(view) ELSE view.status]
    BY <1>1
<1> DEFINE p == Pricing(view, c, priced, ways)
<1>2. /\ p \in PriceType /\ p.hasDelivery = Deliverable(view.delivery, priced)
      /\ p.total = NotNegative(Balance(p))
    <2>1. priced \subseteq Offers /\ ways \subseteq PayWays
        OBVIOUS
    <2> QED
        BY <2>1, PricingFits
<1> HIDE DEF p
<1>3. reply' = [of |-> "cart", rows |-> Rows(p), total |-> p.total, priced |-> p.hasDelivery,
                echoed |-> Echoed(view.delivery, shown), alike |-> priced = shown,
                status |-> IF surface = "acp" THEN AcpStatus(view) ELSE view.status]
    BY <1>a DEF p
<1>4. AddUp(Rows(p)) = Balance(p)
    BY <1>2, RowsAddUp DEF Rows
<1>5. reply'.total = NotNegative(AddUp(reply'.rows)) /\ reply'.of = "cart"
    BY <1>2, <1>3, <1>4
<1>6. ASSUME surface = "acp", view.delivery.country # Empty
      PROVE  Echoed(view.delivery, priced) <=> Deliverable(view.delivery, priced)
    <2>1. view.delivery.kind \in {Empty, "home_delivery"} /\ "home_delivery" # Empty
        BY <1>6 DEF ViewInv, DataOk, Empty
    <2> QED
        BY <1>6, <2>1 DEF Echoed, Offered, Deliverable, Chosen
<1>7. ASSUME AcpStatus(view) = "ready_for_payment"
      PROVE  view.status = "ready" /\ Complete(view.delivery)
    <2>1. StatusOk(view, surface) /\ view.status \in {"incomplete", "ready"}
        BY DEF ViewInv, DataOk, ViewType
    <2>2. view.status # "incomplete"
        BY <1>7 DEF AcpStatus
    <2> QED
        BY <2>1, <2>2 DEF StatusOk
<1>8. UNCHANGED <<surface, view>>
    BY DEF ReplyFromCart
<1> QED
    BY <1>2, <1>3, <1>5, <1>6, <1>7, <1>8 DEF TotalsAddUp

(* The totals of an order are the store's, and its rows add up to them.    *)
LEMMA OrderReplyStep ==
    ASSUME ReplyFromOrder
    PROVE  TotalsAddUp'
<1>1. PICK o \in [items : Fee, discount : Fee, loyalty : Fee, shipping : Fee, fee : Fee] :
          LET total == o.items - o.discount - o.loyalty + o.shipping + o.fee
              p == OrderPricing([items |-> o.items, discount |-> o.discount, loyalty |-> o.loyalty,
                                 shipping |-> o.shipping, fee |-> o.fee, total |-> total])
          IN reply' = [of |-> "order", rows |-> Rows(p), total |-> p.total]
    BY DEF ReplyFromOrder
<1> DEFINE total == o.items - o.discount - o.loyalty + o.shipping + o.fee
           p == OrderPricing([items |-> o.items, discount |-> o.discount, loyalty |-> o.loyalty,
                              shipping |-> o.shipping, fee |-> o.fee, total |-> total])
<1>2. o.items \in Nat /\ o.discount \in Nat /\ o.loyalty \in Nat /\ o.shipping \in Nat /\ o.fee \in Nat
    BY ViewAssumption
<1>3. p = [items |-> o.items, discount |-> o.discount + o.loyalty, hasDelivery |-> TRUE, delivery |-> o.shipping,
           hasFee |-> o.fee > 0, fee |-> o.fee, total |-> total]
    BY DEF OrderPricing
<1>4. reply' = [of |-> "order", rows |-> Rows(p), total |-> p.total]
    BY <1>1
<1> HIDE DEF p
<1>5. p \in PriceType
    <2> DEFINE off == o.discount + o.loyalty
               due == o.fee > 0
    <2>1. /\ off \in Nat /\ total \in Int /\ total = o.items - off + o.shipping + o.fee
          /\ due \in BOOLEAN /\ (~due => o.fee = 0)
        BY <1>2
    <2>2. p = [items |-> o.items, discount |-> off, hasDelivery |-> TRUE, delivery |-> o.shipping,
               hasFee |-> due, fee |-> o.fee, total |-> total]
        BY <1>3
    <2> HIDE DEF off, due, total
    <2>3. p \in [items : Nat, discount : Nat, hasDelivery : BOOLEAN, delivery : Nat, hasFee : BOOLEAN, fee : Nat,
                 total : Int]
        BY <1>2, <2>1, <2>2
    <2>4. /\ p.items = o.items /\ p.discount = off /\ p.hasDelivery = TRUE /\ p.delivery = o.shipping
          /\ p.hasFee = due /\ p.fee = o.fee /\ p.total = total
        BY <2>2
    <2> QED
        BY <2>1, <2>3, <2>4 DEF PriceType
<1>6. AddUp(Rows(p)) = p.total
    <2>1. p.items = o.items /\ p.discount = o.discount + o.loyalty /\ p.delivery = o.shipping /\ p.fee = o.fee
        BY <1>3
    <2>2. p.total = o.items - o.discount - o.loyalty + o.shipping + o.fee
        BY <1>3
    <2>3. Balance(p) = p.total
        BY <1>2, <2>1, <2>2 DEF Balance
    <2> QED
        BY <1>5, <2>3, RowsAddUp DEF Rows
<1>7. AddUp(reply'.rows) = reply'.total /\ reply'.of = "order"
    BY <1>4, <1>6
<1> QED
    BY <1>7 DEF TotalsAddUp

(* For all amounts and whatever is offered, the rows of every reply add up *)
(* to its total, but for a cart whose discounts take more than there is,   *)
(* which costs nothing; and ACP shows a delivery exactly when it is        *)
(* priced, if the store answered both times (ComputePricing, orderPricing, *)
(* BuildCheckout, Render).                                                 *)
THEOREM ViewTotalsAddUp == ViewSpec => []TotalsAddUp
<1>1. reply = NoReply => TotalsAddUp
    BY DEF TotalsAddUp, NoReply
<1>2. ViewInit => TotalsAddUp
    BY <1>1 DEF ViewInit
<1>3. ViewInv /\ TotalsAddUp /\ [ViewNext]_viewVars => TotalsAddUp'
    <2> SUFFICES ASSUME ViewInv, TotalsAddUp, [ViewNext]_viewVars PROVE TotalsAddUp'
        OBVIOUS
    <2>1. (reply = NoReply => TotalsAddUp)'
        BY DEF TotalsAddUp, NoReply
    <2>2. CASE UcpUpdates \/ AcpUpdates \/ NextCall
        <3>1. reply' = NoReply
            BY <2>2 DEF UcpUpdates, AcpUpdates, NextCall
        <3> QED
            BY <2>1, <3>1
    <2>3. CASE UNCHANGED viewVars
        BY <2>3 DEF viewVars, TotalsAddUp
    <2> QED
        BY <2>2, <2>3, CartReplyStep, OrderReplyStep DEF ViewNext
<1> QED
    BY <1>2, <1>3, ViewInitially, ViewStep, PTL DEF ViewSpec

-----------------------------------------------------------------------------
(* The types.  Each part's inductive invariant has its type.               *)
LEMMA CallsHaveTheirTypes ==
    /\ CartsInv => CartsTypeOK
    /\ SyncInv => SyncTypeOK
    /\ ViewInv => ViewTypeOK
    /\ EventsInv => OrderEventsTypeOK
    /\ CreateInv => CreateTypeOK
<1>1. CartsInv => CartsTypeOK
    BY DEF CartsInv
<1>2. SyncInv => SyncTypeOK
    BY DEF SyncInv, SyncShape
<1>3. ViewInv => ViewTypeOK
    BY DEF ViewInv, DataOk, ViewType, DeliveryType, Chosens, ViewTypeOK
<1>4. EventsInv => OrderEventsTypeOK
    BY DEF EventsInv, EventShape
<1>5. CreateInv => CreateTypeOK
    BY DEF CreateInv
<1> QED
    BY <1>1, <1>2, <1>3, <1>4, <1>5

(* For carts, cart lists, quotations, orders, claims and conversations of  *)
(* any number, what the gateway and the store make of them has its type.   *)
THEOREM StoreTypes == StoreSpec => []StoreTypeOK
<1>1. CartsSpec => []CartsTypeOK
    BY CallsHaveTheirTypes, CartsInitially, CartsStep, PTL DEF CartsSpec
<1>2. SyncSpec => []SyncTypeOK
    BY CallsHaveTheirTypes, SyncInitially, SyncStep, PTL DEF SyncSpec
<1>3. ViewSpec => []ViewTypeOK
    BY CallsHaveTheirTypes, ViewInitially, ViewStep, PTL DEF ViewSpec
<1>4. OrderEventsSpec => []OrderEventsTypeOK
    BY CallsHaveTheirTypes, EventsInitially, EventsStep, PTL DEF OrderEventsSpec
<1>5. CreateSpec => []CreateTypeOK
    BY CallsHaveTheirTypes, CreateInitially, CreateStep, PTL DEF CreateSpec
<1>6. ChatSpec => []ChatTypeOK
    BY ChatTypes
<1> QED
    BY <1>1, <1>2, <1>3, <1>4, <1>5, <1>6, PTL DEF StoreSpec, StoreTypeOK
=============================================================================
