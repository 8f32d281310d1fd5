----------------------------- MODULE ChatProofs -----------------------------
(***************************************************************************)
(* The assistant, for any number of requests, turns, visitors and carts,   *)
(* for every budget, and through every failure of Redis, of the model and  *)
(* of the shop: what a turn spends, what it buys and what it stores.       *)
(***************************************************************************)
EXTENDS Chat, SumLemmas

\* Phases of a turn that the budgets let through, of one whose tools run, and
\* of one that holds a conversation it is going to write.
LetThrough == {"model", "tools", "adding", "save", "done", "failed"}
AtTools == {"tools", "adding"}
Holding == {"quota", "model", "tools", "adding", "save"}

Conversation == [log : Seq(Turn), cart : Cart \cup {NoCart}]
Add == [by : Visitor, key : Turn \X Cart \X Nat, turn : Turn, cart : Cart]

\* How many adds to cart c an attempt q stands for.
Stands(q, c) == q.done[c] + (IF c \in q.sent THEN 1 ELSE 0)

(* One request, by itself: tools that run are calls of a response, the     *)
(* conversation it holds has room for one more turn, and a turn that ends  *)
(* with results nobody saw has used up its iterations.                     *)
AttemptOk(q) ==
    /\ q \in Local
    /\ q.phase \in AtTools => q.calls > 0
    /\ q.phase \in Holding => 2 * Len(q.snap.log) < MaxTurns
    /\ q.phase \in {"save", "done"} /\ q.unseen => q.iter = MaxIterations

\* The add e is one of visitor v's to cart c for turn t.
IsFor(e, v, t, c) == e.by = v /\ e.turn = t /\ e.cart = c

\* Some attempt of v at turn t stands for every add in `adds` to cart c: it is
\* the attempt that got furthest.
Covered(requests, adds, v, t, c) ==
    \E r \in Request :
        /\ requests[r] # Idle /\ requests[r].visitor = v /\ requests[r].turn = t
        /\ \A e \in adds : IsFor(e, v, t, c) => e.key[3] < Stands(requests[r], c)

(* AddsOnce counts what the shop did; the invariant numbers it.  An add is *)
(* known by its visitor, its turn, its cart and its number, also while it  *)
(* is on its way, and an attempt stands for more numbers than any that     *)
(* were sent from there.                                                   *)
AddsInv ==
    /\ \A e \in applied \cup wire : e \in Add /\ e.key = <<e.turn, e.cart, e.key[3]>>
    /\ \A e, f \in applied : e.by = f.by /\ e.key = f.key => e = f
    /\ \A v \in Visitor, t \in Turn, c \in Cart :
          (\E e \in applied \cup wire : IsFor(e, v, t, c)) => Covered(run, applied \cup wire, v, t, c)

\* The turns of an hour, and those of a visitor's day, that were let through.
HourOf(requests, h) == {r \in Request : requests[r].phase \in LetThrough /\ requests[r].hour = h}
DayOf(requests, v, d) ==
    {r \in Request : requests[r].phase \in LetThrough /\ requests[r].visitor = v /\ Day(requests[r].hour) = d}

(* What the budgets count is at least what was let through, at most what   *)
(* they allow.                                                             *)
BudgetInv ==
    /\ \A h \in 0..MaxHour : Cardinality(HourOf(run, h)) <= store[h] /\ store[h] <= StorePerHour
    /\ \A v \in Visitor, d \in Days :
          Cardinality(DayOf(run, v, d)) <= visits[v][d] /\ visits[v][d] <= VisitorPerDay

\* A conversation at rest outgrew its cap by at most one turn.
Resting(conv) == conv \in Conversation /\ 2 * Len(conv.log) < MaxTurns + 2

ChatInv ==
    /\ \A r \in Request : run[r] = Idle \/ AttemptOk(run[r])
    /\ \A c \in Request : stored[c] = NoConv \/ Resting(stored[c])
    /\ ChatTypeOK
    /\ AddsInv
    /\ BudgetInv


\* A step keeps a request with its visitor and its turn, and standing for no
\* fewer adds.
KeepsAdds(p, q) ==
    q.visitor = p.visitor /\ q.turn = p.turn /\ \A c \in Cart : Stands(p, c) <= Stands(q, c)

\* It does not let it through, either.
Carries(p, q) ==
    /\ KeepsAdds(p, q)
    /\ q.phase \in LetThrough => p.phase \in LetThrough /\ q.hour = p.hour

-----------------------------------------------------------------------------
(* A request by itself.                                                    *)

(* A record of a request is told from an idle one by its phase.            *)
LEMMA AttemptIsBusy ==
    ASSUME NEW q, q = Idle \/ AttemptOk(q), q.phase # "idle"
    PROVE  q \in Local /\ AttemptOk(q)
BY DEF Idle, AttemptOk

(* The fields of a request have their types.                               *)
LEMMA LocalFields ==
    ASSUME NEW p \in Local
    PROVE  /\ p.phase \in Running \cup Ended /\ p.turn \in Turn /\ p.visitor \in Visitor
           /\ p.conv \in Request \cup {NoConv} /\ p.shown \in Cart \cup {NoCart}
           /\ p.snap \in Conversation /\ p.hour \in 0..MaxHour /\ p.iter \in 1..MaxIterations
           /\ p.calls \in 0..(MaxCalls + 1) /\ p.unseen \in BOOLEAN /\ p.target \in Cart \cup {NoCart}
           /\ p.cart \in Cart \cup {NoCart} /\ p.sent \in SUBSET Cart /\ p.done \in [Cart -> Nat]
BY DEF Local, Conversation

\* The request goes on in phase ph, iteration i, with n calls left to run, and
\* with cart g to add to; u says whether results are still to be shown.
Redirected(p, ph, i, n, u, g) ==
    [p EXCEPT !.phase = ph, !.iter = i, !.calls = n, !.unseen = u, !.target = g]

(* It stays with its turn and its conversation, and stands for what it     *)
(* stood for.                                                              *)
LEMMA RedirectedStays ==
    ASSUME NEW p \in Local, AttemptOk(p),
           NEW ph \in Running \cup Ended, NEW i \in 1..MaxIterations,
           NEW n \in 0..(MaxCalls + 1), NEW u \in BOOLEAN, NEW g \in Cart \cup {NoCart},
           ph \in AtTools => n > 0,
           ph \in Holding => p.phase \in Holding,
           ph \in {"save", "done"} /\ u => i = MaxIterations,
           ph \in LetThrough => p.phase \in LetThrough
    PROVE  /\ AttemptOk(Redirected(p, ph, i, n, u, g))
           /\ Redirected(p, ph, i, n, u, g) # Idle
           /\ Carries(p, Redirected(p, ph, i, n, u, g))
<1> DEFINE q == Redirected(p, ph, i, n, u, g)
<1>1. q \in Local
    BY DEF Local, Redirected
<1>2. /\ q.phase = ph /\ q.iter = i /\ q.calls = n /\ q.unseen = u
      /\ q.turn = p.turn /\ q.visitor = p.visitor /\ q.hour = p.hour
      /\ q.snap = p.snap /\ q.done = p.done /\ q.sent = p.sent
    BY DEF Local, Redirected
<1> HIDE DEF q
<1>3. AttemptOk(q)
    BY <1>1, <1>2 DEF AttemptOk
<1>4. q # Idle
    BY <1>2 DEF Idle, Running, Ended
<1>5. \A c \in Cart : Stands(p, c) \in Nat /\ Stands(q, c) = Stands(p, c)
    BY <1>2, LocalFields DEF Stands
<1>6. Carries(p, q)
    BY <1>2, <1>5 DEF Carries, KeepsAdds
<1> QED
    BY <1>3, <1>4, <1>6 DEF q

-----------------------------------------------------------------------------
(* All requests.                                                           *)

\* Every request is idle or sound.
RequestsOk(requests) ==
    /\ requests \in [Request -> Local \cup {Idle}]
    /\ \A r \in Request : requests[r] = Idle \/ AttemptOk(requests[r])

(* An attempt that stands for all the adds of a visitor still does so.     *)
LEMMA CoveredStays ==
    ASSUME NEW f, NEW g, RequestsOk(f), RequestsOk(g), NEW r \in Request, g[r] # Idle,
           f[r] # Idle => KeepsAdds(f[r], g[r]), \A x \in Request : x # r => g[x] = f[x],
           NEW adds, \A e \in adds : e \in Add,
           NEW v \in Visitor, NEW t \in Turn, NEW c \in Cart, Covered(f, adds, v, t, c),
           NEW others, \A e \in others : IsFor(e, v, t, c) => e \in adds
    PROVE  Covered(g, others, v, t, c)
<1>1. PICK x \in Request : /\ f[x] # Idle /\ f[x].visitor = v /\ f[x].turn = t
                           /\ \A e \in adds : IsFor(e, v, t, c) => e.key[3] < Stands(f[x], c)
    BY DEF Covered
<1>2. g[x] # Idle /\ g[x].visitor = v /\ g[x].turn = t
    BY <1>1 DEF KeepsAdds
<1>3. Stands(f[x], c) \in Nat /\ Stands(g[x], c) \in Nat
    <2>1. f[x] \in Local /\ g[x] \in Local
        BY <1>1, <1>2 DEF RequestsOk
    <2> QED
        BY <2>1, LocalFields DEF Stands
<1>4. Stands(f[x], c) <= Stands(g[x], c)
    BY <1>1, <1>3 DEF KeepsAdds
<1>5. \A e \in adds : e.key[3] \in Nat
    BY DEF Add
<1>6. \A e \in others : IsFor(e, v, t, c) => e.key[3] < Stands(g[x], c)
    BY <1>1, <1>3, <1>4, <1>5
<1> QED
    BY <1>2, <1>6 DEF Covered

(* Every add is still stood for.                *)
LEMMA AddsStay ==
    ASSUME AddsInv, RequestsOk(run), RequestsOk(run'), NEW r \in Request, run'[r] # Idle,
           run[r] # Idle => KeepsAdds(run[r], run'[r]), \A x \in Request : x # r => run'[x] = run[x],
           UNCHANGED <<wire, applied>>
    PROVE  AddsInv'
<1> DEFINE adds == applied \cup wire
<1>1. adds' = adds
    OBVIOUS
<1>2. \A e \in adds : e \in Add
    BY DEF AddsInv
<1>3. ASSUME NEW v \in Visitor, NEW t \in Turn, NEW c \in Cart, \E e \in adds : IsFor(e, v, t, c)
      PROVE  Covered(run', adds', v, t, c)
    <2>1. Covered(run, adds, v, t, c)
        BY <1>3 DEF AddsInv
    <2> QED
        BY <1>1, <1>2, <2>1, CoveredStays
<1> QED
    BY <1>1, <1>3 DEF AddsInv

(* There are finitely many requests.                                       *)
LEMMA FinitelyMany == \A S \in SUBSET Request : IsFiniteSet(S) /\ Cardinality(S) \in Nat
<1>1. IsFiniteSet(Request)
    BY ChatAssumption, FS_Interval DEF Request
<1> QED
    BY <1>1, FS_Subset, FS_CardinalityType

(* A request that carries on is not let through a second time, and those   *)
(* that were let through stay in their hour and day.                       *)
LEMMA BudgetStays ==
    ASSUME BudgetInv, RequestsOk(run), RequestsOk(run'), NEW r \in Request,
           run'[r].phase \in LetThrough => Carries(run[r], run'[r]), \A x \in Request : x # r => run'[x] = run[x],
           store \in [0..MaxHour -> Nat], visits \in [Visitor -> [Days -> Nat]],
           UNCHANGED <<store, visits>>
    PROVE  BudgetInv'
<1>1. ASSUME NEW h \in 0..MaxHour PROVE Cardinality(HourOf(run', h)) <= Cardinality(HourOf(run, h))
    <2>1. HourOf(run', h) \subseteq HourOf(run, h)
        BY DEF HourOf, Carries
    <2> QED
        BY <2>1, FinitelyMany, FS_Subset DEF HourOf
<1>2. ASSUME NEW v \in Visitor, NEW d \in Days
      PROVE  Cardinality(DayOf(run', v, d)) <= Cardinality(DayOf(run, v, d))
    <2>1. DayOf(run', v, d) \subseteq DayOf(run, v, d)
        BY DEF DayOf, Carries, KeepsAdds
    <2> QED
        BY <2>1, FinitelyMany, FS_Subset DEF DayOf
<1>3. /\ \A h \in 0..MaxHour : HourOf(run', h) \in SUBSET Request /\ HourOf(run, h) \in SUBSET Request
      /\ \A v \in Visitor, d \in Days : DayOf(run', v, d) \in SUBSET Request /\ DayOf(run, v, d) \in SUBSET Request
    BY DEF HourOf, DayOf
<1>4. ASSUME NEW h \in 0..MaxHour PROVE Cardinality(HourOf(run', h)) <= store'[h] /\ store'[h] <= StorePerHour
    <2>1. Cardinality(HourOf(run', h)) \in Nat /\ Cardinality(HourOf(run, h)) \in Nat /\ store[h] \in Nat
        BY <1>3, FinitelyMany
    <2> QED
        BY <1>1, <2>1 DEF BudgetInv
<1>5. ASSUME NEW v \in Visitor, NEW d \in Days
      PROVE  Cardinality(DayOf(run', v, d)) <= visits'[v][d] /\ visits'[v][d] <= VisitorPerDay
    <2>1. Cardinality(DayOf(run', v, d)) \in Nat /\ Cardinality(DayOf(run, v, d)) \in Nat /\ visits[v][d] \in Nat
        BY <1>3, FinitelyMany
    <2> QED
        BY <1>2, <2>1 DEF BudgetInv
<1> QED
    BY <1>4, <1>5 DEF BudgetInv


\* Every conversation in Redis has its type and is at rest.
StoredOk(conversations) ==
    /\ conversations \in [Request -> Conversation \cup {NoConv}]
    /\ \A c \in Request : conversations[c] = NoConv \/ Resting(conversations[c])

(* A step of one request that leaves the shop and the budgets alone.       *)
LEMMA CarriesOn ==
    ASSUME ChatInv, NEW r \in Request, run[r] # Idle,
           NEW q, run' = [run EXCEPT ![r] = q], AttemptOk(q), q # Idle, Carries(run[r], q),
           StoredOk(stored'), UNCHANGED <<store, visits, hour, carts, wire, applied>>
    PROVE  ChatInv'
<1>1. RequestsOk(run)
    BY DEF ChatInv, ChatTypeOK, RequestsOk
<1>2. RequestsOk(run') /\ run'[r] = q /\ \A x \in Request : x # r => run'[x] = run[x]
    BY <1>1 DEF RequestsOk, AttemptOk
<1>3. AddsInv'
    BY <1>1, <1>2, AddsStay DEF ChatInv, Carries
<1>4. BudgetInv'
    BY <1>1, <1>2, BudgetStays DEF ChatInv, ChatTypeOK
<1>5. ChatTypeOK'
    BY <1>2 DEF ChatInv, ChatTypeOK, RequestsOk, StoredOk, Conversation
<1> QED
    BY <1>2, <1>3, <1>4, <1>5 DEF ChatInv, RequestsOk, StoredOk

(* What is known of a request that is at work, and of what Redis holds.    *)
LEMMA AtWork ==
    ASSUME ChatInv, NEW r \in Request, run[r].phase # "idle"
    PROVE  /\ run[r] # Idle /\ run[r] \in Local /\ AttemptOk(run[r])
           /\ run \in [Request -> Local \cup {Idle}] /\ StoredOk(stored)
BY DEF ChatInv, ChatTypeOK, StoredOk, Idle, AttemptOk, Conversation

-----------------------------------------------------------------------------
(* The steps of a handler.                                                 *)

\* Nothing but requests changes.
RequestsOnly == UNCHANGED <<stored, store, visits, hour, carts, wire, applied>>

\* The step that redirects request r.
RedirectsTo(r, ph, i, n, u, g) == run' = [run EXCEPT ![r] = Redirected(run[r], ph, i, n, u, g)]

(* A request is redirected within its turn.                                *)
LEMMA RedirectStep ==
    ASSUME ChatInv, RequestsOnly, NEW r \in Request, run[r].phase # "idle",
           NEW ph \in Running \cup Ended, NEW i \in 1..MaxIterations,
           NEW n \in 0..(MaxCalls + 1), NEW u \in BOOLEAN, NEW g \in Cart \cup {NoCart},
           RedirectsTo(r, ph, i, n, u, g),
           ph \in AtTools => n > 0,
           ph \in Holding => run[r].phase \in Holding,
           ph \in {"save", "done"} /\ u => i = MaxIterations,
           ph \in LetThrough => run[r].phase \in LetThrough
    PROVE  ChatInv'
<1>1. run[r] # Idle /\ run[r] \in Local /\ AttemptOk(run[r]) /\ StoredOk(stored)
    BY AtWork
<1>2. /\ AttemptOk(Redirected(run[r], ph, i, n, u, g))
      /\ Redirected(run[r], ph, i, n, u, g) # Idle
      /\ Carries(run[r], Redirected(run[r], ph, i, n, u, g))
    BY <1>1, RedirectedStays
<1> QED
    BY <1>1, <1>2, CarriesOn DEF RedirectsTo, RequestsOnly

(* The request returns early: a full conversation, a full window, Redis    *)
(* that does not answer.                                                   *)
LEMMA RefusedStep ==
    ASSUME ChatInv, RequestsOnly, NEW r \in Request, run[r].phase \in {"load", "quota"}, Becomes(r, "refused")
    PROVE  ChatInv'
<1>1. run[r].phase # "idle"
    OBVIOUS
<1>2. run[r] \in Local /\ run \in [Request -> Local \cup {Idle}]
    BY <1>1, AtWork
<1>3. RedirectsTo(r, "refused", run[r].iter, run[r].calls, run[r].unseen, run[r].target)
    BY <1>2 DEF Becomes, RedirectsTo, Redirected, Local
<1>4. "refused" \in Running \cup Ended
    BY DEF Ended
<1> QED
    BY <1>1, <1>2, <1>3, <1>4, RedirectStep, LocalFields DEF AtTools, Holding, LetThrough

(* The model fails, the shopper leaves, or the pod dies.                   *)
LEMMA AbandonsStep ==
    ASSUME ChatInv, NEW r \in Request, ModelFails(r) \/ CutShort(r)
    PROVE  ChatInv'
<1>1. PICK ph \in {"failed", "left"} : /\ Abandons(r, ph)
                                       /\ run[r].phase \in Running
                                       /\ ph = "failed" => run[r].phase = "model"
    BY DEF ModelFails, CutShort, Running
<1>2. run[r].phase # "idle" /\ RequestsOnly
    BY <1>1 DEF Running, ModelFails, CutShort, RequestsOnly
<1>3. RedirectsTo(r, ph, 1, 0, FALSE, NoCart)
    BY <1>1, <1>2, AtWork DEF Abandons, RedirectsTo, Redirected
<1>4. /\ ph \in Running \cup Ended /\ 1 \in 1..MaxIterations /\ 0 \in 0..(MaxCalls + 1)
      /\ NoCart \in Cart \cup {NoCart} /\ FALSE \in BOOLEAN
    BY ChatAssumption DEF Ended
<1>5. ph \notin AtTools /\ ph \notin Holding /\ (ph \in LetThrough => run[r].phase \in LetThrough)
    BY <1>1 DEF AtTools, Holding, LetThrough
<1> QED
    BY <1>2, <1>3, <1>4, <1>5, RedirectStep

(* The model speaks, and the results it was sent are seen.                 *)
LEMMA SpeakStep ==
    ASSUME ChatInv, NEW r \in Request, Speak(r)
    PROVE  ChatInv'
<1>1. run[r].phase = "model" /\ run[r].phase # "idle" /\ RequestsOnly
    BY DEF Speak, RequestsOnly
<1>2. run[r] \in Local /\ run \in [Request -> Local \cup {Idle}]
    BY <1>1, AtWork
<1>3. RedirectsTo(r, "save", run[r].iter, run[r].calls, FALSE, run[r].target)
    BY <1>2 DEF Speak, RedirectsTo, Redirected, Local
<1>4. "save" \in Running \cup Ended /\ FALSE \in BOOLEAN
    BY DEF Running
<1> QED
    BY <1>1, <1>2, <1>3, <1>4, RedirectStep, LocalFields DEF AtTools, Holding, LetThrough

(* Tools are asked for, in any iteration.                                  *)
LEMMA AskToolsStep ==
    ASSUME ChatInv, NEW r \in Request, AskTools(r)
    PROVE  ChatInv'
<1>1. run[r].phase = "model" /\ run[r].phase # "idle" /\ RequestsOnly
    BY DEF AskTools, RequestsOnly
<1>2. run[r] \in Local /\ run \in [Request -> Local \cup {Idle}]
    BY <1>1, AtWork
<1>3. PICK n \in 1..(MaxCalls + 1) :
          run' = [run EXCEPT ![r].phase = "tools", ![r].calls = n, ![r].unseen = FALSE]
    BY Zenon DEF AskTools
<1>4. RedirectsTo(r, "tools", run[r].iter, n, FALSE, run[r].target)
    BY <1>2, <1>3 DEF RedirectsTo, Redirected, Local
<1>5. "tools" \in Running \cup Ended /\ FALSE \in BOOLEAN /\ n \in 0..(MaxCalls + 1) /\ n > 0
    BY ChatAssumption DEF Running
<1> QED
    BY <1>1, <1>2, <1>4, <1>5, RedirectStep, LocalFields DEF Holding, LetThrough

(* Where a request stands after a call: at the next one, with the model    *)
(* again, or, after the last iteration, at its end.                        *)
LEMMA AfterCallIs ==
    ASSUME NEW q \in Local, AttemptOk(q), q.phase \in AtTools
    PROVE  \E ph \in {"tools", "model", "save"}, i \in 1..MaxIterations, n \in 0..(MaxCalls + 1) :
               /\ AfterCall(q) = Redirected(q, ph, i, n, TRUE, NoCart)
               /\ ph = "tools" => n > 0
               /\ ph = "save" => i = MaxIterations
<1>1. q.iter \in 1..MaxIterations /\ q.calls \in 0..(MaxCalls + 1) /\ q.calls > 0
    BY LocalFields DEF AttemptOk
<1>2. CASE q.calls > 1
    <2>1. AfterCall(q) = Redirected(q, "tools", q.iter, q.calls - 1, TRUE, NoCart)
        BY <1>1, <1>2 DEF AfterCall, Redirected, Local
    <2>2. q.calls - 1 \in 0..(MaxCalls + 1) /\ q.calls - 1 > 0
        BY <1>1, <1>2, ChatAssumption
    <2> QED
        BY <1>1, <2>1, <2>2
<1>3. CASE ~(q.calls > 1) /\ q.iter < MaxIterations
    <2>1. AfterCall(q) = Redirected(q, "model", q.iter + 1, q.calls - 1, TRUE, NoCart)
        BY <1>1, <1>3 DEF AfterCall, Redirected, Local
    <2>2. q.calls - 1 \in 0..(MaxCalls + 1) /\ q.iter + 1 \in 1..MaxIterations
        BY <1>1, <1>3, ChatAssumption
    <2> QED
        BY <2>1, <2>2
<1>4. CASE ~(q.calls > 1) /\ ~(q.iter < MaxIterations)
    <2>1. AfterCall(q) = Redirected(q, "save", q.iter, q.calls - 1, TRUE, NoCart)
        BY <1>1, <1>4 DEF AfterCall, Redirected, Local
    <2>2. q.calls - 1 \in 0..(MaxCalls + 1) /\ q.iter = MaxIterations
        BY <1>1, <1>4, ChatAssumption
    <2> QED
        BY <1>1, <2>1, <2>2
<1> QED
    BY <1>2, <1>3, <1>4

(* A call that leaves the cart alone, and one whose answer does not come.  *)
LEMMA ChatCallStep ==
    ASSUME ChatInv, NEW r \in Request, OtherTool(r) \/ Unanswered(r)
    PROVE  ChatInv'
<1>1. /\ run[r].phase \in AtTools /\ run[r].phase # "idle" /\ RequestsOnly
      /\ run' = [run EXCEPT ![r] = AfterCall(run[r])]
    BY DEF OtherTool, Unanswered, RequestsOnly, AtTools
<1>2. run[r] \in Local /\ AttemptOk(run[r])
    BY <1>1, AtWork
<1>3. PICK ph \in {"tools", "model", "save"}, i \in 1..MaxIterations, n \in 0..(MaxCalls + 1) :
          /\ AfterCall(run[r]) = Redirected(run[r], ph, i, n, TRUE, NoCart)
          /\ ph = "tools" => n > 0
          /\ ph = "save" => i = MaxIterations
    BY <1>1, <1>2, AfterCallIs
<1>4. RedirectsTo(r, ph, i, n, TRUE, NoCart)
    BY <1>1, <1>3 DEF RedirectsTo
<1>5. /\ ph \in Running \cup Ended /\ TRUE \in BOOLEAN /\ NoCart \in Cart \cup {NoCart}
      /\ run[r].phase \in Holding /\ run[r].phase \in LetThrough
      /\ ph \in AtTools => ph = "tools"
    BY <1>1 DEF Running, AtTools, Holding, LetThrough
<1> QED
    BY <1>1, <1>3, <1>4, <1>5, RedirectStep


\* The request goes on in phase ph, with conversation c and what it says.
Renewed(p, ph, c, conv) == [p EXCEPT !.phase = ph, !.conv = c, !.snap = conv]
RenewsTo(r, ph, c, conv) == run' = [run EXCEPT ![r] = Renewed(run[r], ph, c, conv)]

(* The conversation is settled before the tools run, or after.             *)
LEMMA RenewedStays ==
    ASSUME NEW p \in Local, AttemptOk(p),
           NEW ph \in {"quota", "done"}, NEW c \in Request \cup {NoConv}, NEW conv \in Conversation,
           ph = "quota" => 2 * Len(conv.log) < MaxTurns,
           ph = "done" => p.phase = "save"
    PROVE  /\ AttemptOk(Renewed(p, ph, c, conv))
           /\ Renewed(p, ph, c, conv) # Idle
           /\ Carries(p, Renewed(p, ph, c, conv))
<1> DEFINE q == Renewed(p, ph, c, conv)
<1>0. ph \in Running \cup Ended
    BY DEF Running, Ended
<1>1. q \in Local
    BY <1>0 DEF Local, Renewed, Conversation
<1>2. /\ q.phase = ph /\ q.iter = p.iter /\ q.unseen = p.unseen
      /\ q.turn = p.turn /\ q.visitor = p.visitor /\ q.hour = p.hour
      /\ q.snap = conv /\ q.done = p.done /\ q.sent = p.sent
    BY DEF Local, Renewed
<1> HIDE DEF q
<1>3. AttemptOk(q)
    BY <1>1, <1>2 DEF AttemptOk, AtTools, Holding
<1>4. q # Idle
    BY <1>2 DEF Idle
<1>5. \A x \in Cart : Stands(p, x) \in Nat /\ Stands(q, x) = Stands(p, x)
    BY <1>2, LocalFields DEF Stands
<1>6. Carries(p, q)
    BY <1>2, <1>5 DEF Carries, KeepsAdds, LetThrough
<1> QED
    BY <1>3, <1>4, <1>6 DEF q

(* What is loaded is a conversation.                                       *)
LEMMA LoadedIs ==
    ASSUME ChatInv, NEW c \in Request \cup {NoConv}
    PROVE  Loaded(c) \in Conversation
<1>1. Fresh \in Conversation
    BY DEF Fresh, Conversation, NoCart
<1>2. StoredOk(stored)
    BY DEF ChatInv, ChatTypeOK, StoredOk, Conversation
<1> QED
    BY <1>1, <1>2 DEF Loaded, IsNew, StoredOk

(* A conversation with room is loaded.                                     *)
LEMMA LoadStep ==
    ASSUME ChatInv, NEW r \in Request, Load(r)
    PROVE  ChatInv'
<1> DEFINE c == run[r].conv
           conv == Loaded(c)
           name == IF IsNew(c) THEN r ELSE c
           snap == IF run[r].shown # NoCart THEN [conv EXCEPT !.cart = run[r].shown] ELSE conv
<1>1. run[r].phase = "load" /\ run[r].phase # "idle" /\ RequestsOnly
    BY DEF Load, RequestsOnly
<1>2. /\ run[r] # Idle /\ run[r] \in Local /\ AttemptOk(run[r]) /\ StoredOk(stored)
      /\ run \in [Request -> Local \cup {Idle}]
    BY <1>1, AtWork
<1>3. c \in Request \cup {NoConv} /\ run[r].shown \in Cart \cup {NoCart}
    BY <1>2, LocalFields
<1>4. conv \in Conversation
    BY <1>3, LoadedIs
<1>5. CASE Becomes(r, "refused")
    BY <1>1, <1>5, RefusedStep
<1>6. CASE /\ ~Full(conv)
           /\ run' = [run EXCEPT ![r].phase = "quota", ![r].conv = name, ![r].snap = snap]
    <2> HIDE DEF conv
    <2>1. snap \in Conversation /\ snap.log = conv.log
        BY <1>3, <1>4 DEF Conversation
    <2>2. name \in Request \cup {NoConv}
        BY <1>3
    <2> HIDE DEF snap, name
    <2>3. RenewsTo(r, "quota", name, snap)
        BY <1>2, <1>6 DEF RenewsTo, Renewed
    <2>4. 2 * Len(snap.log) < MaxTurns
        <3>1. conv.log \in Seq(Turn) /\ Len(conv.log) \in Nat
            BY <1>4 DEF Conversation
        <3>2. ~(2 * Len(conv.log) >= MaxTurns) /\ MaxTurns \in Nat
            BY <1>6, ChatAssumption DEF Full
        <3>3. 2 * Len(conv.log) < MaxTurns
            BY <3>1, <3>2
        <3> QED
            BY <2>1, <3>3
    <2>5. /\ AttemptOk(Renewed(run[r], "quota", name, snap))
          /\ Renewed(run[r], "quota", name, snap) # Idle
          /\ Carries(run[r], Renewed(run[r], "quota", name, snap))
        BY <1>2, <2>1, <2>2, <2>4, RenewedStays
    <2> QED
        BY <1>1, <1>2, <2>3, <2>5, CarriesOn DEF RenewsTo, RequestsOnly
<1> QED
    BY <1>5, <1>6 DEF Load

(* What is written adds the exchange to what was loaded: one turn past the *)
(* cap at most.                                                            *)
LEMMA WrittenIs ==
    ASSUME ChatInv, NEW r \in Request, run[r].phase = "save"
    PROVE  Written(r) \in Conversation /\ Resting(Written(r))
<1>1. run[r] \in Local /\ AttemptOk(run[r])
    BY AtWork
<1>2. /\ run[r].snap \in Conversation /\ run[r].turn \in Turn /\ run[r].cart \in Cart \cup {NoCart}
      /\ 2 * Len(run[r].snap.log) < MaxTurns
    BY <1>1, LocalFields DEF AttemptOk, Holding
<1>3. /\ Append(run[r].snap.log, run[r].turn) \in Seq(Turn)
      /\ Len(Append(run[r].snap.log, run[r].turn)) = Len(run[r].snap.log) + 1
      /\ Len(run[r].snap.log) \in Nat
    BY <1>2 DEF Conversation
<1>4. Written(r) \in Conversation /\ Written(r).log = Append(run[r].snap.log, run[r].turn)
    BY <1>2, <1>3 DEF Written, Conversation
<1>5. MaxTurns \in Nat
    BY ChatAssumption
<1>6. 2 * (Len(run[r].snap.log) + 1) < MaxTurns + 2
    BY <1>2, <1>3, <1>5
<1> QED
    BY <1>3, <1>4, <1>6 DEF Resting

(* The turn is saved, or Redis fails and only the shopper has it.          *)
LEMMA ChatSaveStep ==
    ASSUME ChatInv, NEW r \in Request, Save(r)
    PROVE  ChatInv'
<1>1. run[r].phase = "save" /\ run[r].phase # "idle"
    BY DEF Save
<1>2. /\ run[r] # Idle /\ run[r] \in Local /\ AttemptOk(run[r]) /\ StoredOk(stored)
      /\ run \in [Request -> Local \cup {Idle}]
    BY <1>1, AtWork
<1>3. Written(r) \in Conversation /\ Resting(Written(r))
    BY <1>1, WrittenIs
<1>4. StoredOk(stored')
    <2>1. CASE UNCHANGED stored
        BY <1>2, <2>1
    <2>2. CASE stored' = [stored EXCEPT ![run[r].conv] = Written(r)]
        BY <1>2, <1>3, <2>2 DEF StoredOk
    <2> QED
        BY <2>1, <2>2 DEF Save
<1>5. RenewsTo(r, "done", run[r].conv, Written(r))
    BY <1>2 DEF Save, RenewsTo, Renewed, Local
<1>6. /\ AttemptOk(Renewed(run[r], "done", run[r].conv, Written(r)))
      /\ Renewed(run[r], "done", run[r].conv, Written(r)) # Idle
      /\ Carries(run[r], Renewed(run[r], "done", run[r].conv, Written(r)))
    BY <1>1, <1>2, <1>3, LocalFields, RenewedStays
<1> QED
    BY <1>2, <1>4, <1>5, <1>6, CarriesOn DEF RenewsTo, Save


(* Hours are of the days that pass.                                        *)
LEMMA DaysPass == \A h \in 0..MaxHour : Day(h) \in Days
<1>1. ASSUME NEW h \in 0..MaxHour PROVE Day(h) \in Days
    <2>1. HoursPerDay \in Nat /\ HoursPerDay > 0 /\ MaxHour \in Nat /\ h \in Nat /\ h <= MaxHour
        BY ChatAssumption
    <2>2. h \div HoursPerDay \in Nat /\ MaxHour \div HoursPerDay \in Nat
        BY <2>1
    <2>3. h \div HoursPerDay <= MaxHour \div HoursPerDay
        BY <2>1, <2>2
    <2> QED
        BY <2>2, <2>3 DEF Day, Days
<1> QED
    BY <1>1


(* A turn is counted in both windows before it is let through, if it is.   *)
LEMMA BudgetSpends ==
    ASSUME BudgetInv, ChatTypeOK, RequestsOk(run), RequestsOk(run'), NEW r \in Request,
           \A x \in Request : x # r => run'[x] = run[x],
           NEW v \in Visitor, run'[r].visitor = v, run'[r].phase \in LetThrough => run'[r].hour = hour,
           ~VisitorFull(v), ~StoreFull,
           store' = [store EXCEPT ![hour] = @ + 1], visits' = [visits EXCEPT ![v][Day(hour)] = @ + 1]
    PROVE  BudgetInv'
<1> DEFINE today == Day(hour)
<1>0. /\ hour \in 0..MaxHour /\ today \in Days
      /\ store \in [0..MaxHour -> Nat] /\ visits \in [Visitor -> [Days -> Nat]]
      /\ StorePerHour \in Nat /\ VisitorPerDay \in Nat
    BY DaysPass, ChatAssumption DEF ChatTypeOK
<1>1. \A S \in SUBSET Request : /\ IsFiniteSet(S) /\ Cardinality(S) \in Nat
                                /\ Cardinality(S \cup {r}) \in Nat /\ Cardinality(S \cup {r}) <= Cardinality(S) + 1
    BY FinitelyMany, FS_AddElement
<1>2. ASSUME NEW h \in 0..MaxHour PROVE Cardinality(HourOf(run', h)) <= store'[h] /\ store'[h] <= StorePerHour
    <2>0. HourOf(run, h) \in SUBSET Request /\ HourOf(run', h) \in SUBSET Request
        BY DEF HourOf
    <2>4. /\ Cardinality(HourOf(run, h)) \in Nat /\ Cardinality(HourOf(run', h)) \in Nat
          /\ Cardinality(HourOf(run, h) \cup {r}) \in Nat
          /\ Cardinality(HourOf(run, h) \cup {r}) <= Cardinality(HourOf(run, h)) + 1
        BY <1>1, <2>0
    <2>1. Cardinality(HourOf(run, h)) <= store[h] /\ store[h] <= StorePerHour /\ store[h] \in Nat
        BY <1>0 DEF BudgetInv
    <2>2. CASE h = hour
        <3>1. HourOf(run', h) \in SUBSET (HourOf(run, h) \cup {r})
            BY DEF HourOf
        <3>2. Cardinality(HourOf(run', h)) <= Cardinality(HourOf(run, h) \cup {r})
            BY <2>0, <3>1, FS_Subset, FS_AddElement, <1>1
        <3>3. store'[h] = store[h] + 1
            BY <1>0, <2>2
        <3>4. store[h] < StorePerHour
            BY <1>0, <2>1, <2>2 DEF StoreFull
        <3> QED
            BY <1>0, <2>1, <2>4, <3>2, <3>3, <3>4
    <2>3. CASE h # hour
        <3>1. HourOf(run', h) \in SUBSET HourOf(run, h)
            BY <2>3 DEF HourOf
        <3>2. Cardinality(HourOf(run', h)) <= Cardinality(HourOf(run, h))
            BY <2>0, <3>1, FS_Subset, <1>1
        <3>3. store'[h] = store[h]
            BY <1>0, <2>3
        <3> QED
            BY <2>1, <2>4, <3>2, <3>3
    <2> QED
        BY <2>2, <2>3
<1>3. ASSUME NEW w \in Visitor, NEW d \in Days
      PROVE  Cardinality(DayOf(run', w, d)) <= visits'[w][d] /\ visits'[w][d] <= VisitorPerDay
    <2>0. DayOf(run, w, d) \in SUBSET Request /\ DayOf(run', w, d) \in SUBSET Request
        BY DEF DayOf
    <2>4. /\ Cardinality(DayOf(run, w, d)) \in Nat /\ Cardinality(DayOf(run', w, d)) \in Nat
          /\ Cardinality(DayOf(run, w, d) \cup {r}) \in Nat
          /\ Cardinality(DayOf(run, w, d) \cup {r}) <= Cardinality(DayOf(run, w, d)) + 1
        BY <1>1, <2>0
    <2>1. Cardinality(DayOf(run, w, d)) <= visits[w][d] /\ visits[w][d] <= VisitorPerDay /\ visits[w][d] \in Nat
        BY <1>0 DEF BudgetInv
    <2>2. CASE w = v /\ d = today
        <3>1. DayOf(run', w, d) \in SUBSET (DayOf(run, w, d) \cup {r})
            BY DEF DayOf
        <3>2. Cardinality(DayOf(run', w, d)) <= Cardinality(DayOf(run, w, d) \cup {r})
            BY <2>0, <3>1, FS_Subset, FS_AddElement, <1>1
        <3>3. visits'[w][d] = visits[w][d] + 1
            BY <1>0, <2>2
        <3>4. visits[w][d] < VisitorPerDay
            BY <1>0, <2>1, <2>2 DEF VisitorFull
        <3> QED
            BY <1>0, <2>1, <2>4, <3>2, <3>3, <3>4
    <2>3. CASE ~(w = v /\ d = today)
        <3>1. DayOf(run', w, d) \in SUBSET DayOf(run, w, d)
            BY <2>3 DEF DayOf
        <3>2. Cardinality(DayOf(run', w, d)) <= Cardinality(DayOf(run, w, d))
            BY <2>0, <3>1, FS_Subset, <1>1
        <3>3. visits'[w][d] = visits[w][d]
            BY <1>0, <2>3
        <3> QED
            BY <2>1, <2>4, <3>2, <3>3
    <2> QED
        BY <2>2, <2>3
<1> QED
    BY <1>2, <1>3 DEF BudgetInv

\* A turn that the budgets let through, in its hour.
Admitted(p, h) == [p EXCEPT !.phase = "model", !.hour = h]

(* It stays what it was.                                                   *)
LEMMA AdmittedStays ==
    ASSUME NEW p \in Local, AttemptOk(p), p.phase = "quota", NEW h \in 0..MaxHour
    PROVE  /\ AttemptOk(Admitted(p, h)) /\ Admitted(p, h) # Idle
           /\ KeepsAdds(p, Admitted(p, h))
           /\ Admitted(p, h).visitor = p.visitor /\ Admitted(p, h).hour = h
<1> DEFINE q == Admitted(p, h)
<1>1. q \in Local
    BY DEF Local, Admitted, Running
<1>2. /\ q.phase = "model" /\ q.turn = p.turn /\ q.visitor = p.visitor /\ q.hour = h
      /\ q.snap = p.snap /\ q.done = p.done /\ q.sent = p.sent
    BY DEF Local, Admitted
<1> HIDE DEF q
<1>3. AttemptOk(q) /\ q # Idle
    BY <1>1, <1>2 DEF AttemptOk, AtTools, Holding, Idle
<1>4. \A c \in Cart : Stands(p, c) \in Nat /\ Stands(q, c) = Stands(p, c)
    BY <1>2, LocalFields DEF Stands
<1> QED
    BY <1>2, <1>3, <1>4 DEF q, KeepsAdds


(* A request that is counted, whether it hears of it or not.               *)
LEMMA SpendStep ==
    ASSUME ChatInv, NEW r \in Request, run[r].phase = "quota",
           NEW q, run' = [run EXCEPT ![r] = q], AttemptOk(q), q # Idle,
           KeepsAdds(run[r], q), q.visitor = run[r].visitor, q.phase \in LetThrough => q.hour = hour,
           ~VisitorFull(run[r].visitor), ~StoreFull,
           store' = [store EXCEPT ![hour] = @ + 1],
           visits' = [visits EXCEPT ![run[r].visitor][Day(hour)] = @ + 1],
           UNCHANGED <<stored, hour, carts, wire, applied>>
    PROVE  ChatInv'
<1>1. run[r] # Idle /\ run[r] \in Local /\ RequestsOk(run) /\ StoredOk(stored) /\ ChatTypeOK
    BY AtWork DEF ChatInv, ChatTypeOK, RequestsOk
<1>2. RequestsOk(run') /\ run'[r] = q /\ \A x \in Request : x # r => run'[x] = run[x]
    BY <1>1 DEF RequestsOk, AttemptOk
<1>3. BudgetInv'
    <2>1. run[r].visitor \in Visitor
        BY <1>1, LocalFields
    <2> QED
        BY <1>1, <1>2, <2>1, BudgetSpends DEF ChatInv
<1>4. AddsInv'
    BY <1>1, <1>2, AddsStay DEF ChatInv
<1>5. ChatTypeOK'
    <2>1. Day(hour) \in Days /\ hour \in 0..MaxHour /\ run[r].visitor \in Visitor
        BY <1>1, DaysPass, LocalFields DEF ChatTypeOK
    <2>2. store' \in [0..MaxHour -> Nat] /\ visits' \in [Visitor -> [Days -> Nat]]
        BY <1>1, <2>1 DEF ChatTypeOK
    <2> QED
        BY <1>1, <1>2, <2>2 DEF ChatTypeOK, RequestsOk
<1> QED
    BY <1>2, <1>3, <1>4, <1>5 DEF ChatInv, RequestsOk


(* Quota.Allow: refused, let through, or counted and not heard of.         *)
LEMMA TakeTurnStep ==
    ASSUME ChatInv, NEW r \in Request, TakeTurn(r)
    PROVE  ChatInv'
<1> DEFINE full == VisitorFull(run[r].visitor) \/ StoreFull
<1>1. run[r].phase = "quota" /\ run[r].phase # "idle" /\ UNCHANGED <<stored, hour, carts, wire, applied>>
    BY DEF TakeTurn
<1>2. /\ run[r] # Idle /\ run[r] \in Local /\ AttemptOk(run[r])
      /\ run \in [Request -> Local \cup {Idle}] /\ hour \in 0..MaxHour
    BY <1>1, AtWork DEF ChatInv, ChatTypeOK
<1>3. CASE full
    <2>1. RequestsOnly /\ Becomes(r, "refused")
        BY <1>1, <1>3 DEF TakeTurn, RequestsOnly
    <2> QED
        BY <1>1, <2>1, RefusedStep
<1>4. CASE ~full
    <2>0. /\ store' = [store EXCEPT ![hour] = @ + 1]
          /\ visits' = [visits EXCEPT ![run[r].visitor][Day(hour)] = @ + 1]
        BY <1>4 DEF TakeTurn
    <2>1. CASE run' = [run EXCEPT ![r].phase = "model", ![r].hour = hour]
        <3>1. run' = [run EXCEPT ![r] = Admitted(run[r], hour)]
            BY <1>2, <2>1 DEF Admitted
        <3>2. /\ AttemptOk(Admitted(run[r], hour)) /\ Admitted(run[r], hour) # Idle
              /\ KeepsAdds(run[r], Admitted(run[r], hour))
              /\ Admitted(run[r], hour).visitor = run[r].visitor /\ Admitted(run[r], hour).hour = hour
            BY <1>1, <1>2, AdmittedStays
        <3> HIDE DEF full
        <3> QED
            BY <1>1, <1>4, <2>0, <3>1, <3>2, SpendStep DEF full
    <2>2. CASE Becomes(r, "refused")
        <3> DEFINE q == Redirected(run[r], "refused", run[r].iter, run[r].calls, run[r].unseen, run[r].target)
        <3>1. run' = [run EXCEPT ![r] = q]
            BY <1>2, <2>2 DEF Becomes, Redirected, Local
        <3>2. "refused" \in Running \cup Ended
            BY DEF Ended
        <3>3. AttemptOk(q) /\ q # Idle /\ Carries(run[r], q)
            BY <1>2, <3>2, RedirectedStays, LocalFields DEF AtTools, Holding, LetThrough
        <3>4. q.phase \notin LetThrough
            BY <1>1, <1>2, <3>3 DEF Carries, LetThrough
        <3> HIDE DEF q, full
        <3> QED
            BY <1>1, <1>4, <2>0, <3>1, <3>3, <3>4, SpendStep DEF full, Carries, KeepsAdds
    <2> QED
        BY <1>4, <2>1, <2>2 DEF TakeTurn
<1> QED
    BY <1>3, <1>4

-----------------------------------------------------------------------------
(* The shop.                                                               *)

\* The request has sent an add to cart g.
Asked(p, g) == [p EXCEPT !.phase = "adding", !.sent = @ \cup {g}, !.target = g]

(* It stands for the add it is about to number.                            *)
LEMMA AskedStays ==
    ASSUME NEW p \in Local, AttemptOk(p), p.phase = "tools", NEW g \in Cart
    PROVE  /\ AttemptOk(Asked(p, g)) /\ Asked(p, g) # Idle
           /\ Carries(p, Asked(p, g))
           /\ p.done[g] \in Nat /\ p.done[g] < Stands(Asked(p, g), g)
<1> DEFINE q == Asked(p, g)
<1>1. q \in Local
    BY DEF Local, Asked, Running
<1>2. /\ q.phase = "adding" /\ q.turn = p.turn /\ q.visitor = p.visitor /\ q.hour = p.hour /\ q.iter = p.iter
      /\ q.calls = p.calls /\ q.snap = p.snap /\ q.done = p.done /\ q.sent = p.sent \cup {g}
    BY DEF Local, Asked
<1> HIDE DEF q
<1>3. AttemptOk(q) /\ q # Idle
    BY <1>1, <1>2 DEF AttemptOk, AtTools, Holding, Idle
<1>4. p.done \in [Cart -> Nat]
    BY LocalFields
<1>5. \A c \in Cart : Stands(p, c) \in Nat /\ Stands(p, c) <= Stands(q, c)
    BY <1>2, <1>4 DEF Stands
<1>6. p.done[g] \in Nat /\ p.done[g] < Stands(q, g)
    BY <1>2, <1>4 DEF Stands
<1>7. Carries(p, q)
    BY <1>2, <1>5 DEF Carries, KeepsAdds, LetThrough
<1> QED
    BY <1>3, <1>6, <1>7 DEF q


(* A new add has a number that its attempt stands for; whichever of two    *)
(* attempts got further stands for all.                                    *)
LEMMA CoveredGrows ==
    ASSUME NEW f, NEW g, RequestsOk(f), RequestsOk(g), NEW r \in Request, f[r] # Idle, g[r] # Idle,
           KeepsAdds(f[r], g[r]), \A x \in Request : x # r => g[x] = f[x],
           NEW adds, \A e \in adds : e \in Add,
           NEW v \in Visitor, NEW t \in Turn, NEW c \in Cart, g[r].visitor = v, g[r].turn = t,
           NEW e \in Add, e.key[3] < Stands(g[r], c),
           (\E a \in adds : IsFor(a, v, t, c)) => Covered(f, adds, v, t, c)
    PROVE  Covered(g, adds \cup {e}, v, t, c)
<1>1. /\ \A x \in Request : g[x] # Idle => Stands(g[x], c) \in Nat
      /\ \A a \in adds \cup {e} : a.key[3] \in Nat
    <2>1. \A x \in Request : g[x] # Idle => g[x] \in Local
        BY DEF RequestsOk
    <2> QED
        BY <2>1, LocalFields DEF Stands, Add
<1>2. CASE \A a \in adds : ~IsFor(a, v, t, c)
    BY <1>2 DEF Covered
<1>3. CASE \E a \in adds : IsFor(a, v, t, c)
    <2>1. Covered(g, adds, v, t, c)
        <3>1. Covered(f, adds, v, t, c) /\ \A a \in adds : IsFor(a, v, t, c) => a \in adds
            BY <1>3
        <3> QED
            BY <3>1, CoveredStays
    <2>2. PICK x \in Request : /\ g[x] # Idle /\ g[x].visitor = v /\ g[x].turn = t
                               /\ \A a \in adds : IsFor(a, v, t, c) => a.key[3] < Stands(g[x], c)
        BY <2>1 DEF Covered
    <2>3. Stands(g[x], c) \in Nat /\ Stands(g[r], c) \in Nat /\ e.key[3] \in Nat
        BY <1>1, <2>2
    <2>4. CASE e.key[3] < Stands(g[x], c)
        BY <2>2, <2>4 DEF Covered
    <2>5. CASE ~(e.key[3] < Stands(g[x], c))
        <3>1. Stands(g[x], c) <= Stands(g[r], c)
            BY <2>3, <2>5
        <3>2. \A a \in adds : IsFor(a, v, t, c) => a.key[3] < Stands(g[r], c)
            BY <1>1, <2>2, <2>3, <3>1
        <3> QED
            BY <3>2 DEF Covered
    <2> QED
        BY <2>4, <2>5
<1> QED
    BY <1>2, <1>3

(* An add leaves for the shop.                                             *)
LEMMA AddToCartStep ==
    ASSUME ChatInv, NEW r \in Request, AddToCart(r)
    PROVE  ChatInv'
<1>1. /\ run[r].phase = "tools" /\ run[r].phase # "idle"
      /\ UNCHANGED <<stored, store, visits, hour, applied>>
    BY DEF AddToCart
<1>2. /\ run[r] # Idle /\ run[r] \in Local /\ AttemptOk(run[r]) /\ RequestsOk(run) /\ StoredOk(stored)
      /\ ChatTypeOK
    BY <1>1, AtWork DEF ChatInv, ChatTypeOK, RequestsOk
<1>3. PICK c \in {run[r].snap.cart, run[r].cart, NoCart} :
          LET target == IF c = NoCart THEN carts + 1 ELSE c IN
          /\ target <= MaxCarts
          /\ carts' = IF c = NoCart THEN carts + 1 ELSE carts
          /\ wire' = wire \cup {[by |-> run[r].visitor, key |-> Key(r, target), turn |-> run[r].turn, cart |-> target]}
          /\ run' = [run EXCEPT ![r].phase = "adding", ![r].sent = @ \cup {target}, ![r].target = target]
    BY Zenon DEF AddToCart
<1> DEFINE g == IF c = NoCart THEN carts + 1 ELSE c
           e == [by |-> run[r].visitor, key |-> Key(r, g), turn |-> run[r].turn, cart |-> g]
           q == Asked(run[r], g)
<1>4. /\ g <= MaxCarts
      /\ carts' = IF c = NoCart THEN carts + 1 ELSE carts
      /\ wire' = wire \cup {e}
    BY <1>3
<1>5. run' = [run EXCEPT ![r] = q]
    BY <1>2, <1>3 DEF Asked, RequestsOk
<1>6. g \in Cart /\ carts' \in 0..MaxCarts
    <2>1. c \in Cart \cup {NoCart} /\ carts \in 0..MaxCarts /\ MaxCarts \in Nat
        BY <1>2, LocalFields, ChatAssumption DEF ChatTypeOK, Conversation
    <2> QED
        BY <1>4, <2>1 DEF Cart, NoCart
<1> HIDE DEF g
<1>7. /\ AttemptOk(q) /\ q # Idle /\ Carries(run[r], q)
      /\ run[r].done[g] \in Nat /\ run[r].done[g] < Stands(q, g)
    BY <1>1, <1>2, <1>6, AskedStays
<1>8. /\ e \in Add /\ e.key = <<e.turn, e.cart, e.key[3]>>
      /\ e.by = run[r].visitor /\ e.turn = run[r].turn /\ e.cart = g
      /\ e.key[3] = run[r].done[g]
    <2>1. run[r].turn \in Turn /\ run[r].visitor \in Visitor
        BY <1>2, LocalFields
    <2> QED
        BY <1>6, <1>7, <2>1 DEF Add, Key
<1> HIDE DEF q, e
<1>9. RequestsOk(run') /\ run'[r] = q /\ \A x \in Request : x # r => run'[x] = run[x]
    BY <1>2, <1>5, <1>7 DEF RequestsOk, AttemptOk
<1>10. AddsInv'
    <2> DEFINE adds == applied \cup wire
    <2>1. applied' \cup wire' = adds \cup {e}
        BY <1>1, <1>4
    <2>2. \A a \in adds : a \in Add /\ a.key = <<a.turn, a.cart, a.key[3]>>
        BY DEF ChatInv, AddsInv
    <2>3. /\ KeepsAdds(run[r], run'[r]) /\ run'[r] # Idle
          /\ run'[r].visitor = run[r].visitor /\ run'[r].turn = run[r].turn
        BY <1>7, <1>9 DEF Carries, KeepsAdds
    <2>4. ASSUME NEW v \in Visitor, NEW t \in Turn, NEW d \in Cart, \E a \in adds \cup {e} : IsFor(a, v, t, d)
          PROVE  Covered(run', adds \cup {e}, v, t, d)
        <3>1. (\E a \in adds : IsFor(a, v, t, d)) => Covered(run, adds, v, t, d)
            BY DEF ChatInv, AddsInv
        <3>2. CASE v = run[r].visitor /\ t = run[r].turn /\ d = g
            <4>1. e.key[3] < Stands(run'[r], d)
                BY <1>7, <1>8, <1>9, <3>2
            <4> HIDE DEF adds
            <4> QED
                BY <1>2, <1>8, <1>9, <2>2, <2>3, <3>1, <3>2, <4>1, CoveredGrows
        <3>3. CASE ~(v = run[r].visitor /\ t = run[r].turn /\ d = g)
            <4>1. \A a \in adds \cup {e} : IsFor(a, v, t, d) => a \in adds
                BY <1>8, <3>3 DEF IsFor
            <4>2. Covered(run, adds, v, t, d)
                BY <2>4, <3>1, <4>1
            <4> HIDE DEF adds
            <4> QED
                BY <1>2, <1>9, <2>2, <2>3, <4>1, <4>2, CoveredStays
        <3> QED
            BY <3>2, <3>3
    <2>5. \A a \in adds \cup {e} : a \in Add /\ a.key = <<a.turn, a.cart, a.key[3]>>
        BY <1>8, <2>2
    <2>6. \A a, b \in applied' : a.by = b.by /\ a.key = b.key => a = b
        BY <1>1 DEF ChatInv, AddsInv
    <2> HIDE DEF adds
    <2> QED
        BY <2>1, <2>4, <2>5, <2>6 DEF AddsInv
<1>11. BudgetInv'
    BY <1>1, <1>2, <1>7, <1>9, BudgetStays DEF ChatInv, ChatTypeOK
<1>12. ChatTypeOK'
    <2>1. applied' \cup wire' \subseteq Add
        BY <1>1, <1>2, <1>4, <1>8 DEF ChatTypeOK, Add
    <2> QED
        BY <1>1, <1>2, <1>6, <1>9, <2>1 DEF ChatTypeOK, RequestsOk, Add
<1> QED
    BY <1>1, <1>9, <1>10, <1>11, <1>12 DEF ChatInv, RequestsOk

\* The request has heard that its add to cart g is done, and of cart t.
Known(p, g, t) == [p EXCEPT !.done[g] = @ + 1, !.sent = @ \ {g}, !.cart = t]

(* It stands for what it stood for: what it knows to be done, it no longer *)
(* has to be sure of.                                                      *)
LEMMA KnownStays ==
    ASSUME NEW p \in Local, AttemptOk(p), p.phase = "adding",
           NEW g \in Cart \cup {NoCart}, NEW t \in Cart \cup {NoCart}
    PROVE  /\ Known(p, g, t) \in Local /\ AttemptOk(Known(p, g, t)) /\ Known(p, g, t).phase = "adding"
           /\ Carries(p, Known(p, g, t))
<1> DEFINE q == Known(p, g, t)
           done == [p.done EXCEPT ![g] = @ + 1]
<1>0. p.done \in [Cart -> Nat] /\ p.sent \in SUBSET Cart
    BY LocalFields
<1>1. done \in [Cart -> Nat]
    <2>1. CASE g \in Cart
        BY <1>0, <2>1
    <2>2. CASE g \notin Cart
        <3>1. done = p.done
            BY <1>0, <2>2
        <3> QED
            BY <1>0, <3>1
    <2> QED
        BY <2>1, <2>2
<1>2. \A c \in Cart : done[c] = IF c = g THEN p.done[c] + 1 ELSE p.done[c]
    BY <1>0
<1>3. q = [p EXCEPT !.done = done, !.sent = p.sent \ {g}, !.cart = t]
    BY DEF Known, Local
<1> HIDE DEF done
<1>4. q \in Local
    BY <1>0, <1>1, <1>3 DEF Local
<1>5. /\ q.phase = p.phase /\ q.turn = p.turn /\ q.visitor = p.visitor /\ q.hour = p.hour /\ q.iter = p.iter
      /\ q.calls = p.calls /\ q.snap = p.snap /\ q.unseen = p.unseen /\ q.done = done /\ q.sent = p.sent \ {g}
    BY <1>3 DEF Local
<1> HIDE DEF q
<1>6. AttemptOk(q)
    BY <1>4, <1>5 DEF AttemptOk
<1>7. \A c \in Cart : Stands(p, c) <= Stands(q, c)
    BY <1>0, <1>2, <1>5 DEF Stands
<1>8. Carries(p, q)
    BY <1>5, <1>7 DEF Carries, KeepsAdds
<1> QED
    BY <1>4, <1>5, <1>6, <1>8 DEF q

(* The answer comes, and the request goes on.                              *)
LEMMA AnsweredStep ==
    ASSUME ChatInv, NEW r \in Request, Answered(r)
    PROVE  ChatInv'
<1>1. run[r].phase = "adding" /\ run[r].phase # "idle" /\ RequestsOnly
    BY DEF Answered, RequestsOnly
<1>2. run[r] # Idle /\ run[r] \in Local /\ AttemptOk(run[r]) /\ StoredOk(stored)
    BY <1>1, AtWork
<1> DEFINE g == run[r].target
<1>3. PICK told \in {g, run[r].cart} : run' = [run EXCEPT ![r] = AfterCall(Known(run[r], g, told))]
    BY Zenon DEF Answered, Known
<1>4. g \in Cart \cup {NoCart} /\ told \in Cart \cup {NoCart}
    BY <1>2, LocalFields
<1> HIDE DEF g
<1> DEFINE p == Known(run[r], g, told)
<1>5. p \in Local /\ AttemptOk(p) /\ p.phase = "adding" /\ Carries(run[r], p)
    BY <1>1, <1>2, <1>4, KnownStays
<1> HIDE DEF p
<1>6. PICK ph \in {"tools", "model", "save"}, i \in 1..MaxIterations, n \in 0..(MaxCalls + 1) :
          /\ AfterCall(p) = Redirected(p, ph, i, n, TRUE, NoCart)
          /\ ph = "tools" => n > 0
          /\ ph = "save" => i = MaxIterations
    BY <1>5, AfterCallIs DEF AtTools
<1> DEFINE q == Redirected(p, ph, i, n, TRUE, NoCart)
<1>7. run' = [run EXCEPT ![r] = q]
    BY <1>3, <1>6 DEF p
<1>8. /\ ph \in Running \cup Ended /\ TRUE \in BOOLEAN /\ NoCart \in Cart \cup {NoCart}
      /\ p.phase \in Holding /\ p.phase \in LetThrough
      /\ ph \in AtTools => ph = "tools"
    BY <1>5 DEF Running, AtTools, Holding, LetThrough
<1>9. AttemptOk(q) /\ q # Idle /\ Carries(p, q)
    BY <1>5, <1>6, <1>8, RedirectedStays
<1> HIDE DEF q
<1>10. Carries(run[r], q)
    <2>1. \A c \in Cart : Stands(run[r], c) \in Nat /\ Stands(p, c) \in Nat /\ Stands(q, c) \in Nat
        <3>1. q \in Local
            BY <1>9 DEF AttemptOk
        <3> QED
            BY <1>2, <1>5, <3>1, LocalFields DEF Stands
    <2>2. \A c \in Cart : Stands(run[r], c) <= Stands(q, c)
        BY <1>5, <1>9, <2>1 DEF Carries, KeepsAdds
    <2> QED
        BY <1>5, <1>9, <2>2 DEF Carries, KeepsAdds
<1> QED
    BY <1>1, <1>2, <1>7, <1>9, <1>10, CarriesOn DEF RequestsOnly

(* The shop does an add, unless it did one of that visitor under that key. *)
LEMMA DeliverStep ==
    ASSUME ChatInv, NEW e \in wire, Deliver(e)
    PROVE  ChatInv'
<1>1. UNCHANGED <<run, stored, store, visits, hour, carts>>
    BY DEF Deliver
<1>2. applied' \cup wire' \subseteq applied \cup wire
    BY DEF Deliver
<1>3. AddsInv'
    <2>1. \A a \in applied' \cup wire' : a \in Add /\ a.key = <<a.turn, a.cart, a.key[3]>>
        BY <1>2 DEF ChatInv, AddsInv
    <2>2. \A a, b \in applied' : a.by = b.by /\ a.key = b.key => a = b
        BY DEF Deliver, Once, ChatInv, AddsInv
    <2>3. ASSUME NEW v \in Visitor, NEW t \in Turn, NEW c \in Cart, \E a \in applied' \cup wire' : IsFor(a, v, t, c)
          PROVE  Covered(run', applied' \cup wire', v, t, c)
        <3>1. Covered(run, applied \cup wire, v, t, c)
            BY <1>2, <2>3 DEF ChatInv, AddsInv
        <3> QED
            BY <1>1, <1>2, <3>1 DEF Covered
    <2> QED
        BY <2>1, <2>2, <2>3 DEF AddsInv
<1>4. BudgetInv'
    BY <1>1 DEF ChatInv, BudgetInv, HourOf, DayOf
<1>5. ChatTypeOK'
    BY <1>1, <1>2 DEF ChatInv, ChatTypeOK
<1> QED
    BY <1>1, <1>3, <1>4, <1>5 DEF ChatInv


-----------------------------------------------------------------------------
(* The shopper, Redis and the clock.                                       *)

\* A request as it comes in.
Incoming(t, v, c, g) ==
    [phase |-> "load", turn |-> t, visitor |-> v, conv |-> c, shown |-> g, snap |-> Fresh, hour |-> 0,
     iter |-> 1, calls |-> 0, unseen |-> FALSE, target |-> NoCart, cart |-> NoCart,
     sent |-> {}, done |-> [k \in Cart |-> 0]]

(* It is sound, and holds nothing yet.                                     *)
LEMMA IncomingIsOk ==
    ASSUME NEW t \in Turn, NEW v \in Visitor, NEW c \in Request \cup {NoConv}, NEW g \in Cart \cup {NoCart}
    PROVE  /\ AttemptOk(Incoming(t, v, c, g)) /\ Incoming(t, v, c, g) # Idle
           /\ Incoming(t, v, c, g).phase = "load"
<1> DEFINE q == Incoming(t, v, c, g)
<1>1. Fresh \in [log : Seq(Turn), cart : Cart \cup {NoCart}] /\ 0 \in 0..MaxHour /\ 1 \in 1..MaxIterations /\ 0 \in 0..(MaxCalls + 1)
    BY ChatAssumption DEF Fresh
<1>2. {} \in SUBSET Cart /\ [k \in Cart |-> 0] \in [Cart -> Nat] /\ NoCart \in Cart \cup {NoCart} /\ "load" \in Running
    BY DEF Running
<1>3. q \in Local
    BY <1>1, <1>2 DEF Local, Incoming
<1>4. q.phase = "load"
    BY DEF Incoming
<1> HIDE DEF q
<1> QED
    BY <1>3, <1>4 DEF AttemptOk, AtTools, Holding, Idle, q

(* A message is sent, or sent again.                                       *)
LEMMA SendStep ==
    ASSUME ChatInv, NEW r \in Request, NEW t \in Turn, Send(r, t)
    PROVE  ChatInv'
<1>1. run[r] = Idle /\ RequestsOnly
    BY DEF Send, RequestsOnly
<1>2. PICK c \in {NoConv} \cup {run[q].conv : q \in {p \in Request : run[p].phase = "done"}},
           g \in {NoCart} \cup 1..carts, v \in Visitor : run' = [run EXCEPT ![r] = Incoming(t, v, c, g)]
    BY Zenon DEF Send, Incoming
<1>3. c \in Request \cup {NoConv}
    <2>1. ASSUME NEW q \in Request, run[q].phase = "done" PROVE run[q].conv \in Request \cup {NoConv}
        BY <2>1, AtWork, LocalFields
    <2> QED
        BY <1>2, <2>1
<1>4. g \in Cart \cup {NoCart}
    BY ChatAssumption DEF ChatInv, ChatTypeOK, Cart
<1> DEFINE q == Incoming(t, v, c, g)
<1>5. AttemptOk(q) /\ q # Idle /\ q.phase = "load"
    BY <1>3, <1>4, IncomingIsOk
<1> HIDE DEF q
<1>6. RequestsOk(run)
    BY DEF ChatInv, ChatTypeOK, RequestsOk
<1>7. run' = [run EXCEPT ![r] = q]
    BY <1>2 DEF q
<1>8. RequestsOk(run') /\ run'[r] = q /\ \A x \in Request : x # r => run'[x] = run[x]
    BY <1>5, <1>6, <1>7 DEF RequestsOk, AttemptOk
<1>9. AddsInv'
    BY <1>1, <1>5, <1>6, <1>8, AddsStay DEF ChatInv, RequestsOnly
<1>10. BudgetInv'
    BY <1>1, <1>5, <1>6, <1>8, BudgetStays DEF ChatInv, ChatTypeOK, RequestsOnly, LetThrough
<1>11. ChatTypeOK'
    BY <1>1, <1>8 DEF ChatInv, ChatTypeOK, RequestsOk, RequestsOnly
<1> QED
    BY <1>1, <1>8, <1>9, <1>10, <1>11 DEF ChatInv, RequestsOk, RequestsOnly

(* A conversation expires, or time passes.                                 *)
LEMMA OutsideStep ==
    ASSUME ChatInv, Tick \/ \E c \in Request : Expire(c)
    PROVE  ChatInv'
<1>1. UNCHANGED <<run, store, visits, carts, wire, applied>>
    BY DEF Tick, Expire
<1>2. stored' = stored \/ \E c \in Request : stored' = [stored EXCEPT ![c] = NoConv]
    BY DEF Tick, Expire
<1>3. hour' \in 0..MaxHour
    BY ChatAssumption DEF Tick, Expire, ChatInv, ChatTypeOK
<1>4. StoredOk(stored')
    BY <1>2 DEF ChatInv, ChatTypeOK, StoredOk, Conversation
<1>5. AddsInv'
    BY <1>1 DEF ChatInv, AddsInv
<1>6. BudgetInv'
    BY <1>1 DEF ChatInv, BudgetInv
<1>7. ChatTypeOK'
    BY <1>1, <1>3, <1>4 DEF ChatInv, ChatTypeOK, StoredOk, Conversation
<1> QED
    BY <1>1, <1>4, <1>5, <1>6, <1>7 DEF ChatInv, StoredOk

-----------------------------------------------------------------------------
(* The invariant holds.                                                    *)

(* Nothing has been asked for, counted or stored at first.                 *)
LEMMA ChatInitially == ChatInit => ChatInv
<1> SUFFICES ASSUME ChatInit PROVE ChatInv
    OBVIOUS
<1>1. ChatTypeOK
    BY ChatAssumption DEF ChatInit, ChatTypeOK
<1>2. AddsInv
    BY DEF ChatInit, AddsInv
<1>3. BudgetInv
    <2>1. \A h \in 0..MaxHour : HourOf(run, h) = {}
        BY DEF ChatInit, Idle, HourOf, LetThrough
    <2>2. \A v \in Visitor, d \in Days : DayOf(run, v, d) = {}
        BY DEF ChatInit, Idle, DayOf, LetThrough
    <2>3. 0 <= StorePerHour /\ 0 <= VisitorPerDay
        BY ChatAssumption
    <2>4. Cardinality({}) = 0 /\ 0 <= 0
        BY FS_EmptySet
    <2>5. /\ \A h \in 0..MaxHour : store[h] = 0
          /\ \A v \in Visitor, d \in Days : visits[v][d] = 0
        BY DEF ChatInit
    <2>6. \A h \in 0..MaxHour : Cardinality(HourOf(run, h)) <= store[h] /\ store[h] <= StorePerHour
        BY <2>1, <2>3, <2>4, <2>5
    <2>7. \A v \in Visitor, d \in Days :
              Cardinality(DayOf(run, v, d)) <= visits[v][d] /\ visits[v][d] <= VisitorPerDay
        BY <2>2, <2>3, <2>4, <2>5
    <2> QED
        BY <2>6, <2>7 DEF BudgetInv
<1> QED
    BY <1>1, <1>2, <1>3 DEF ChatInv, ChatInit

(* Every step of the assistant keeps the invariant.                        *)
LEMMA ChatStep == ChatInv /\ [ChatNext]_chatVars => ChatInv'
<1> SUFFICES ASSUME ChatInv, [ChatNext]_chatVars PROVE ChatInv'
    OBVIOUS
<1>1. ASSUME NEW r \in Request, TakeTurnFails(r) PROVE ChatInv'
    BY <1>1, RefusedStep DEF TakeTurnFails, RequestsOnly
<1>2. ASSUME NEW r \in Request, Handle(r) PROVE ChatInv'
    <2> USE <1>2
    <2>1. CASE Load(r) \/ TakeTurn(r) \/ TakeTurnFails(r)
        BY <1>1, <2>1, LoadStep, TakeTurnStep
    <2>2. CASE Speak(r) \/ AskTools(r) \/ ModelFails(r)
        BY <2>2, SpeakStep, AskToolsStep, AbandonsStep
    <2>3. CASE OtherTool(r) \/ AddToCart(r) \/ Answered(r) \/ Unanswered(r)
        BY <2>3, ChatCallStep, AddToCartStep, AnsweredStep
    <2>4. CASE Save(r)
        BY <2>4, ChatSaveStep
    <2> QED
        BY <2>1, <2>2, <2>3, <2>4 DEF Handle
<1>3. CASE UNCHANGED chatVars
    BY <1>3 DEF chatVars, ChatInv, ChatTypeOK, AddsInv, BudgetInv
<1>4. CASE ChatNext
    BY <1>2, <1>4, AbandonsStep, SendStep, DeliverStep, OutsideStep DEF ChatNext
<1> QED
    BY <1>3, <1>4

(* ChatInv is an invariant of the assistant.                               *)
LEMMA ChatHolds == ChatSpec => []ChatInv
BY ChatInitially, ChatStep, PTL DEF ChatSpec

(* Every request, conversation, budget and add has its type, through all   *)
(* failures of Redis, of the model and of the shop (handler.go).           *)
THEOREM ChatTypes == ChatSpec => []ChatTypeOK
<1>1. ChatInv => ChatTypeOK
    BY DEF ChatInv
<1> QED
    BY <1>1, ChatHolds, PTL

(* No conversation outgrows its cap by more than one turn, whichever tabs  *)
(* and pods write it (Store.Load, Store.Save).                             *)
THEOREM ChatConversationsAreBounded == ChatSpec => []ConversationBounded
<1>1. ChatInv => ConversationBounded
    BY DEF ChatInv, ConversationBounded, Resting
<1> QED
    BY <1>1, ChatHolds, PTL

(* Whatever the model asks for and however the calls end, results go       *)
(* unmentioned only if the turn has used up its iterations (runTurn).      *)
THEOREM ChatResultsAreShown == ChatSpec => []ResultsAreShown
<1>1. ASSUME ChatInv, NEW r \in Request, run[r].phase \in {"save", "done"}, run[r].unseen
      PROVE  run[r].iter = MaxIterations
    <2>1. AttemptOk(run[r])
        BY <1>1, AttemptIsBusy DEF ChatInv
    <2> QED
        BY <1>1, <2>1 DEF AttemptOk
<1>2. ChatInv => ResultsAreShown
    BY <1>1 DEF ResultsAreShown
<1> QED
    BY <1>2, ChatHolds, PTL

(* However many pods serve a store, no more turns reach the model than the *)
(* hour of the store and the day of the visitor allow (Quota.Allow).       *)
THEOREM ChatQuotaHolds == ChatSpec => []QuotaHolds
<1>1. ASSUME ChatInv PROVE QuotaHolds
    <2>1. \A h \in 0..MaxHour : Cardinality(HourOf(run, h)) <= StorePerHour
        <3>1. ASSUME NEW h \in 0..MaxHour PROVE Cardinality(HourOf(run, h)) <= StorePerHour
            <4>1. HourOf(run, h) \in SUBSET Request
                BY DEF HourOf
            <4>2. Cardinality(HourOf(run, h)) \in Nat /\ store[h] \in Nat /\ StorePerHour \in Nat
                BY <1>1, <4>1, FinitelyMany, ChatAssumption DEF ChatInv, ChatTypeOK
            <4> QED
                BY <1>1, <4>2 DEF ChatInv, BudgetInv
        <3> QED
            BY <3>1
    <2>2. \A v \in Visitor, d \in Days : Cardinality(DayOf(run, v, d)) <= VisitorPerDay
        <3>1. ASSUME NEW v \in Visitor, NEW d \in Days PROVE Cardinality(DayOf(run, v, d)) <= VisitorPerDay
            <4>1. DayOf(run, v, d) \in SUBSET Request
                BY DEF DayOf
            <4>2. Cardinality(DayOf(run, v, d)) \in Nat /\ visits[v][d] \in Nat /\ VisitorPerDay \in Nat
                BY <1>1, <4>1, FinitelyMany, ChatAssumption DEF ChatInv, ChatTypeOK
            <4> QED
                BY <1>1, <4>2 DEF ChatInv, BudgetInv
        <3> QED
            BY <3>1
    <2>3. \A h \in 0..MaxHour : {r \in Taken : run[r].hour = h} = HourOf(run, h)
        BY DEF Taken, HourOf, LetThrough
    <2>4. \A v \in Visitor, d \in Days : {r \in Taken : run[r].visitor = v /\ Day(run[r].hour) = d} = DayOf(run, v, d)
        BY DEF Taken, DayOf, LetThrough
    <2> QED
        BY <2>1, <2>2, <2>3, <2>4 DEF QuotaHolds
<1> QED
    BY <1>1, ChatHolds, PTL

(* A step spends a turn of both budgets, or of neither (Quota.Allow).      *)
LEMMA BothOrNeither ==
    ASSUME ChatInv, [ChatNext]_chatVars
    PROVE  \/ UNCHANGED <<store, visits>>
           \/ \E v \in Visitor :
                 /\ store' = [store EXCEPT ![hour] = @ + 1]
                 /\ visits' = [visits EXCEPT ![v][Day(hour)] = @ + 1]
<1>1. ASSUME NEW r \in Request, TakeTurn(r), ~UNCHANGED <<store, visits>>
      PROVE  \E v \in Visitor : /\ store' = [store EXCEPT ![hour] = @ + 1]
                                /\ visits' = [visits EXCEPT ![v][Day(hour)] = @ + 1]
    <2>1. run[r].phase = "quota" /\ (run[r] = Idle \/ AttemptOk(run[r]))
        BY <1>1 DEF TakeTurn, ChatInv
    <2>2. run[r].visitor \in Visitor
        BY <2>1, AttemptIsBusy, LocalFields
    <2> QED
        BY <1>1, <2>2 DEF TakeTurn
<1>2. ASSUME NEW r \in Request, Handle(r) \/ CutShort(r) \/ Expire(r), ~TakeTurn(r)
      PROVE  UNCHANGED <<store, visits>>
    <2>1. Load(r) \/ TakeTurnFails(r) \/ Speak(r) \/ AskTools(r) => UNCHANGED <<store, visits>>
        BY Zenon DEF Load, TakeTurnFails, Speak, AskTools
    <2>2. ModelFails(r) \/ OtherTool(r) \/ AddToCart(r) \/ Unanswered(r) => UNCHANGED <<store, visits>>
        BY Zenon DEF ModelFails, OtherTool, AddToCart, Unanswered
    <2>3. Answered(r) => UNCHANGED <<store, visits>>
        BY Zenon DEF Answered
    <2>4. Save(r) \/ CutShort(r) \/ Expire(r) => UNCHANGED <<store, visits>>
        BY DEF Save, CutShort, Expire
    <2> QED
        BY <1>2, <2>1, <2>2, <2>3, <2>4 DEF Handle
<1>3. ASSUME NEW r \in Request, NEW t \in Turn, Send(r, t) PROVE UNCHANGED <<store, visits>>
    BY <1>3 DEF Send
<1>4. ASSUME NEW e \in wire, Deliver(e) PROVE UNCHANGED <<store, visits>>
    BY <1>4 DEF Deliver
<1>5. Tick \/ UNCHANGED chatVars => UNCHANGED <<store, visits>>
    BY DEF Tick, chatVars
<1>6. CASE \E r \in Request : TakeTurn(r)
    BY <1>1, <1>6
<1>7. CASE ~\E r \in Request : TakeTurn(r)
    BY <1>2, <1>3, <1>4, <1>5, <1>7 DEF ChatNext
<1> QED
    BY <1>6, <1>7

\* The hours of a day, and what each visitor spent on it.
HoursOf(d) == {h \in 0..MaxHour : Day(h) = d}
SpentOn(spent, d) == [v \in Visitor |-> spent[v][d]]

(* Where nothing was counted in an hour of the day, both sums stay; where  *)
(* one turn was, it is in both.                                            *)
LEMMA SumsAgreeOn ==
    ASSUME ChatInv, [ChatNext]_chatVars, NEW d \in Days,
           SumFunctionOnSet(store, HoursOf(d)) = SumFunction(SpentOn(visits, d))
    PROVE  SumFunctionOnSet(store', HoursOf(d)) = SumFunction(SpentOn(visits', d))
<1>1. /\ store \in [0..MaxHour -> Nat] /\ visits \in [Visitor -> [Days -> Nat]]
      /\ hour \in 0..MaxHour /\ IsFiniteSet(Visitor)
    BY ChatAssumption DEF ChatInv, ChatTypeOK
<1>2. IsFiniteSet(HoursOf(d))
    <2>1. IsFiniteSet(0..MaxHour)
        BY ChatAssumption, FS_Interval
    <2> QED
        BY <2>1, FS_Subset DEF HoursOf
<1>3. \A spent : SumFunction(SpentOn(spent, d)) = SumFunctionOnSet(SpentOn(spent, d), Visitor)
    BY DEF SumFunction, SpentOn
<1>4. CASE UNCHANGED <<store, visits>>
    BY <1>4
<1>5. ASSUME NEW v \in Visitor, store' = [store EXCEPT ![hour] = @ + 1],
             visits' = [visits EXCEPT ![v][Day(hour)] = @ + 1]
      PROVE  SumFunctionOnSet(store', HoursOf(d)) = SumFunction(SpentOn(visits', d))
    <2>1. Day(hour) \in Days
        BY <1>1, DaysPass
    <2>2. /\ \A h \in 0..MaxHour : store'[h] = IF h = hour THEN store[h] + 1 ELSE store[h]
          /\ \A u \in Visitor : SpentOn(visits', d)[u] =
                IF u = v /\ Day(hour) = d THEN SpentOn(visits, d)[u] + 1 ELSE SpentOn(visits, d)[u]
        BY <1>1, <1>5, <2>1 DEF SpentOn
    <2>3. Whole(store, HoursOf(d)) /\ Whole(SpentOn(visits, d), Visitor)
        <3>1. \A h \in HoursOf(d) : store[h] \in Int
            BY <1>1 DEF HoursOf
        <3>2. \A u \in Visitor : SpentOn(visits, d)[u] = visits[u][d] /\ visits[u][d] \in Nat
            BY <1>1 DEF SpentOn
        <3> QED
            BY <3>1, <3>2 DEF Whole
    <2>4. CASE Day(hour) = d
        <3>1. hour \in HoursOf(d) /\ HoursOf(d) \in SUBSET (0..MaxHour)
            BY <1>1, <2>4 DEF HoursOf
        <3>2. SumFunctionOnSet(store', HoursOf(d)) = SumFunctionOnSet(store, HoursOf(d)) + 1
            BY <1>2, <2>2, <2>3, <3>1, SumGrows
        <3>3. SumFunctionOnSet(SpentOn(visits', d), Visitor) = SumFunctionOnSet(SpentOn(visits, d), Visitor) + 1
            BY <1>1, <2>2, <2>3, <2>4, SumGrows
        <3> QED
            BY <1>3, <3>2, <3>3
    <2>5. CASE Day(hour) # d
        <3>1. hour \notin HoursOf(d) /\ HoursOf(d) \in SUBSET (0..MaxHour)
            BY <2>5 DEF HoursOf
        <3>2. SumFunctionOnSet(store', HoursOf(d)) = SumFunctionOnSet(store, HoursOf(d))
            BY <1>2, <2>2, <3>1, SumOfSame
        <3>3. SumFunctionOnSet(SpentOn(visits', d), Visitor) = SumFunctionOnSet(SpentOn(visits, d), Visitor)
            BY <1>1, <2>2, <2>5, SumOfSame
        <3> QED
            BY <1>3, <3>2, <3>3
    <2> QED
        BY <2>4, <2>5
<1> QED
    BY <1>4, <1>5, BothOrNeither

(* In both windows, what was counted on a day is the same: no turn is      *)
(* spent where the other window refused it (takeTurn).                     *)
THEOREM ChatBudgetsAgree == ChatSpec => []BudgetsAgree
<1>1. ChatInit => BudgetsAgree
    <2> SUFFICES ASSUME ChatInit, NEW d \in Days
                 PROVE  SumFunctionOnSet(store, HoursOf(d)) = SumFunction(SpentOn(visits, d))
        BY DEF BudgetsAgree, HoursOf, SpentOn
    <2>1. \A h \in HoursOf(d) : store[h] = 0
        BY DEF ChatInit, HoursOf
    <2>2. \A v \in Visitor : SpentOn(visits, d)[v] = 0
        BY DEF ChatInit, SpentOn
    <2>3. IsFiniteSet(HoursOf(d)) /\ IsFiniteSet(Visitor)
        <3>1. IsFiniteSet(0..MaxHour) /\ IsFiniteSet(Visitor)
            BY ChatAssumption, FS_Interval
        <3> QED
            BY <3>1, FS_Subset DEF HoursOf
    <2>4. SumFunctionOnSet(store, HoursOf(d)) = 0 /\ SumFunctionOnSet(SpentOn(visits, d), Visitor) = 0
        BY <2>1, <2>2, <2>3, SumOfZeros
    <2> QED
        BY <2>4 DEF SumFunction, SpentOn
<1>2. ChatInv /\ BudgetsAgree /\ [ChatNext]_chatVars => BudgetsAgree'
    BY SumsAgreeOn DEF BudgetsAgree, HoursOf, SpentOn
<1> QED
    BY <1>1, <1>2, ChatHolds, PTL DEF ChatSpec

(* Numbers below m that differ are at most m.                              *)
LEMMA NumbersCount ==
    ASSUME NEW S, NEW m \in Nat, NEW f \in [S -> 0..(m - 1)], \A a, b \in S : f[a] = f[b] => a = b
    PROVE  Cardinality(S) <= m
<1>1. f \in Injection(S, 0..(m - 1))
    BY DEF Injection, IsInjective
<1>2. IsFiniteSet(0..(m - 1)) /\ Cardinality(0..(m - 1)) = m
    BY FS_Interval
<1>3. Cardinality(S) <= Cardinality(0..(m - 1))
    BY <1>1, <1>2, FS_Injection
<1> QED
    BY <1>2, <1>3

(* From one address, a product gets into a cart no more often than one     *)
(* attempt at the turn meant it to, whether the model repeats a call or    *)
(* the shopper the message, and however late an add arrives (addToCart,    *)
(* idempotent).                                                            *)
THEOREM ChatAddsOnce == ChatSpec => []AddsOnce
<1>1. ASSUME ChatInv PROVE AddsOnce
    <2>1. ASSUME NEW v \in Visitor, NEW t \in Turn, NEW c \in Cart,
                 Cardinality({a \in applied : a.by = v /\ a.turn = t /\ a.cart = c}) > 0
          PROVE  \E r \in Sent(v, t) : Cardinality({a \in applied : a.by = v /\ a.turn = t /\ a.cart = c}) <= Meant(r, c)
        <3> DEFINE S == {a \in applied : a.by = v /\ a.turn = t /\ a.cart = c}
        <3>1. S # {}
            BY <2>1, FS_EmptySet
        <3>2. Covered(run, applied \cup wire, v, t, c)
            BY <1>1, <3>1 DEF ChatInv, AddsInv, IsFor
        <3>3. PICK r \in Request : /\ run[r] # Idle /\ run[r].visitor = v /\ run[r].turn = t
                                   /\ \A e \in applied \cup wire : IsFor(e, v, t, c) => e.key[3] < Stands(run[r], c)
            BY <3>2 DEF Covered
        <3>4. Stands(run[r], c) \in Nat
            <4>1. run[r] \in Local
                BY <1>1, <3>3 DEF ChatInv, AttemptOk
            <4> QED
                BY <4>1, LocalFields DEF Stands
        <3> DEFINE f == [a \in S |-> a.key[3]]
        <3>5. f \in [S -> 0..(Stands(run[r], c) - 1)]
            <4>1. ASSUME NEW a \in S PROVE a.key[3] \in 0..(Stands(run[r], c) - 1)
                <5>1. a \in applied \cup wire /\ IsFor(a, v, t, c)
                    BY DEF IsFor
                <5>2. a.key[3] \in Nat
                    BY <1>1, <5>1 DEF ChatInv, AddsInv, Add
                <5> QED
                    BY <3>3, <3>4, <5>1, <5>2
            <4> QED
                BY <4>1
        <3>6. \A a, b \in S : f[a] = f[b] => a = b
            <4>1. ASSUME NEW a \in S, NEW b \in S, a.key[3] = b.key[3] PROVE a = b
                <5>1. a.key = <<t, c, a.key[3]>> /\ b.key = <<t, c, b.key[3]>>
                    BY <1>1 DEF ChatInv, AddsInv
                <5> QED
                    BY <1>1, <4>1, <5>1 DEF ChatInv, AddsInv
            <4> QED
                BY <4>1
        <3> HIDE DEF f, S
        <3>7. Cardinality(S) <= Stands(run[r], c)
            BY <3>4, <3>5, <3>6, NumbersCount
        <3> QED
            BY <3>3, <3>7 DEF S, Sent, Meant, Stands
    <2> QED
        BY <2>1 DEF AddsOnce
<1> QED
    BY <1>1, ChatHolds, PTL
=============================================================================
