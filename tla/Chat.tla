-------------------------------- MODULE Chat --------------------------------
(***************************************************************************)
(* The shopping assistant: POST /chat calls of one store, served by any    *)
(* pod.  A call loads a conversation from Redis, spends a turn of two      *)
(* budgets, lets the model loop over the tools, and saves the conversation.*)
(* The tool that matters here is add_to_cart: it changes the shop, and the *)
(* key it sends (Turn.id, the call, how often it was done) must make a     *)
(* call or a turn that the same visitor repeats count once.                *)
(***************************************************************************)
EXTENDS Integers, FiniteSets, Functions, Sequences

CONSTANTS
    MaxRequests,      \* bound: how many POST /chat calls are made
    Turn,             \* turn ids; a retried message carries the same one
    Visitor,
    StorePerHour, VisitorPerDay,
    HoursPerDay, MaxHour,   \* bound: the hours that pass
    MaxTurns,         \* Store.maxTurns
    MaxIterations,    \* ChatMaxIterations
    MaxCalls,         \* maxToolCallsPerIteration
    MaxCarts,         \* bound: guest carts the shop makes
    RedisFails,       \* whether a Redis call may fail
    NoConv            \* no such key in Redis; a request without an id

Request == 1..MaxRequests
Cart == 1..MaxCarts
NoCart == 0

ASSUME ChatAssumption ==
    /\ {StorePerHour, VisitorPerDay, HoursPerDay, MaxTurns, MaxIterations, MaxCalls, MaxCarts} \subseteq Nat \ {0}
    /\ {MaxRequests, MaxHour} \subseteq Nat
    /\ IsFiniteSet(Visitor)
    /\ RedisFails \in BOOLEAN
    /\ NoConv \notin Request

VARIABLES
    run,       \* per request: where its handler is, and its locals
    stored,    \* Redis: the conversations; one is named after the request that started it
    store,     \* Redis: turns counted per hour
    visits,    \* Redis: turns counted per visitor and day
    hour,
    carts,     \* how many guest carts the shop has made
    wire,      \* the shop: add requests that are sent and may still arrive
    applied    \* the shop: the adds it has done, by visitor and key

chatVars == <<run, stored, store, visits, hour, carts, wire, applied>>

Running == {"load", "quota", "model", "tools", "adding", "save"}
Ended == {"done", "refused", "failed", "left"}
Idle == [phase |-> "idle"]
Day(h) == h \div HoursPerDay
Days == 0..Day(MaxHour)
Fresh == [log |-> <<>>, cart |-> NoCart]

ChatInit ==
    /\ run = [r \in Request |-> Idle]
    /\ stored = [r \in Request |-> NoConv]
    /\ store = [h \in 0..MaxHour |-> 0]
    /\ visits = [v \in Visitor |-> [d \in Days |-> 0]]
    /\ hour = 0
    /\ carts \in {0, 1}
    /\ wire = {}
    /\ applied = {}

-----------------------------------------------------------------------------
(* The handler up to the model. *)

\* The widget sends turn t: a new message, or one it sends again because the
\* answer did not come, perhaps from another address.  It names a conversation it
\* was told of, or none, and the cart it shows, if there is one.
Send(r, t) ==
    /\ run[r] = Idle
    /\ \A q \in 1..(r - 1) : run[q] # Idle
    /\ \E c \in {NoConv} \cup {run[q].conv : q \in {p \in Request : run[p].phase = "done"}},
          shown \in {NoCart} \cup 1..carts, v \in Visitor :
          run' = [run EXCEPT ![r] =
              [phase |-> "load", turn |-> t, visitor |-> v, conv |-> c, shown |-> shown, snap |-> Fresh, hour |-> 0,
               iter |-> 1, calls |-> 0, unseen |-> FALSE, target |-> NoCart, cart |-> NoCart,
               sent |-> {}, done |-> [k \in Cart |-> 0]]]
    /\ UNCHANGED <<stored, store, visits, hour, carts, wire, applied>>

Becomes(r, phase) == run' = [run EXCEPT ![r].phase = phase]

\* The handler returns before the end of its turn; what its loop held is gone.
Abandons(r, phase) ==
    run' = [run EXCEPT ![r].phase = phase, ![r].iter = 1, ![r].calls = 0, ![r].unseen = FALSE, ![r].target = NoCart]

\* Store.Load: a conversation that is not named, not known or expired starts
\* afresh, under a name of its own.
IsNew(c) == IF c = NoConv THEN TRUE ELSE stored[c] = NoConv
Loaded(c) == IF IsNew(c) THEN Fresh ELSE stored[c]

\* Mutant: the cap counts exchanges where it should count turns.
FullByExchange(conv) == Len(conv.log) >= MaxTurns

\* A conversation at its cap takes no further turn.
Full(conv) == 2 * Len(conv.log) >= MaxTurns

\* The conversation is loaded; the widget's cart wins over the stored one.
Load(r) ==
    LET c == run[r].conv
        conv == Loaded(c)
    IN
    /\ run[r].phase = "load"
    /\ \/ /\ ~Full(conv)
          /\ run' = [run EXCEPT ![r].phase = "quota", ![r].conv = IF IsNew(c) THEN r ELSE c,
                       ![r].snap = IF run[r].shown # NoCart THEN [conv EXCEPT !.cart = run[r].shown] ELSE conv]
       \/ /\ (Full(conv) \/ RedisFails)
          /\ Becomes(r, "refused")
    /\ UNCHANGED <<stored, store, visits, hour, carts, wire, applied>>

\* Mutant: the turn that fills the window lets one more through.
VisitorOver(v) == visits[v][Day(hour)] > VisitorPerDay

\* Whether the windows are full.
VisitorFull(v) == visits[v][Day(hour)] >= VisitorPerDay
StoreFull == store[hour] >= StorePerHour

\* Mutant: the store's window is counted before the visitor's is looked at.
CountStoreFirst(r) ==
    LET v == run[r].visitor IN
    /\ run[r].phase = "quota"
    /\ store' = IF StoreFull THEN store ELSE [store EXCEPT ![hour] = @ + 1]
    /\ IF VisitorFull(v) \/ StoreFull
       THEN UNCHANGED visits /\ Becomes(r, "refused")
       ELSE /\ visits' = [visits EXCEPT ![v][Day(hour)] = @ + 1]
            /\ run' = [run EXCEPT ![r].phase = "model", ![r].hour = hour]
    /\ UNCHANGED <<stored, hour, carts, wire, applied>>

\* Quota.Allow: one script, so no other pod comes between its test and its counts.
\* Its reply may be lost after it ran.
TakeTurn(r) ==
    LET v == run[r].visitor IN
    /\ run[r].phase = "quota"
    /\ IF VisitorFull(v) \/ StoreFull
       THEN UNCHANGED <<store, visits>>
       ELSE /\ store' = [store EXCEPT ![hour] = @ + 1]
            /\ visits' = [visits EXCEPT ![v][Day(hour)] = @ + 1]
    /\ \/ /\ ~(VisitorFull(v) \/ StoreFull)
          /\ run' = [run EXCEPT ![r].phase = "model", ![r].hour = hour]
       \/ /\ (VisitorFull(v) \/ StoreFull \/ RedisFails)
          /\ Becomes(r, "refused")
    /\ UNCHANGED <<stored, hour, carts, wire, applied>>

\* The script did not reach Redis.
TakeTurnFails(r) ==
    /\ RedisFails
    /\ run[r].phase = "quota"
    /\ Becomes(r, "refused")
    /\ UNCHANGED <<stored, store, visits, hour, carts, wire, applied>>

-----------------------------------------------------------------------------
(* runTurn: the model and its tools. *)

\* A stream that ends in prose, in a refusal or in nothing ends the turn.
Speak(r) ==
    /\ run[r].phase = "model"
    /\ run' = [run EXCEPT ![r].phase = "save", ![r].unseen = FALSE]
    /\ UNCHANGED <<stored, store, visits, hour, carts, wire, applied>>

\* The model asks for tools, perhaps for more than a step may run.  The last
\* iteration is sent with tool_choice "none", but what comes back is run all the
\* same.
AskTools(r) ==
    /\ run[r].phase = "model"
    /\ \E n \in 1..(MaxCalls + 1) :
          run' = [run EXCEPT ![r].phase = "tools", ![r].calls = n, ![r].unseen = FALSE]
    /\ UNCHANGED <<stored, store, visits, hour, carts, wire, applied>>

\* The stream fails, or sends a chunk that cannot be accumulated.
ModelFails(r) ==
    /\ run[r].phase = "model"
    /\ Abandons(r, "failed")
    /\ UNCHANGED <<stored, store, visits, hour, carts, wire, applied>>

\* Mutant: the loop ends an iteration early.
AfterCallStopsEarly(q) ==
    LET more == q.calls > 1
        loops == q.iter + 1 < MaxIterations
    IN [q EXCEPT !.unseen = TRUE, !.calls = @ - 1, !.target = NoCart,
                 !.phase = IF more THEN "tools" ELSE IF loops THEN "model" ELSE "save",
                 !.iter = IF more \/ ~loops THEN @ ELSE @ + 1]

\* After one call of the response: the next one, the next iteration, or the
\* end of the loop.
AfterCall(q) ==
    LET more == q.calls > 1
        loops == q.iter < MaxIterations
    IN [q EXCEPT !.unseen = TRUE, !.calls = @ - 1, !.target = NoCart,
                 !.phase = IF more THEN "tools" ELSE IF loops THEN "model" ELSE "save",
                 !.iter = IF more \/ ~loops THEN @ ELSE @ + 1]

\* A call that leaves the cart alone: one past the limit (the response's first
\* MaxCalls run), bad arguments, a tool that was not offered, a read, or an
\* add_to_cart whose new cart could not be made.
OtherTool(r) ==
    /\ run[r].phase = "tools"
    /\ run' = [run EXCEPT ![r] = AfterCall(run[r])]
    /\ UNCHANGED <<stored, store, visits, hour, carts, wire, applied>>

\* Mutant: the turn is named by the gateway, anew for every request.
KeyOfRequest(r, c) == <<r, c, run[r].done[c]>>

\* The idempotency key of an add: identical calls this attempt has completed
\* count, calls whose outcome it does not know do not.
Key(r, c) == <<run[r].turn, c, run[r].done[c]>>

\* add_to_cart, for a cart the model knows of, or for a new one.
AddToCart(r) ==
    /\ run[r].phase = "tools"
    /\ run[r].calls <= MaxCalls
    /\ \E c \in {run[r].snap.cart, run[r].cart, NoCart} :
          LET target == IF c = NoCart THEN carts + 1 ELSE c IN
          /\ target <= MaxCarts
          /\ carts' = IF c = NoCart THEN carts + 1 ELSE carts
          /\ wire' = wire \cup {[by |-> run[r].visitor, key |-> Key(r, target), turn |-> run[r].turn, cart |-> target]}
          /\ run' = [run EXCEPT ![r].phase = "adding", ![r].sent = @ \cup {target}, ![r].target = target]
    /\ UNCHANGED <<stored, store, visits, hour, applied>>

\* The shop does an add once per caller and key; a repeat is answered with the
\* first outcome.  The caller is the visitor, whose address the gateway relays.
Once(v, key) == \E a \in applied : a.by = v /\ a.key = key

Deliver(e) ==
    /\ e \in wire
    /\ wire' = wire \ {e}
    /\ applied' = IF Once(e.by, e.key) THEN applied ELSE applied \cup {e}
    /\ UNCHANGED <<run, stored, store, visits, hour, carts>>

\* The answer comes.  The result names the cart if that can then be read back.
Answered(r) ==
    LET c == run[r].target IN
    /\ run[r].phase = "adding"
    /\ Once(run[r].visitor, Key(r, c))
    /\ \E told \in {c, run[r].cart} :
          run' = [run EXCEPT ![r] = AfterCall([run[r] EXCEPT !.done[c] = @ + 1, !.sent = @ \ {c}, !.cart = told])]
    /\ UNCHANGED <<stored, store, visits, hour, carts, wire, applied>>

\* A timeout or an error; the request may still arrive.
Unanswered(r) ==
    /\ run[r].phase = "adding"
    /\ run' = [run EXCEPT ![r] = AfterCall(run[r])]
    /\ UNCHANGED <<stored, store, visits, hour, carts, wire, applied>>

-----------------------------------------------------------------------------
(* The end of a turn. *)

\* What is saved: the conversation as it was loaded, and this exchange.
Written(r) == [log |-> Append(run[r].snap.log, run[r].turn),
               cart |-> IF run[r].cart # NoCart THEN run[r].cart ELSE run[r].snap.cart]

\* Store.Save, with a context no client cancels.  Its failure is only logged:
\* the done event follows either way.
Save(r) ==
    /\ run[r].phase = "save"
    /\ \/ stored' = [stored EXCEPT ![run[r].conv] = Written(r)]
       \/ RedisFails /\ UNCHANGED stored
    /\ run' = [run EXCEPT ![r].phase = "done", ![r].snap = Written(r)]
    /\ UNCHANGED <<store, visits, hour, carts, wire, applied>>

\* The shopper leaves while the turn runs, or the pod dies.  A turn that has
\* come to its end is saved although nobody reads it; only the pod's end
\* prevents that.
CutShort(r) ==
    /\ run[r].phase \in Running
    /\ Abandons(r, "left")
    /\ UNCHANGED <<stored, store, visits, hour, carts, wire, applied>>

\* Redis drops a conversation whose TTL ran out.
Expire(c) ==
    /\ stored[c] # NoConv
    /\ stored' = [stored EXCEPT ![c] = NoConv]
    /\ UNCHANGED <<run, store, visits, hour, carts, wire, applied>>

Tick ==
    /\ hour < MaxHour
    /\ hour' = hour + 1
    /\ UNCHANGED <<run, stored, store, visits, carts, wire, applied>>

Handle(r) ==
    \/ Load(r) \/ TakeTurn(r) \/ TakeTurnFails(r) \/ Speak(r) \/ AskTools(r) \/ ModelFails(r)
    \/ OtherTool(r) \/ AddToCart(r) \/ Answered(r) \/ Unanswered(r) \/ Save(r)

ChatNext ==
    \/ \E r \in Request : Handle(r) \/ CutShort(r) \/ Expire(r) \/ \E t \in Turn : Send(r, t)
    \/ \E e \in wire : Deliver(e)
    \/ Tick

ChatSpec == ChatInit /\ [][ChatNext]_chatVars

-----------------------------------------------------------------------------
Local == [phase : Running \cup Ended, turn : Turn, visitor : Visitor, conv : Request \cup {NoConv}, shown : Cart \cup {NoCart},
          snap : [log : Seq(Turn), cart : Cart \cup {NoCart}], hour : 0..MaxHour, iter : 1..MaxIterations,
          calls : 0..(MaxCalls + 1), unseen : BOOLEAN, target : Cart \cup {NoCart}, cart : Cart \cup {NoCart},
          sent : SUBSET Cart, done : [Cart -> Nat]]

\* Every variable has its type, throughout the handler of handler.go.
ChatTypeOK ==
    /\ run \in [Request -> Local \cup {Idle}]
    /\ stored \in [Request -> [log : Seq(Turn), cart : Cart \cup {NoCart}] \cup {NoConv}]
    /\ store \in [0..MaxHour -> Nat]
    /\ visits \in [Visitor -> [Days -> Nat]]
    /\ hour \in 0..MaxHour
    /\ carts \in 0..MaxCarts
    /\ applied \cup wire \subseteq [by : Visitor, key : Turn \X Cart \X Nat, turn : Turn, cart : Cart]

Sent(v, t) == {r \in Request : run[r] # Idle /\ run[r].visitor = v /\ run[r].turn = t}

\* The adds one attempt has asked for: those it saw done, and one whose
\* outcome it does not know, however often it repeated that one.
Meant(r, c) == run[r].done[c] + (IF c \in run[r].sent THEN 1 ELSE 0)

\* Neither a model that repeats a call it saw fail, nor a shopper who sends a
\* message again from the same address, adds a product more often than one
\* attempt from there meant to, also when requests arrive late (Turn, idempotent,
\* addToCart).
AddsOnce ==
    \A v \in Visitor, t \in Turn, c \in Cart :
        LET n == Cardinality({a \in applied : a.by = v /\ a.turn = t /\ a.cart = c}) IN
        n > 0 => \E r \in Sent(v, t) : n <= Meant(r, c)

\* Turns that reached the model, by hour and by visitor and day.
Taken == {r \in Request : run[r].phase \in {"model", "tools", "adding", "save", "done", "failed"}}

\* All pods together let no more turns through to the model than the store's
\* hour and the visitor's day allow (Quota.Allow).
QuotaHolds ==
    /\ \A h \in 0..MaxHour : Cardinality({r \in Taken : run[r].hour = h}) <= StorePerHour
    /\ \A v \in Visitor, d \in Days :
          Cardinality({r \in Taken : run[r].visitor = v /\ Day(run[r].hour) = d}) <= VisitorPerDay

\* A turn that one window refuses is not counted in the other: whatever was
\* counted in the hours of a day was counted for the visitors of that day
\* (takeTurn).
BudgetsAgree ==
    \A d \in Days :
        SumFunctionOnSet(store, {h \in 0..MaxHour : Day(h) = d}) = SumFunction([v \in Visitor |-> visits[v][d]])

\* What tools did goes unmentioned in one case only: the model asks for them in
\* its last iteration, which was sent with tool_choice "none".  A turn that ends
\* anywhere else has shown the model every result (runTurn).
ResultsAreShown ==
    \A r \in Request :
        run[r].phase \in {"save", "done"} /\ run[r].unseen => run[r].iter = MaxIterations

\* A conversation does not outgrow its cap by more than the turn that reaches
\* it, whatever tabs write to it (Store.Load, Store.Save).
ConversationBounded ==
    \A c \in Request : stored[c] # NoConv => 2 * Len(stored[c].log) < MaxTurns + 2
=============================================================================
