---------------------------- MODULE MCStoreCalls ----------------------------
(***************************************************************************)
(* What the gateway and the store do with one cart, one quotation, one     *)
(* create call, one order and one conversation, in one run: each behaviour *)
(* is one of these, chosen at the start, and the others do not move.  They *)
(* share no state in the code but the calls that each module models.       *)
(***************************************************************************)
EXTENDS StoreCalls

CONSTANTS
    Explored,  \* the parts that a run explores
    a, b,      \* products of the submitted lists
    t1, v1     \* a turn and a visitor

VARIABLE on

\* Lists of lines and of codes that a platform submits; a second code is ignored.
Line(i, q) == [item |-> i, qty |-> q]
LineLists == {<<>>, <<Line(a, 1), Line(b, 1)>>, <<Line(b, 2), Line(a, 1)>>}
Repeated == {<<Line(a, 1), Line(a, 1)>>}
CodesSent == {<<>>, <<"x">>, <<"y", "x">>}

\* A store that delivers to one country by region, and to another one as a whole.
RegionCountry == [attica |-> "gr"]
RegionCalled == [attica |-> {"attica", "I"}]

\* Turns are alike, and so are visitors: it makes no difference which come first.
FirstIsOne == run'[1] # Idle => run'[1].turn = t1 /\ run'[1].visitor = v1

\* Two parts explore the chat.  In one, two requests and all their tools, before
\* time passes; in the other, every request and time, and no tools, which spends
\* the same turns and fills the same conversations.
TwoRequests == hour' = 0 /\ \A r \in 3..MaxRequests : run'[r] = Idle
NoTools == \A r \in Request : run'[r].phase # "tools"

\* The first states of a part that does not move count once.
At(part, first, one) == first /\ (on # part => one)

MCInit ==
    /\ on \in Explored
    /\ At("carts", CartsInit, valid /\ turn = NewTurn(FALSE))
    /\ At("sync", SyncInit, promotions)
    /\ At("view", ViewInit, surface = "ucp")
    /\ At("events", OrderEventsInit, origin = "shop")
    /\ ChatInit /\ carts = 0
    /\ CreateInit

MCNext ==
    /\ on' = on
    /\ \/ on = "carts" /\ CartsNext /\ UNCHANGED <<syncVars, viewVars, orderEventVars, createVars, chatVars>>
       \/ on = "sync" /\ SyncNext /\ UNCHANGED <<cartVars, viewVars, orderEventVars, createVars, chatVars>>
       \/ on = "view" /\ ViewNext /\ UNCHANGED <<cartVars, syncVars, orderEventVars, createVars, chatVars>>
       \/ on = "events" /\ OrderEventsNext /\ UNCHANGED <<cartVars, syncVars, viewVars, createVars, chatVars>>
       \/ on = "create" /\ CreateNext /\ UNCHANGED <<cartVars, syncVars, viewVars, orderEventVars, chatVars>>
       \/ on = "chat" /\ ChatNext /\ FirstIsOne /\ TwoRequests
          /\ UNCHANGED <<cartVars, syncVars, viewVars, orderEventVars, createVars>>
       \/ on = "talk" /\ ChatNext /\ FirstIsOne /\ NoTools
          /\ UNCHANGED <<cartVars, syncVars, viewVars, orderEventVars, createVars>>

MCSpec == MCInit /\ [][MCNext]_<<on, cartVars, syncVars, viewVars, orderEventVars, createVars, chatVars>>
=============================================================================
