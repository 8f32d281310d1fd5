---------------------------- MODULE CheckoutView ----------------------------
(***************************************************************************)
(* What a platform sees of a checkout session: its data as partial updates *)
(* leave it, the status that follows from them, the totals computed from   *)
(* the cart or from the placed order, and the replies of both surfaces.    *)
(* Prices are small numbers; texts, links and titles are left out.         *)
(***************************************************************************)
EXTENDS Integers, FiniteSets, Functions

CONSTANTS
    Country,
    Region,        \* region -> the country it is of
    RegionNames,   \* region -> what a buyer may call it, folded
    Provider, Locker,   \* carriers; those whose pickup points need a locker, not a station
    Fee            \* amounts in minor units

ASSUME ViewAssumption ==
    /\ DOMAIN RegionNames = DOMAIN Region
    /\ \A r \in DOMAIN Region : Region[r] \in Country
    /\ Locker \subseteq Provider
    /\ Fee \subseteq Nat /\ 0 \in Fee

VARIABLES
    surface,    \* the protocol that owns the session
    view,       \* the session's data
    reply       \* what the last call answered

viewVars == <<surface, view, reply>>

Empty == "empty"
Points == {{}, {"station", "branch"}, {"locker"}}
Kinds == {Empty, "home_delivery", "pickup_point"}
Names == UNION {RegionNames[r] : r \in DOMAIN Region} \cup {Empty}
RegionsOf(c) == {r \in DOMAIN Region : Region[r] = c}

NoDelivery == [country |-> Empty, address |-> FALSE, number |-> FALSE, kind |-> Empty, provider |-> Empty,
               point |-> {}, region |-> Empty]

NoReply == [of |-> "nothing"]

ViewInit ==
    /\ surface \in {"ucp", "acp"}
    /\ view = [buyer |-> FALSE, delivery |-> NoDelivery, choices |-> {}, payWay |-> FALSE, status |-> "incomplete"]
    /\ reply = NoReply

-----------------------------------------------------------------------------
(* Readiness. *)

\* address stands for city, postal code and street; point for the ids of a
\* pickup point that were sent.
PointKnown(d) ==
    IF d.provider \in Locker THEN "locker" \in d.point
    ELSE d.provider # Empty /\ {"station", "branch"} \subseteq d.point

Complete(d) ==
    /\ d.country # Empty /\ d.address /\ d.number
    /\ d.kind = "home_delivery" \/ (d.kind = "pickup_point" /\ PointKnown(d))

RegionMissing(v) == v.choices # {} /\ v.delivery.region = Empty

Recomputed(v) ==
    [v EXCEPT !.status =
        IF v.buyer /\ Complete(v.delivery) /\ ~RegionMissing(v) /\ (surface = "acp" \/ v.payWay)
        THEN "ready" ELSE "incomplete"]

\* Missing: what a UCP reply asks for.
Missing(v) ==
    {m \in {"buyer", "fulfillment", "region", "payWay"} :
        CASE m = "buyer"       -> ~v.buyer
          [] m = "fulfillment" -> ~Complete(v.delivery)
          [] m = "region"      -> RegionMissing(v)
          [] m = "payWay"      -> ~v.payWay}

\* Mutant: an address without its house number is not asked about.
AsksNoNumber(v) ==
    {m \in {"buyer", "address", "state", "option"} :
        CASE m = "buyer"   -> ~v.buyer
          [] m = "address" -> v.delivery.country = Empty \/ ~v.delivery.address
          [] m = "state"   -> RegionMissing(v)
          [] m = "option"  -> v.delivery.provider = Empty \/ v.delivery.kind = Empty}

\* appendStateMessages: what an ACP reply asks for.
Asks(v) ==
    {m \in {"buyer", "address", "line_one", "state", "option"} :
        CASE m = "buyer"    -> ~v.buyer
          [] m = "address"  -> v.delivery.country = Empty \/ ~v.delivery.address
          [] m = "line_one" -> v.delivery.country # Empty /\ v.delivery.address /\ ~v.delivery.number
          [] m = "state"    -> RegionMissing(v)
          [] m = "option"   -> v.delivery.provider = Empty \/ v.delivery.kind = Empty}

\* ResolveRegion: what was chosen before is dropped, and the first region of the
\* country that goes by the name is chosen.
RegionResolved(v, named) ==
    LET found == {r \in RegionsOf(v.delivery.country) : named \in RegionNames[r]} IN
    [v EXCEPT !.choices = RegionsOf(v.delivery.country),
              !.delivery.region = IF found = {} THEN Empty ELSE CHOOSE r \in found : TRUE]

-----------------------------------------------------------------------------
(* The updates.  A member that is not sent leaves what there is, and what  *)
(* a call makes of several members is what several calls make of one each. *)

\* The submitted delivery replaces the old one, with the region as the name
\* that is then resolved.  Ids of a pickup point come with that kind.
UcpUpdates ==
    /\ surface = "ucp" /\ reply = NoReply
    /\ \/ \E given \in BOOLEAN : view' = Recomputed([view EXCEPT !.buyer = given])
       \/ view' = Recomputed([view EXCEPT !.payWay = TRUE])
       \/ \E c \in Country \cup {Empty}, a \in BOOLEAN, n \in BOOLEAN, k \in Kinds, pr \in Provider \cup {Empty},
             named \in Names : \E pt \in IF k = "pickup_point" THEN Points ELSE {{}} :
             view' = Recomputed(RegionResolved(
                 [view EXCEPT !.delivery = [country |-> c, address |-> a, number |-> n, kind |-> k, provider |-> pr,
                                            point |-> pt, region |-> named]], named))
    /\ UNCHANGED <<surface, reply>>

\* applyFulfillment takes the address, with its number cut off the street line,
\* and home delivery as the one kind it can select.
Addressed(v, c, address, number) ==
    [v EXCEPT !.delivery.country = c, !.delivery.address = address, !.delivery.number = number]
HomeDelivery(v, pr) == [v EXCEPT !.delivery.kind = "home_delivery", !.delivery.provider = pr]

\* selectPayWay takes the store's collect-later method, if it has one.
PayWaySelected(v, offline) == [v EXCEPT !.payWay = Complete(v.delivery) /\ offline]

\* applyBuyer only adds; the pay way is selected last.
AcpUpdates ==
    /\ surface = "acp" /\ reply = NoReply
    /\ \E offline \in BOOLEAN :
          \/ view' = Recomputed(PayWaySelected([view EXCEPT !.buyer = TRUE], offline))
          \/ \E pr \in Provider \cup {Empty} :
                view' = Recomputed(PayWaySelected(HomeDelivery(view, pr), offline))
          \/ \E c \in Country \cup {Empty}, a \in BOOLEAN, n \in BOOLEAN, named \in Names :
                view' = Recomputed(PayWaySelected(RegionResolved(Addressed(view, c, a, n), named), offline))
    /\ UNCHANGED <<surface, reply>>

-----------------------------------------------------------------------------
(* Totals.  The store answers, or a lookup fails; then its row is absent.  *)

CartsPriced == [items : Fee, discount : Fee, free : BOOLEAN]
Offers == [provider : Provider, kind : Kinds \ {Empty}, fits : BOOLEAN, fee : Fee]
PayWays == [cost : Fee, threshold : Fee]

\* deliveryFee: the chosen option, if it is offered and the cart fits it.
Chosen(d, offers) == {o \in offers : o.provider = d.provider /\ o.kind = d.kind}
Deliverable(d, offers) ==
    /\ d.provider # Empty /\ d.kind # Empty /\ d.country # Empty
    /\ \E o \in Chosen(d, offers) : o.fits
DeliveryFee(d, offers) == (CHOOSE o \in Chosen(d, offers) : o.fits).fee

\* paymentFee: waived from its threshold on.
FeeDue(w, subtotal) == w.cost > 0 /\ ~(w.threshold > 0 /\ subtotal >= w.threshold)

\* A total is never below zero, whatever the discounts take away.
NotNegative(n) == IF n < 0 THEN 0 ELSE n

\* Mutant: free shipping leaves the row at zero and the fee in the total.
PricingFreeCharged(v, c, offers, ways) ==
    LET delivered == Deliverable(v.delivery, offers)
        delivery == IF delivered THEN DeliveryFee(v.delivery, offers) ELSE 0
        due == \E w \in ways : FeeDue(w, c.items - c.discount)
        fee == IF due THEN (CHOOSE w \in ways : TRUE).cost ELSE 0
    IN [items |-> c.items, discount |-> c.discount, hasDelivery |-> delivered, delivery |-> IF c.free THEN 0 ELSE delivery,
        hasFee |-> due, fee |-> fee, total |-> NotNegative(c.items - c.discount + delivery + fee)]

\* ComputePricing from the cart.  ways holds the selected pay way, or nothing.
Pricing(v, c, offers, ways) ==
    LET delivered == Deliverable(v.delivery, offers)
        delivery == IF delivered /\ ~c.free THEN DeliveryFee(v.delivery, offers) ELSE 0
        due == \E w \in ways : FeeDue(w, c.items - c.discount)
        fee == IF due THEN (CHOOSE w \in ways : TRUE).cost ELSE 0
    IN [items |-> c.items, discount |-> c.discount, hasDelivery |-> delivered, delivery |-> delivery,
        hasFee |-> due, fee |-> fee, total |-> NotNegative(c.items - c.discount + delivery + fee)]

\* orderPricing: the totals of a placed order are the store's; a loyalty discount
\* joins the discount, and a gift card pays and reduces nothing.
OrderPricing(o) ==
    [items |-> o.items, discount |-> o.discount + o.loyalty, hasDelivery |-> TRUE, delivery |-> o.shipping,
     hasFee |-> o.fee > 0, fee |-> o.fee, total |-> o.total]

Row(type, amount) == [type |-> type, amount |-> amount]
If(b, row) == IF b THEN {row} ELSE {}

\* The rows of BuildCheckout: a discount is negative.
UcpRows(p) ==
    {Row("subtotal", p.items)} \cup If(p.discount > 0, Row("discount", -p.discount))
    \cup If(p.hasDelivery, Row("fulfillment", p.delivery)) \cup If(p.hasFee, Row("fee", p.fee))

\* The rows of Render: a discount is positive, under its own type.
AcpRows(p) ==
    {Row("subtotal", p.items)} \cup If(p.discount > 0, Row("discount", p.discount))
    \cup If(p.hasDelivery, Row("fulfillment", p.delivery)) \cup If(p.hasFee, Row("fee", p.fee))

\* renderFulfillment: home deliveries the cart fits are offered, and a selection
\* is echoed while it is.
Offered(offers) == {o \in offers : o.kind = "home_delivery" /\ o.fits}
Echoed(d, offers) ==
    /\ d.provider # Empty /\ d.kind = "home_delivery"
    /\ \E o \in Offered(offers) : o.provider = d.provider

\* statusOf: ACP says ready_for_payment only when it can be paid later.
AcpStatus(v) ==
    IF v.status = "incomplete" THEN "not_ready_for_payment"
    ELSE IF v.payWay THEN "ready_for_payment" ELSE "requires_escalation"

Rows(p) == IF surface = "ucp" THEN UcpRows(p) ELSE AcpRows(p)

\* The reply to a call, from the cart as it is.  Its total and ACP's options each
\* ask the store what it offers; what is not answered is left out.
ReplyFromCart ==
    /\ reply = NoReply
    /\ \E c \in CartsPriced, offers \in {{}} \cup {{o} : o \in Offers}, ways \in {{}} \cup {{w} : w \in PayWays} :
          \E priced \in {offers, {}}, shown \in {offers, {}} :
             LET p == Pricing(view, c, priced, ways) IN
             reply' = [of |-> "cart", rows |-> Rows(p), total |-> p.total, priced |-> p.hasDelivery,
                       echoed |-> Echoed(view.delivery, shown), alike |-> priced = shown,
                       status |-> IF surface = "acp" THEN AcpStatus(view) ELSE view.status]
    /\ UNCHANGED <<surface, view>>

\* The reply of a session whose order is placed: the store has added it up.
ReplyFromOrder ==
    /\ reply = NoReply
    /\ \E o \in [items : Fee, discount : Fee, loyalty : Fee, shipping : Fee, fee : Fee] :
          LET total == o.items - o.discount - o.loyalty + o.shipping + o.fee
              p == OrderPricing([items |-> o.items, discount |-> o.discount, loyalty |-> o.loyalty,
                                 shipping |-> o.shipping, fee |-> o.fee, total |-> total])
          IN /\ total >= 0
             /\ reply' = [of |-> "order", rows |-> Rows(p), total |-> p.total]
    /\ UNCHANGED <<surface, view>>

NextCall ==
    /\ reply # NoReply
    /\ reply' = NoReply
    /\ UNCHANGED <<surface, view>>

ViewNext == UcpUpdates \/ AcpUpdates \/ ReplyFromCart \/ ReplyFromOrder \/ NextCall

ViewSpec == ViewInit /\ [][ViewNext]_viewVars

-----------------------------------------------------------------------------
ViewTypeOK ==
    /\ surface \in {"ucp", "acp"}
    /\ view.status \in {"incomplete", "ready"} /\ view.buyer \in BOOLEAN /\ view.payWay \in BOOLEAN
    /\ view.choices \subseteq DOMAIN Region
    /\ view.delivery \in [country : Country \cup {Empty}, address : BOOLEAN, number : BOOLEAN, kind : Kinds,
                          provider : Provider \cup {Empty}, point : Points,
                          region : DOMAIN Region \cup {Empty}]
    /\ reply.of \in {"nothing", "cart", "order"}

\* Whatever partial updates led there: a session that is not ready tells the
\* platform at least one thing to send, and a ready one is an order the store
\* takes, its region one of the country it is delivered to, if that has any
\* (Recompute, Missing, appendStateMessages, ResolveRegion).
ReadinessIsHonest ==
    IF view.status = "incomplete"
    THEN IF surface = "ucp" THEN Missing(view) # {} ELSE Asks(view) # {}
    ELSE LET d == view.delivery IN
         /\ view.buyer /\ d.address /\ d.number
         /\ IF RegionsOf(d.country) = {} THEN d.region = Empty ELSE d.region \in RegionsOf(d.country)
         /\ surface = "ucp" => view.payWay

Signed(r) == IF r.type = "discount" /\ r.amount > 0 THEN -r.amount ELSE r.amount
AddUp(rows) == SumFunction([r \in rows |-> Signed(r)])

\* The rows both surfaces show add up to the total the buyer approves, from the
\* order and from the cart, unless a cart's discounts take more than there is:
\* then it costs nothing.  ACP echoes a delivery exactly when it is priced, as
\* long as both lookups are answered alike, and never asks to pay for what is not
\* ready (ComputePricing, orderPricing, BuildCheckout, Render).
TotalsAddUp ==
    /\ reply.of = "cart" => reply.total = NotNegative(AddUp(reply.rows))
    /\ reply.of = "order" => reply.total = AddUp(reply.rows)
    /\ reply.of = "cart" /\ surface = "acp" =>
          /\ view.delivery.country # Empty /\ reply.alike => (reply.echoed <=> reply.priced)
          /\ reply.status = "ready_for_payment" => view.status = "ready" /\ Complete(view.delivery)
=============================================================================
