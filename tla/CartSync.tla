------------------------------ MODULE CartSync ------------------------------
(***************************************************************************)
(* A checkout session and its cart: how the create and update calls of     *)
(* both surfaces make the cart hold the submitted lines and discount code, *)
(* one call of the store after the other, while the shopper's own tools    *)
(* may edit the same cart.  The session lock keeps other updates out; what *)
(* happens when it lapses is the subject of CheckoutFlow.                  *)
(***************************************************************************)
EXTENDS Naturals, Sequences, FiniteSets, Functions

CONSTANTS
    Item,        \* products
    Top,         \* bound: the store refuses more of a product
    Lists,       \* the line lists a platform submits
    Coupon,
    Blank,       \* no code
    CodeLists,   \* the code lists it submits
    Untouched    \* the call has no such member

ASSUME CartSyncAssumption ==
    /\ Top \in Nat \ {0}
    /\ Lists \subseteq Seq([item : Item, qty : 1..Top])
    /\ Blank \notin Coupon
    /\ CodeLists \subseteq Seq(Coupon)
    /\ Untouched \notin Lists /\ Untouched \notin CodeLists

VARIABLES
    cart,         \* Django: the quantity of each product
    code,         \* Django: the code on the cart
    promotions,   \* the store's feature flag
    session,      \* what Redis has of the session
    call,         \* the update in flight
    alone         \* history: nobody else wrote to the cart since the call began

syncVars == <<cart, code, promotions, session, call, alone>>

NoLines == [i \in Item |-> 0]
NoCall == [at |-> "idle", new |-> FALSE, list |-> Untouched, codes |-> Untouched, left |-> <<>>, seen |-> NoLines,
           gone |-> {}, rejected |-> FALSE, kept |-> FALSE]
NoSession == [there |-> FALSE, codes |-> <<>>, rejected |-> FALSE]

SyncInit ==
    /\ cart = NoLines
    /\ code = Blank
    /\ promotions \in BOOLEAN
    /\ session = NoSession
    /\ call = NoCall
    /\ alone = TRUE

-----------------------------------------------------------------------------
(* The order of a call. *)

Go(at) == call' = [call EXCEPT !.at = at]
Fails == call' = [call EXCEPT !.at = "failed"]
Others == UNCHANGED <<cart, code, promotions, session, alone>>

AfterLines == IF call.codes = Untouched THEN "pay" ELSE "codes"

\* create makes its cart and fills it before anything else; an update looks the
\* delivery region up before it writes to the cart.  A UCP create may be given
\* a cart, and takes its lines as they are.
BeginCreate(list, codes) ==
    /\ call.at = "idle" /\ ~session.there
    /\ list # <<>> /\ (list = Untouched \/ (cart = NoLines /\ code = Blank))
    /\ call' = [NoCall EXCEPT !.new = TRUE, !.list = list, !.codes = codes,
                    !.at = IF list # Untouched THEN "read" ELSE IF codes # Untouched THEN "codes" ELSE "region"]
    /\ alone' = TRUE
    /\ UNCHANGED <<cart, code, promotions, session>>

BeginUpdate(list, codes) ==
    /\ call.at = "idle" /\ session.there
    /\ call' = [NoCall EXCEPT !.list = list, !.codes = codes, !.at = "region"]
    /\ alone' = TRUE
    /\ UNCHANGED <<cart, code, promotions, session>>

\* ResolveRegion asks the store for the regions of the country.
LookUpRegion ==
    /\ call.at = "region"
    /\ \/ Go(IF call.new THEN "pay" ELSE IF call.list # Untouched THEN "read" ELSE AfterLines)
       \/ Fails
    /\ Others

\* SyncCartLines: the cart is read once; the lines follow in their order.
ReadLines ==
    /\ call.at = "read"
    /\ \/ call' = [call EXCEPT !.at = "lines", !.left = call.list, !.seen = cart]
       \/ Fails
    /\ Others

\* Whether and how a line is written, by what was read: its quantity is set
\* when it was there with another one, and added when it was not there.
Write(seen, line) == IF seen[line.item] = 0 THEN "add" ELSE IF seen[line.item] # line.qty THEN "set" ELSE "skip"

\* What the store does with it: it refuses more than it has, and to set a line
\* that somebody took out.
Held(seen, line) ==
    CASE Write(seen, line) = "add"  -> IF cart[line.item] + line.qty <= Top THEN {cart[line.item] + line.qty} ELSE {}
      [] Write(seen, line) = "set"  -> IF cart[line.item] > 0 THEN {line.qty} ELSE {}
      [] Write(seen, line) = "skip" -> {cart[line.item]}

WriteLine ==
    LET line == Head(call.left) IN
    /\ call.at = "lines" /\ call.left # <<>>
    /\ \/ \E q \in Held(call.seen, line) :
             /\ cart' = [cart EXCEPT ![line.item] = q]
             /\ \/ call' = [call EXCEPT !.left = Tail(@)]
                \/ Write(call.seen, line) # "skip" /\ Fails      \* its answer was lost
       \/ Write(call.seen, line) # "skip" /\ Fails /\ UNCHANGED cart
    /\ UNCHANGED <<code, promotions, session, alone>>

ItemsOf(list) == {list[i].item : i \in DOMAIN list}

\* Mutant: lines that the list leaves out stay.
UnlistedNone(list, seen) == {}

Unlisted(list, seen) == {i \in Item : seen[i] > 0} \ ItemsOf(list)

WroteLines ==
    /\ call.at = "lines" /\ call.left = <<>>
    /\ call' = [call EXCEPT !.at = "drop", !.gone = Unlisted(call.list, call.seen)]
    /\ Others

\* Lines that are not listed go, in no order.
DropLine ==
    /\ call.at = "drop"
    /\ \E i \in call.gone :
          \/ /\ cart[i] > 0
             /\ cart' = [cart EXCEPT ![i] = 0]
             /\ call' \in {[call EXCEPT !.gone = @ \ {i}], [call EXCEPT !.at = "failed"]}
          \/ UNCHANGED cart /\ Fails
    /\ UNCHANGED <<code, promotions, session, alone>>

Dropped ==
    /\ call.at = "drop" /\ call.gone = {}
    /\ Go(IF call.codes # Untouched THEN "codes" ELSE IF call.new THEN "region" ELSE "pay")
    /\ Others

AfterCodes == IF call.new THEN "region" ELSE "pay"
Settle(rejected, kept) == call' = [call EXCEPT !.at = AfterCodes, !.rejected = rejected, !.kept = kept]

\* ApplyDiscountCodes.  A store with promotions off refuses every code, and
\* clears the coupon as best it can.
CodesWithoutPromotions ==
    /\ call.at = "codes" /\ ~promotions
    /\ \/ code' = Blank /\ Settle(call.codes # <<>>, FALSE)
       \/ code' = code /\ Settle(call.codes # <<>>, TRUE)
    /\ UNCHANGED <<cart, promotions, session, alone>>

\* No code: the coupon is taken off, or the call fails.
NoCodes ==
    /\ call.at = "codes" /\ promotions /\ call.codes = <<>>
    /\ \/ code' = Blank /\ (Settle(FALSE, FALSE) \/ Fails)
       \/ code' = code /\ Fails
    /\ UNCHANGED <<cart, promotions, session, alone>>

\* The first code is applied in place of the one there is.
ApplyFirst ==
    /\ call.at = "codes" /\ promotions /\ call.codes # <<>>
    /\ \/ code' = Head(call.codes) /\ (Settle(FALSE, FALSE) \/ Fails)
       \/ code' = code /\ Fails
       \/ code' \in {code, Blank} /\ Go("clear")               \* refused
    /\ UNCHANGED <<cart, promotions, session, alone>>

\* Mutant: a refused code leaves the coupon that was there.
ClearNothing ==
    /\ call.at = "clear"
    /\ code' = code /\ Settle(TRUE, FALSE)
    /\ UNCHANGED <<cart, promotions, session, alone>>

\* A refused code still supersedes the one before: it is taken off, best effort.
ClearRefused ==
    /\ call.at = "clear"
    /\ \/ code' = Blank /\ Settle(TRUE, FALSE)
       \/ code' = code /\ Settle(TRUE, TRUE)
    /\ UNCHANGED <<cart, promotions, session, alone>>

\* applyPayment and selectPayWay look the pay ways of the delivery up.
LookUpPayWays ==
    /\ call.at = "pay"
    /\ \/ Go("save")
       \/ Fails
    /\ Others

\* The session is saved when everything was done.
SaveSession ==
    /\ call.at = "save"
    /\ \/ /\ session' = [there |-> TRUE,
                         codes |-> IF call.codes = Untouched THEN session.codes ELSE call.codes,
                         rejected |-> IF call.codes = Untouched THEN session.rejected ELSE call.rejected]
          /\ Go("answered")
       \/ /\ UNCHANGED session
          /\ Fails
    /\ UNCHANGED <<cart, code, promotions, alone>>

EndCall ==
    /\ call.at \in {"answered", "failed"}
    /\ call' = NoCall
    /\ UNCHANGED <<cart, code, promotions, session, alone>>

-----------------------------------------------------------------------------
\* A tool of the shopper, or the storefront, edits the same cart.
ShopperEdits ==
    /\ \/ /\ \E i \in Item, q \in 0..Top : q # cart[i] /\ cart' = [cart EXCEPT ![i] = q]
          /\ UNCHANGED code
       \/ /\ code' \in (Coupon \cup {Blank}) \ {code}
          /\ UNCHANGED cart
    /\ alone' = FALSE
    /\ UNCHANGED <<promotions, session, call>>

\* The feature is switched; the resolver brings it in time.
SwitchPromotions ==
    /\ call.at = "idle"
    /\ promotions' = ~promotions
    /\ UNCHANGED <<cart, code, session, call, alone>>

CallStep ==
    \/ \E list \in Lists \cup {Untouched}, codes \in CodeLists \cup {Untouched} : BeginCreate(list, codes) \/ BeginUpdate(list, codes)
    \/ LookUpRegion \/ ReadLines \/ WriteLine \/ WroteLines \/ DropLine \/ Dropped
    \/ CodesWithoutPromotions \/ NoCodes \/ ApplyFirst \/ ClearRefused \/ LookUpPayWays \/ SaveSession \/ EndCall

SyncNext == CallStep \/ ShopperEdits \/ SwitchPromotions

SyncSpec == SyncInit /\ [][SyncNext]_syncVars

-----------------------------------------------------------------------------
SyncTypeOK ==
    /\ cart \in [Item -> 0..Top]
    /\ code \in Coupon \cup {Blank}
    /\ promotions \in BOOLEAN /\ alone \in BOOLEAN
    /\ session \in [there : BOOLEAN, codes : CodeLists \cup {<<>>}, rejected : BOOLEAN]
    /\ call.list \in Lists \cup {Untouched} /\ call.codes \in CodeLists \cup {Untouched}
    /\ call.seen \in [Item -> 0..Top] /\ call.gone \subseteq Item

Submitted(list) ==
    [i \in Item |-> SumFunction([n \in DOMAIN list |-> IF list[n].item = i THEN list[n].qty ELSE 0])]

\* "SyncCartLines makes the Django cart hold exactly lines": when a call is
\* answered and nobody else wrote to the cart meanwhile, it holds what the list
\* asks for, whatever it held before and however earlier calls broke off.
HoldsExactlyLines ==
    call.at = "answered" /\ call.list # Untouched /\ alone => cart = Submitted(call.list)

\* A submitted code list supersedes the coupon: the answered session and the
\* cart agree on whether the first code is applied, and no code of an earlier
\* submission gives a discount, unless the store failed to take it off
\* (ApplyDiscountCodes).
CodesReplaced ==
    call.at = "answered" /\ call.codes # Untouched /\ alone /\ ~call.kept =>
        /\ code = IF session.codes = <<>> \/ session.rejected THEN Blank ELSE Head(session.codes)
        /\ session.codes = call.codes
=============================================================================
