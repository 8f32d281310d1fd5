------------------------------- MODULE Carts -------------------------------
(***************************************************************************)
(* The carts of one shopper in the store, the calls of the Django client   *)
(* on them, and the cart tools of an agent or of a chat turn.  A guest's   *)
(* cart is reached by its id, a signed-in shopper's by a cart token alone. *)
(* Django refuses nobody a cart: whoever names one it cannot show gets a   *)
(* new one in its place, a stray, which no later call names.               *)
(***************************************************************************)
EXTENDS Naturals

CONSTANTS
    Product,
    MaxQty,      \* bound: the store refuses more of a product
    Code,        \* coupon codes
    NoCode,
    MaxTries     \* attempts of a read (client.go: 3)

ASSUME CartsAssumption ==
    /\ MaxQty \in Nat \ {0} /\ MaxTries \in Nat \ {0}
    /\ Product # {}
    /\ NoCode \notin Code

VARIABLES
    lines,    \* Django: the quantity of each product, per cart
    coupon,   \* Django: the code attached to each cart
    guest,    \* Django: the guest cart: not made yet, open or gone
    valid,    \* Django: does it accept the token of the turn?
    turn,     \* the turn: its token and what it knows
    tool      \* the tool call the turn is in

cartVars == <<lines, coupon, guest, valid, turn, tool>>
shop == <<lines, coupon, guest>>

Kept == {"guest", "own"}
Named == Kept \cup {"stray", "none"}
Changing == {"add", "update", "remove", "apply", "unapply"}
Reading == {"create", "get", "link"}
NoTool == [at |-> "idle", call |-> "none", id |-> "none", product |-> CHOOSE p \in Product : TRUE,
           tries |-> 1, hit |-> "none", answer |-> "none", shown |-> "none"]
NewTurn(s) == [signedIn |-> s, refused |-> FALSE, mutated |-> FALSE]
EmptyCart == [p \in Product |-> 0]

CartsInit ==
    /\ lines = [c \in Kept |-> EmptyCart]
    /\ coupon = [c \in Kept |-> NoCode]
    /\ guest = "none"
    /\ valid \in BOOLEAN
    /\ \E s \in BOOLEAN : turn = NewTurn(s)
    /\ tool = NoTool

-----------------------------------------------------------------------------
(* The client. *)

\* Mutant: a turn whose token was refused goes on with the id it names.
TargetFallsBack(id) ==
    IF ~turn.signedIn \/ turn.refused THEN [send |-> TRUE, token |-> FALSE, named |-> id]
    ELSE [send |-> TRUE, token |-> TRUE, named |-> "none"]

\* cartTarget: the token wins over the id and is trusted; a refused one stays
\* refused for the turn, and nothing is sent.
Target(id) ==
    IF ~turn.signedIn THEN [send |-> TRUE, token |-> FALSE, named |-> id]
    ELSE [send |-> ~turn.refused, token |-> TRUE, named |-> "none"]

\* The cart Django acts on.
Reached(id) == IF id = "guest" /\ guest = "open" THEN "guest" ELSE "stray"
ServedTo(t) == IF t.token THEN "own" ELSE Reached(t.named)

ServedNamed(t, served) == t.named = "none" \/ t.named = served

\* A read without an id makes a guest cart.
Made == IF guest = "none" THEN "guest" ELSE "stray"

\* What a change does to a cart the store keeps track of; q is the new quantity.
Put(c, p, q) == lines' = IF c \in Kept THEN [lines EXCEPT ![c][p] = q] ELSE lines
Attach(c, code) == coupon' = IF c \in Kept THEN [coupon EXCEPT ![c] = code] ELSE coupon

\* AddCartItem adds to the line, UpdateCartItem sets a line there is,
\* RemoveCartItem takes it out.
DoAdd(c, p, q) == (c \in Kept => lines[c][p] + q <= MaxQty) /\ Put(c, p, IF c \in Kept THEN lines[c][p] + q ELSE q)
DoUpdate(c, p, q) == c \in Kept /\ lines[c][p] > 0 /\ Put(c, p, q)
DoRemove(c, p) == c \in Kept /\ lines[c][p] > 0 /\ Put(c, p, 0)

-----------------------------------------------------------------------------
(* The tools. *)

ToolAnswer(a, shown) == [tool EXCEPT !.at = "done", !.answer = a, !.shown = shown]

\* A tool call that passed its argument checks: an id is required, but not of a
\* signed-in shopper, nor for what makes the cart.
CallTool(call, id, p) ==
    /\ tool.at = "idle"
    /\ id = "none" => turn.signedIn \/ call \in {"create", "add"}
    /\ call = "create" => id = "none"
    /\ tool' = [NoTool EXCEPT !.call = call, !.id = id, !.product = p,
                    !.at = IF call \in Reading \/ (call = "add" /\ id = "none" /\ ~turn.signedIn) THEN "read" ELSE "send"]
    /\ UNCHANGED <<shop, valid, turn>>

Makes(t) == ~t.token /\ t.named = "none"

\* client.get reads the cart, and reads again when the store is down.
ReadCart ==
    LET t == Target(tool.id)
        served == IF Makes(t) THEN Made ELSE ServedTo(t)
    IN
    /\ tool.at = "read"
    /\ t.send /\ (t.token => valid)
    /\ guest' = IF served = "guest" /\ Makes(t) THEN "open" ELSE guest
    /\ IF ~ServedNamed(t, served)
       THEN tool' = ToolAnswer(IF tool.call \in Changing /\ tool.hit # "none" THEN "readBack" ELSE "denied", "none")
       ELSE IF tool.call = "add" /\ tool.hit = "none"
       THEN tool' = [tool EXCEPT !.at = "send", !.id = served, !.tries = 1]
       ELSE tool' = ToolAnswer("shown", served)
    /\ turn' = IF tool.call = "create" /\ ~t.token THEN [turn EXCEPT !.mutated = TRUE] ELSE turn
    /\ UNCHANGED <<lines, coupon, valid>>

\* A read that is answered with an error: the change before it stays told.
ReadFails ==
    LET t == Target(tool.id)
        refused == t.send /\ t.token /\ ~valid
    IN
    /\ tool.at = "read"
    /\ IF tool.tries < MaxTries /\ t.send /\ ~refused
       THEN tool' \in {[tool EXCEPT !.tries = @ + 1], ToolAnswer(IF tool.hit # "none" THEN "readBack" ELSE "denied", "none")}
       ELSE tool' = ToolAnswer(IF tool.hit # "none" THEN "readBack" ELSE "denied", "none")
    /\ turn' = [turn EXCEPT !.refused = @ \/ refused]
    /\ UNCHANGED <<shop, valid>>

\* The change arrives in the store, on the cart it serves.
Do(c) ==
    CASE tool.call = "add"     -> DoAdd(c, tool.product, 1) /\ UNCHANGED coupon
      [] tool.call = "update"  -> (\E q \in 1..MaxQty : DoUpdate(c, tool.product, q)) /\ UNCHANGED coupon
      [] tool.call = "remove"  -> DoRemove(c, tool.product) /\ UNCHANGED coupon
      [] tool.call = "apply"   -> (\E code \in Code : Attach(c, code)) /\ UNCHANGED lines
      [] tool.call = "unapply" -> Attach(c, NoCode) /\ UNCHANGED lines

\* Mutant: a change counts when its cart was read back.
AcceptedLate(served, t) ==
    IF ~ServedNamed(t, served) THEN turn' = turn /\ tool' = ToolAnswer("denied", "none")
    ELSE IF tool.call \in {"apply", "unapply"}
    THEN turn' = turn /\ tool' = [ToolAnswer("shown", served) EXCEPT !.hit = served]
    ELSE turn' = turn /\ tool' = [tool EXCEPT !.at = "read", !.hit = served, !.tries = 1]

\* The store accepted: the tool records it at once, and only then reads the
\* cart back.  The coupon calls answer with the cart.  RemoveCartItem has no
\* cart to compare, and a stray has no line to remove.
Accepted(served, t) ==
    IF ~ServedNamed(t, served) THEN turn' = turn /\ tool' = ToolAnswer("denied", "none")
    ELSE /\ turn' = [turn EXCEPT !.mutated = TRUE]
         /\ tool' = IF tool.call \in {"apply", "unapply"} THEN [ToolAnswer("shown", served) EXCEPT !.hit = served]
                    ELSE [tool EXCEPT !.at = "read", !.hit = served, !.tries = 1]

\* client.send, once: accepted, or accepted with its answer lost.
SendChange ==
    LET t == Target(tool.id) IN
    /\ tool.at = "send"
    /\ t.send /\ (t.token => valid)
    /\ Do(ServedTo(t))
    /\ \/ Accepted(ServedTo(t), t)
       \/ tool' = ToolAnswer("down", "none") /\ turn' = turn
    /\ UNCHANGED <<guest, valid>>

\* Not sent, refused, or not reached.
SendFails ==
    LET t == Target(tool.id)
        refused == t.send /\ t.token /\ ~valid
    IN
    /\ tool.at = "send"
    /\ tool' \in {ToolAnswer("denied", "none")} \cup (IF t.send /\ ~refused THEN {ToolAnswer("down", "none")} ELSE {})
    /\ turn' = [turn EXCEPT !.refused = @ \/ refused]
    /\ UNCHANGED <<shop, valid>>

\* The answer is with the agent; it may call again.
ToolEnds ==
    /\ tool.at = "done"
    /\ tool' = NoTool
    /\ UNCHANGED <<shop, valid, turn>>

\* Another turn: of a guest, or of a shopper with a token of their own.
BeginTurn ==
    /\ tool.at = "idle"
    /\ \E s \in BOOLEAN : turn' = NewTurn(s)
    /\ valid' \in BOOLEAN
    /\ UNCHANGED <<shop, tool>>

RevokeToken ==
    /\ valid
    /\ valid' = FALSE
    /\ UNCHANGED <<shop, turn, tool>>

\* The guest cart is ordered, claimed or deleted.
LoseGuestCart ==
    /\ guest = "open"
    /\ guest' = "gone"
    /\ lines' = [lines EXCEPT !["guest"] = EmptyCart]
    /\ coupon' = [coupon EXCEPT !["guest"] = NoCode]
    /\ UNCHANGED <<valid, turn, tool>>

ToolStep ==
    \/ \E call \in Changing \cup Reading, id \in {"none"} \cup Kept, p \in Product : CallTool(call, id, p)
    \/ ReadCart \/ ReadFails \/ SendChange \/ SendFails \/ ToolEnds

CartsNext == ToolStep \/ BeginTurn \/ RevokeToken \/ LoseGuestCart

CartsSpec == CartsInit /\ [][CartsNext]_cartVars

-----------------------------------------------------------------------------
CartsTypeOK ==
    /\ lines \in [Kept -> [Product -> 0..MaxQty]]
    /\ coupon \in [Kept -> Code \cup {NoCode}]
    /\ guest \in {"none", "open", "gone"}
    /\ valid \in BOOLEAN
    /\ turn \in [signedIn : BOOLEAN, refused : BOOLEAN, mutated : BOOLEAN]
    /\ tool \in [at : {"idle", "read", "send", "done"}, call : Changing \cup Reading \cup {"none"},
                 id : Named, product : Product, tries : 1..MaxTries, hit : Named,
                 answer : {"none", "shown", "readBack", "denied", "down"}, shown : Named]

\* A change the store confirmed on the shopper's cart is never denied: the tool
\* shows that cart, or says that it could not be read back, and the widget is
\* told to refresh (errReadBack, CartActivity).  What a tool shows is the cart
\* it was called for, or the shopper's own.
AcceptedIsTold ==
    tool.at = "done" =>
        /\ tool.hit # "none" => tool.answer \in {"shown", "readBack"} /\ turn.mutated
        /\ tool.answer = "shown" /\ tool.call # "create" =>
               tool.shown = IF turn.signedIn THEN "own" ELSE tool.id

\* A tool of a signed-in shopper changes no guest cart in place of theirs, also
\* when the store refuses their token; one of a guest changes nobody's own cart.
OwnCartOnly ==
    [][ LET other == IF turn.signedIn THEN "guest" ELSE "own" IN
        \/ lines'[other] = lines[other] /\ coupon'[other] = coupon[other]
        \/ LoseGuestCart ]_cartVars
=============================================================================
