----------------------------- MODULE OrderEvents -----------------------------
(***************************************************************************)
(* The order-event endpoint, for one order: Django pushes an event for     *)
(* each change, again until it is answered with a 2xx, and a handler turns *)
(* it into a webhook of the order as it is now.  What the event does to    *)
(* the checkout session is in CheckoutFlow, what becomes of the webhook in *)
(* WebhookDispatcher.                                                      *)
(***************************************************************************)
EXTENDS Naturals

CONSTANTS
    Handler,     \* requests that are served at once
    MaxChanges,  \* bound on the changes of the order
    LinkLate     \* may the order change before Flow.Complete has written its link?

ASSUME OrderEventsAssumption == MaxChanges \in Nat /\ LinkLate \in BOOLEAN

VARIABLES
    placed,     \* Django: how often the order changed, and whether it is gone
    origin,     \* was it placed by an agent's checkout?
    link,       \* Redis: the order link; "hooked" when it names a webhook
    domainOf,   \* whose store the link's domain resolves to
    pushes,     \* Django: the event of each change
    handling,   \* the handlers
    webhooks,   \* what was enqueued: the event, the order's state, the store
    excused     \* history: events no retry could deliver

orderEventVars == <<placed, origin, link, domainOf, pushes, handling, webhooks, excused>>
world == <<placed, origin, link, domainOf>>

Event == 1..MaxChanges
NoEvent == [at |-> "idle", event |-> 0, state |-> 0]

\* The order was just created, and its link is not written yet.
OrderEventsInit ==
    /\ placed = [state |-> 0, gone |-> FALSE]
    /\ origin \in {"agent", "shop"}
    /\ link = "none"
    /\ domainOf = "ours"
    /\ pushes = [e \in Event |-> "none"]
    /\ handling = [h \in Handler |-> NoEvent]
    /\ webhooks = {}
    /\ excused = {}

-----------------------------------------------------------------------------
(* Around. *)

ChangeOrder ==
    /\ placed.state < MaxChanges /\ ~placed.gone
    /\ LinkLate \/ origin = "shop" \/ link # "none"
    /\ placed' = [placed EXCEPT !.state = @ + 1]
    /\ pushes' = [pushes EXCEPT ![placed'.state] = "due"]
    /\ UNCHANGED <<origin, link, domainOf, handling, webhooks, excused>>

DeleteOrder ==
    /\ ~placed.gone
    /\ placed' = [placed EXCEPT !.gone = TRUE]
    /\ UNCHANGED <<origin, link, domainOf, pushes, handling, webhooks, excused>>

MoveDomain ==
    /\ domainOf' \in {"ours", "other", "unknown"} \ {domainOf}
    /\ UNCHANGED <<placed, origin, link, pushes, handling, webhooks, excused>>

\* IndexOrder, after the order was created; a failed one is only logged.
WriteLink ==
    /\ origin = "agent" /\ link = "none"
    /\ link' \in {"plain", "hooked"}
    /\ UNCHANGED <<placed, origin, domainOf, pushes, handling, webhooks, excused>>

-----------------------------------------------------------------------------
(* The handler. *)

\* Django pushes an event it has no answer for, also while an earlier push of it
\* is still being handled.
PushEvent(h, e) ==
    /\ handling[h].at = "idle" /\ pushes[e] = "due"
    /\ handling' = [handling EXCEPT ![h] = [at |-> "link", event |-> e, state |-> 0]]
    /\ UNCHANGED <<world, pushes, webhooks, excused>>

Proceed(h, at) == handling' = [handling EXCEPT ![h].at = at] /\ UNCHANGED <<pushes, excused>>
Ends(h) == handling' = [handling EXCEPT ![h] = NoEvent]

\* 2xx, which is final, unless it is lost.
Acknowledge(h) ==
    /\ Ends(h)
    /\ pushes' \in {pushes, [pushes EXCEPT ![handling[h].event] = "acked"]}

\* 204 for an event that nothing could deliver.
DropPush(h, final) ==
    /\ Acknowledge(h)
    /\ excused' = IF final THEN excused \cup {handling[h].event} ELSE excused

\* 503: a call of Redis or Django failed, or the session is locked.
RetryPush(h) ==
    /\ handling[h].at \in {"link", "apply", "resolve", "fetch", "enqueue"}
    /\ Ends(h)
    /\ UNCHANGED <<world, pushes, webhooks, excused>>

\* OrderLinkFor: an order with no link was not placed through the gateway.
ReadLink(h) ==
    /\ handling[h].at = "link"
    /\ IF link = "none" THEN DropPush(h, origin = "shop") ELSE Proceed(h, "apply")
    /\ UNCHANGED <<world, webhooks>>

\* ApplyOrderEvent; a checkout without a webhook has nobody to tell.
ApplyEvent(h) ==
    /\ handling[h].at = "apply"
    /\ IF link = "plain" THEN DropPush(h, TRUE) ELSE Proceed(h, "resolve")
    /\ UNCHANGED <<world, webhooks>>

\* Resolve: the domain may have moved to another store, or to none.
ResolveStore(h) ==
    /\ handling[h].at = "resolve"
    /\ IF domainOf # "ours" THEN DropPush(h, TRUE) ELSE Proceed(h, "fetch")
    /\ UNCHANGED <<world, webhooks>>

\* Mutant: an order that is gone is told of all the same.
FetchGone(h) ==
    /\ handling[h].at = "fetch"
    /\ handling' = [handling EXCEPT ![h].at = "enqueue", ![h].state = IF placed.gone THEN 0 ELSE placed.state]
    /\ UNCHANGED <<world, webhooks, pushes, excused>>

\* PlacedOrder and BuildOrder: the order as it is now; gone, or unrenderable, it
\* is dropped.
FetchOrder(h) ==
    /\ handling[h].at = "fetch"
    /\ \/ /\ ~placed.gone
          /\ handling' = [handling EXCEPT ![h].at = "enqueue", ![h].state = placed.state]
          /\ UNCHANGED <<pushes, excused>>
       \/ DropPush(h, TRUE)
    /\ UNCHANGED <<world, webhooks>>

Webhook(h) == [event |-> handling[h].event, state |-> handling[h].state]

\* Mutant: the event is answered as done, whether or not the stream has it.
EnqueueBestEffort(h) ==
    /\ handling[h].at = "enqueue"
    /\ webhooks' \in {webhooks, webhooks \cup {Webhook(h)}}
    /\ Acknowledge(h)
    /\ UNCHANGED <<world, excused>>

\* Dispatcher.Enqueue under the id of the event; a failed one may have been done.
EnqueueWebhook(h) ==
    /\ handling[h].at = "enqueue"
    /\ webhooks' = webhooks \cup {Webhook(h)}
    /\ Acknowledge(h) \/ (Ends(h) /\ UNCHANGED pushes)
    /\ UNCHANGED <<world, excused>>

OrderEventsNext ==
    \/ ChangeOrder \/ DeleteOrder \/ MoveDomain \/ WriteLink
    \/ \E h \in Handler :
          \/ \E e \in Event : PushEvent(h, e)
          \/ RetryPush(h) \/ ReadLink(h) \/ ApplyEvent(h) \/ ResolveStore(h) \/ FetchOrder(h) \/ EnqueueWebhook(h)

OrderEventsSpec == OrderEventsInit /\ [][OrderEventsNext]_orderEventVars

-----------------------------------------------------------------------------
OrderEventsTypeOK ==
    /\ placed \in [state : 0..MaxChanges, gone : BOOLEAN]
    /\ origin \in {"agent", "shop"} /\ link \in {"none", "plain", "hooked"}
    /\ domainOf \in {"ours", "other", "unknown"}
    /\ pushes \in [Event -> {"none", "due", "acked"}]
    /\ handling \in [Handler -> [at : {"idle", "link", "apply", "resolve", "fetch", "enqueue"},
                                 event : 0..MaxChanges, state : 0..MaxChanges]]
    /\ webhooks \subseteq [event : Event, state : Event]
    /\ excused \subseteq Event

\* "a 2xx is final, so it is reserved for events that are handled, or that no
\* retry could ever deliver": an event Django will not push again has its
\* webhook in the queue, of the order as it was at the event or later
\* (internalOrderEvents).
AckedReachesQueue ==
    \A e \in Event :
        pushes[e] = "acked" /\ e \notin excused => \E w \in webhooks : w.event = e /\ w.state >= e
=============================================================================
