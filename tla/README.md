# A TLA+ model of the agent gateway

The gateway (Go, `src/`) stands between AI agents and a Django web shop.  Agents
reach it through MCP tools that speak UCP, through ACP REST endpoints and through
a chat; crawlers read its product feeds.  The shop owns products, carts and
orders.  The gateway owns what lies between: checkout sessions, idempotency,
order webhooks, feed and tenant caches, chat turns.  All of that is kept in one
Redis that several pods share, and pods come and go.

This directory holds the TLA+ modules of that part, the TLC configurations that
check them on small instances, and theorems about them that TLAPS checks for
every instance.

## 1. Inventory

### Checkout: `internal/checkout`, `internal/mcpsrv/ucp_checkout.go`, `internal/acp/handler.go`

*State.*  In Redis, per session: the session JSON (`Store.Save/Load`, TTL from
`Session.ttl`), a lock key with a ten-second TTL (`Store.Lock`), one claim key per
idempotency key (`ClaimCompletion`, `claimIdem`: in flight for a minute, then
settled), one order link per order (`IndexOrder`).  In Django: the cart, the
orders, their payments.
*Operations.*  UCP `create/get/update/complete/cancel_checkout`; the same five in
ACP; `Flow.Complete`, `Flow.ResumePayment`, `Flow.ApplyOrderEvent`.
*Interaction.*  Each handler locks the session, loads a snapshot, calls Django and
saves the snapshot.  `Save` compares nothing, and no call checks that the lock is
still held.  Django reports payments to `POST /internal/events/order-status` and
repeats each report until it gets a 2xx.
*Hard.*  Two completions at once; a lock that lapses under its holder; an order
request whose answer is lost; a pod that dies between two calls; the payment
event that overtakes the completion; claims that expire early.
*Correct means.*  One order per checkout; no reader finds a session open once its
order exists; a canceled session has no order; a terminal session stays; a paid
order is shown in the end.

### Order webhooks: `internal/server/internalapi.go`, `internal/ucp/webhook.go`

*State.*  A Redis stream with a consumer group: entries, the pending list and its
owners; in each pod a read position and eight workers.
*Operations.*  `internalOrderEvents`, `Enqueue`, `Run` (replay, reclaim, read),
`deliver`, `ack`, shutdown.
*Hard.*  A crash between post and ack, takeover of a slow delivery, shutdown in a
backoff, removal of consumers that seem to be gone.
*Correct means.*  At least once: an entry leaves the stream only when delivered
or after three failed attempts.

### Product feeds: `internal/feeds`

*State.*  In Redis: the rendered feeds with their metadata, and an epoch that
counts invalidations.  In each pod: one sweep per tenant (single flight) and two
generation slots.
*Operations.*  `Get`, `refresh`, `generate`, `store` (WATCH on the epoch),
`Invalidate`; inside a sweep `fetchAllProducts`: four fetches at a time, a window
of eight pages, pages emitted in order.
*Hard.*  A sweep overtaken by an invalidation, two pods sweeping at once, a rollout
with two builds, a failed page while the producer waits for the window.
*Correct means.*  A feed served as fresh is no older than the last invalidation;
the pipeline ends, and emits every page once, in order.

### Order events: `internal/server/internalapi.go`

*State.*  The order links in Redis; the shop pushes each event again until it is
answered with a 2xx.
*Operations.*  `internalOrderEvents`: link, `ApplyOrderEvent`, `Resolve`,
`PlacedOrder`, `Enqueue`, each with its drop or its retry.
*Hard.*  The event that comes before the link; an answer that is lost; a domain
that moved; two pushes at once.
*Correct means.*  A 2xx is given only for an event whose webhook is queued or that
nothing could deliver.

### Carts: `internal/mcpsrv/cart.go`, `internal/django/client_cart.go`

*State.*  The carts in Django: a guest's, reached by its id, and a shopper's own,
reached by a cart token alone; in a turn, whether the token was refused.
*Operations.*  The cart tools: a change, then a read-back where the shop answers
with something else than the cart.
*Hard.*  The shop gives a new cart to whoever names one it cannot show; a token
that ends between two calls; a change that was made and cannot be read back.
*Correct means.*  A confirmed change is never denied; no call falls back to a cart
that is not the caller's.

### Filling a cart: `internal/checkout/cartlines.go`, `discounts.go`

*Operations.*  `SyncCartLines` (read once, then one call per line),
`ApplyDiscountCodes` (replace semantics), in the order in which `createCheckout`,
`updateCheckout` and ACP's `create` and `update` make them.
*Hard.*  A call that fails half way; a refused code; an edit by the shopper in between.
*Correct means.*  An answered call leaves the cart as submitted.

### What a platform sees: `checkout/session.go`, `pricing.go`, `region.go`, `acp/render.go`, `ucp/payload.go`

*State.*  The data of the session.  *Operations.*  Partial updates of both
surfaces, `Recompute`, `Missing`, `ResolveRegion`, `ComputePricing`, the rows and
messages of a reply.
*Correct means.*  A session that is not ready asks for something; a ready one is an
order the shop accepts; the rows add up to the total.

### ACP create: `internal/acp/handler.go`

*State.*  The idempotency key, in flight or with its record; the sessions.
*Hard.*  Requests at once and again, with another body, failing or dying anywhere.
*Correct means.*  All its answers name one session.

### Tenants: `internal/tenant`

*State.*  Memory and Redis caches of tenants by domain, negative answers included.
*Operations.*  `Resolve` (memory, Redis, Django; single flight; stale on error),
`EnsureSecrets`.  *Hard.*  Lifetimes of stacked caches; a Django that hangs.
*Correct means.*  What is served is recent, or marked stale; a failing Django is
not asked by every request.

### UCP platforms: `internal/ucp/profiles.go`, `negotiate.go`, `keys.go`

*State.*  Per pod an LRU cache of platform profiles and the signing keys in
memory; in Redis one key per tenant.
*Operations.*  `ProfileResolver.Resolve`, `Negotiate`, `Keys.ForSchema`.
*Hard.*  A flood of addresses; extensions of extensions; keys minted at once.

### Callers: `internal/identity`, `internal/httpmw/ratelimit.go`

*State.*  Per pod the verdicts on bearer tokens and the buckets of clients, both
tables of fixed size.  *Hard.*  Revocation while probes of the token are under way,
of which the last to be answered fills the cache; eviction of a bucket in use.

### Chat: `internal/chat`, `internal/mcpsrv/turn.go`

*State.*  The conversation in Redis, turns counted per store and hour and per
visitor and day, the idempotency keys of a turn.
*Operations.*  `handle` (load, `takeTurn`, `runTurn`, save), `runTurn` (model and
tools, at most `ChatMaxIterations` rounds), `Turn.idempotent`.
*Hard.*  Two messages of one conversation at once; a retried turn, or a model that
repeats a call it saw fail, while the first request is still on its way; a model
that asks for tools when it should not; a save that fails.
*Correct means.*  For each caller the shop tells apart, a product goes into the cart
as often as meant; neither budget is exceeded or charged for the other's refusal; what
tools did is told, unless the model still asks for them in its last round; a
conversation does not outgrow its cap.

### Around

The MCP server and its tools that only read, the rendering of lines, links and
texts, HTTP signatures, configuration, metrics, URLs and amounts.  PROJECT.json
lists them with the reason they are not modelled.

## 2. Modules

| Module | Models |
| --- | --- |
| `CheckoutFlow` | session store, lock, claims, `Flow`, order events, faults; the shared properties |
| `UcpCheckout` | the UCP handlers over it, its `Spec` and fairness |
| `AcpCheckout` | the ACP handlers over it |
| `CheckoutLifecycle` | the abstract promise of a checkout, without lock and handlers |
| `CheckoutInvariant` | the inductive invariant `OneOrderInv`, and those that rest on it |
| `AcpCreate` | ACP create under one idempotency key |
| `CartSync` | the cart calls of create and update, one by one |
| `CheckoutView` | session data, readiness, totals, replies |
| `Carts` | the cart tools and the client's rules about ids and tokens |
| `OrderEvents` | the order-event endpoint, from the link to the webhook |
| `Chat` | the turns of the assistant |
| `FeedCache` | the feed cache of one tenant, its epoch, and the sweeps of several pods |
| `FeedPipeline` | `fetchAllProducts`: producer, fetches, ordered emission |
| `FeedPromise` | the abstract promise of the feed cache, without epoch, `WATCH` and pods |
| `WebhookDispatcher` | the stream of order webhooks, its consumer group, and the pods that deliver |
| `DeliveryQueue` | the abstract promise of the dispatcher: one queue, without group, workers and failures |
| `Tenants` | one domain in the memory of several pods, in Redis and in Django |
| `SigningKeys`, `Profiles`, `Negotiation` | what a tenant and a platform know of each other |
| `Limiter`, `Identity` | buckets of clients, verdicts on tokens |
| `CheckoutFlowProofs`, `UcpCheckoutProofs`, `AcpCheckoutProofs` | proofs about the checkout |
| `StoreProofs`, `ChatProofs`, `PodsProofs`, `BackgroundProofs` | proofs about the modules of the run of that name; the chat has its own |
| `SumLemmas` | sums over finite sets, for `StoreProofs` and `ChatProofs` |
| `MCUcpCheckout`, `MCAcpCheckout` | small sets and symmetries of the checkouts |
| `MCUcpCrash` | `MCUcpCheckout` with a history: has a pod died holding the lock? |
| `StoreCalls` | `Carts`, `CartSync`, `CheckoutView`, `OrderEvents`, `AcpCreate`, `Chat` side by side |
| `Pods` | `Tenants`, `SigningKeys`, `Profiles`, `Negotiation`, `Limiter`, `Identity` side by side |
| `MCStoreCalls` | `StoreCalls`, one part per behaviour |
| `MCPods` | `Pods` and `WebhookDispatcher`, one part per behaviour |
| `MCBackground` | `FeedCache`, `FeedPipeline`, `WebhookDispatcher`, one part per behaviour, with fairness |

Of the last three, each behaviour explores one part, chosen in its first state
(from `Explored`, in the first two), and the others do not move: the parts share no
variable in the code either, so
interleaving them would only multiply states.  Where parts meet, one models the
other by what it may answer: `CheckoutFlow` has the effect of an order event on
the session and `OrderEvents` the rest of the event; what that queues enters
`WebhookDispatcher` through `Enqueue`; `CartSync` is the work between the load and
the save of an update in `UcpCheckout` and `AcpCheckout`.

### State and code

A *worker* is a goroutine serving one call, in any pod.  `pc[w]` is the Redis or
Django call it makes next and `snap[w]` its `*Session`; one action is one such
call, with everything the code does up to the next one.  `stored` is the session
in Redis.  `lock` holds the worker whose token is in the lock key, or `Orphan`
for a token nobody will delete any more.  `claim` has a scope because the ACP
endpoints key update, complete and cancel apart.  `begun[w]` says that the worker
has stored `complete_in_progress`.  `orders`, `cart`, `paid` and `due` are
Django's side, `linked` the order links.  `keyed` is a history variable.

Abstractions: buyer, fulfilment and region are the one flag `details`; a pay way
is one of three classes (collected later, hosted checkout, anything the gateway
cannot finish); a payment link is there or not.  The reply of a handler is left
out: what the properties speak of is what is stored.

Failures are switched by `Faults`.  `"crash"` kills the pod of a worker between
any two calls.  `"redis"` lets each Redis call fail with its effect applied or
not, which also covers a request context that the client cancels.  `"expiry"`
ends sessions and claims.  A Django call may always fail; the order request has
three outcomes (answered, refused, unknown).  `LockLapse` says when the TTL may
take the lock from a handler that is still running: `"never"`, `"persisted"`
(only once it has stored `complete_in_progress`) or `"any"`.

*Feeds.*  `cache` is what the metadata in Redis says of the feed: its build,
whether its time is within `FEED_FRESH_TTL` (`fresh`), and, as history, the
version of the catalogue it shows (`data`).  `phase[p]` is where the sweep of pod
`p` is: waiting for a slot, about to read the epoch, the catalogue, the epoch
again (`WATCH`), or to write (`EXEC`).  Reading the catalogue is one step, because
the oldest page is the first and a change after it can only make later pages
newer.  `announced` is the version the last invalidation stood for.
In `FeedPipeline` the window channel is the counter `tokens`, a page's channel
its state in `page`, and `cancelled` the context of the errgroup; the select of
the caller may go either way when both its cases are ready.

*Webhooks.*  `taken` is the last-delivered id of the group, `owner` the pending
list, `known` its consumers.  A consumer is a pod name; its process is in one
`mode` of `Run`.  `batch` holds what it has read and not yet put on the unbuffered
channel, `job` and `failed` what each worker delivers and how many posts failed.
`accepted` and `spent` are history.  Elapsed time appears as what it decides:
`Slow` says whether `visibilityTimeout` may pass under a delivery of a live
process, `Returns` whether a consumer that has been away for an hour may come
back while another one is removing it.

*Store calls.*  `Carts` has one turn and one tool call at a time; `tool.at` is the
call of Django it is about to make.  `Reached` is what `client_cart.go` says of
Django's choice of a cart.  In `CartSync`, `call` holds the list, what was read
(`seen`) and what is left to do; `alone` is history.  `CheckoutView` keeps what the
decisions look at: `address` stands for city, postal code and street, a region for
its code, its name and their folded forms.  In `AcpCreate`, `idem` is the key,
`named` the bodies and sessions of the answers.  In `OrderEvents`, the state of an
order is the number of its changes, and `excused` records the events nothing
could deliver.

*Pods.*  Time is a counter of ticks in `Tenants`, `Profiles`, `Limiter` and
`Identity`: every entry has the ticks it has left, and a call in flight has an age
that a timeout bounds.  What a property needs to know of the past is a history
variable that counts ticks up to a cap (`since`, `revoked`, `promised`, `due`).
The list of `Profiles`' cache is kept as a relation: `newer[u]` holds the entries
used later than `u`, so the one that goes is the one with the most; `after[u]` is
history, the addresses answered since `u` was.
In `Identity`, `probes[q]` is what request `q` asks Django.  The verifier has no
single flight, so requests with the same token ask at the same time, and the last
to be answered leaves its verdict in the cache, though it may be the older one.
`Negotiation` prunes one capability per step, in any order, because Go ranges over
a map.

*Chat.*  `run[r]` is the handler of one request with its locals; `wire` holds the
adds that were sent and may still arrive, `applied` those the shop has done, by
visitor and key: Django scopes an idempotency key to its caller, the address the
gateway relays (`mcpsrv/turn.go:22-24`, `django/idempotency.go:7-11`,
`django/caller.go`).  So a message that is sent again from another address is a new
one to the shop.  Other tools are one step that leaves the cart alone.
The part `talk` of `MCStoreCalls` is the same chat with a model that asks for no
tools: budgets and conversations do not look at tools.

*Totals.*  A reply asks the shop for delivery options twice on the ACP surface, once
for the total and once for the options it lists; `ReplyFromCart` lets each fail alone.

## 3. Runs

| Run | Question | Result |
| --- | --- | --- |
| `ucp_session` | two workers, two keys, every fault, lock lapses once `complete_in_progress` is stored: is one order placed, and does no reader find the session open afterwards? | holds |
| `ucp_keys` | lock lapses anywhere: is one key still good for one order? | holds |
| `ucp_liveness` | crashes, a lock that holds: is a paid order shown, does a session keep the order it knows, and do the handlers implement `CheckoutLifecycle`, in which a terminal session is final, until a pod dies holding the lock? | holds |
| `acp` | crashes: do the ACP handlers implement `CheckoutLifecycle`, has a canceled session no order, does a spent key mean a closed session, is a paid order shown? | holds |
| `background` | feeds: is what is served as fresh current, does an announced change reach the cache, is all of it the cache of `FeedPromise`? a sweep: does it end, and report success only for a whole catalogue? webhooks: does every entry leave the stream? | holds |
| `store_calls` | is a confirmed change told, does no call touch another's cart, does an answered call leave the cart as submitted and the old coupon off, is readiness honest, do the rows add up, is a 2xx reserved for queued events, do creates name one session? a chat turn and its retry: does each caller's add count once, do the budgets hold and agree, are results shown, does a conversation stop at its cap? | holds |
| `pods` | are tenants recent and Django spared, do pods sign with one key, do callers keep their profiles and their tokens, is a negotiation the largest one, does a revocation spread, is no webhook lost or posted again without a kill, is the dispatcher the queue of `DeliveryQueue`? | holds |
| `ucp_lock_lapse` | `AtMostOneOrder` with a lock that lapses anywhere | violated |
| `ucp_cancel_after_crash` | `CanceledHasNoOrder` with a crash | violated |
| `cart_repeats` | `HoldsExactlyLines` for a list that names a product twice | violated |
| `order_event_lost` | `AckedReachesQueue` where an order may change before its link is written | violated |
| `new_tenant` | `NewTenantsResolve`: is a new store known within one negative lifetime? | violated |

Findings, as the violated runs show them:

* **Two orders of one checkout.**  The lock lives ten seconds, one upstream call
  may take ten, and reads are retried.  A completion can lose its lock before it
  stores `complete_in_progress`.  A second completion with another key then loads
  a ready session, and both ask for an order.  A cart that awaits hosted payment
  is kept, so both succeed.
* **Canceled over a paid order.**  A pod that dies after `IndexOrder` and before
  the last `Save` leaves a session in progress that does not know its order.  The
  payment event completes it, still without the order, and `cancel_checkout`
  then cancels it.  ACP's cancel refuses every completed session and is not
  exposed.
* **A product listed twice.**  `SyncCartLines` compares every line with the cart as
  it was read before the first.  A list that names a product twice is added up
  where the product is new and decided by its last line where it is not, so the
  same update sent again changes the cart the first one made.  Nothing refuses
  such a list.
* **An event before its link.**  `Flow.Complete` writes the order link after Django
  has created the order, and only logs a failure.  An event pushed in between, or
  ever after a failure, finds no link and gets a final 204: the platform is not
  told.
* **A new store unknown for two lifetimes.**  `tenant/resolver.go:40-41` promises that
  a new tenant resolves "within NegativeTTL of creation".  A negative answer that is
  found in Redis starts a lifetime of its own in memory, so a pod may deny the store
  for two of them.  `NewTenantsResolve` states the promise, with the call that was
  under way; `AnswersAreRecent` that nothing adds a third lifetime.

More that the models show, told here without a run of its own:

* If the lock lapses while a UCP completion waits for its payment link, the payment
  event completes the session and the completion saves its escalated snapshot over
  it.  This is why `ucp_liveness` lets the lock hold.
* The UCP handlers implement the lifecycle until a pod dies holding the lock: the
  crash of the finding above is the reason.  The ACP ones do with crashes as well.
* `chat/handler.go:416-418` says of tool calls in the last iteration that they "would
  run (a cart change included) with their results never shown".  What is done about
  it is to ask the provider for `tool_choice` "none"; calls that come back all the
  same are run, and the turn ends, which line 536 expects.  `ResultsAreShown` says
  that this is the only case.
* `chat/store.go:41-43` calls a conversation that silently loses history worse than a
  clean error.  A `Save` that fails at the end of a turn is logged and answered as
  done, and of two tabs the later save writes away what the earlier one saved.
* An overtaken sweep is written "because it is the newest complete feed there is",
  but another pod may have stored a newer one since.  The older feed is stamped
  stale, so a fresh feed still is current, and `FeedPromise` lets a
  stale publication go back in the catalogue's history as far as it likes, a fresh
  one not beyond the last announcement.  During a rollout the pods
  of the two builds replace each other's feed whenever the cache changes hands.
* `reclaim` checks that a consumer owes nothing and removes it with a later command.
  A consumer that has been idle for an hour, comes back and reads an entry between
  the two loses it (`NothingLost` with `Returns = TRUE`).
* `ImplementsQueue` is violated with `Returns = TRUE`, for that reason, and with
  `Slow = TRUE`: an entry that is taken over from a live worker is answered twice
  although nothing kept the first answer from the queue.
* A cart whose discounts take more than there is costs nothing (`pricing.go:145-147`);
  its rows then add up to less than the total they are shown with.  `TotalsAddUp` says
  just that of it.
* When the options of an ACP reply cannot be read, the delivery that its total has is
  not echoed, and the reverse: the lookups are two.
* A retry of a chat message from another address (another network, say) is another
  caller to Django, and its adds count again; `AddsOnce` is stated per visitor.
* A probe of a bearer token that was sent before the token was revoked may end after
  one that found it revoked, and its "linked" is cached.  `RevocationSpreads` bounds
  what comes of it: the time of a call and of a cached verdict.
* The comment on both updates, "a failed lookup must leave the cart and the stored
  session agreeing", is kept for the region.  The lookup of pay ways comes after
  the cart writes, and when it fails the cart has the new lines and the session
  is the old one, although the replies of a failed UCP call say "unchanged".  A
  repeated update repairs it (`HoldsExactlyLines`).
* Two events of one order that are handled at once may be queued in the wrong order,
  and two changes with the same status share a webhook id.
* `releaseIdem` deletes the key whoever holds it by then, and a session that a dying
  or failing create has saved is named to nobody until it expires.
* A client whose bucket goes while it is in use, because the table is full, comes back
  to a full one.  `EvictionIsFair` records it as `pushedOut` and asks of it only that
  it loses nothing.
* `EvictionIsFair` needs a bucket to fill up while it is idle (`Burst` within `Rate`
  times ten minutes), which the default configuration gives and nothing enforces.

### Bounds

Two workers are enough for every race of two handlers, or of a handler and an
event; a worker that has finished starts another call, so any number of calls
follow each other.  Two keys separate "the same key again" from "another key";
`acp` and `ucp_keys` take one key, which ACP uses in three scopes.
`ucp_keys` leaves kills out: a handler whose Redis calls fail reaches every state
that killing it would.  `MaxOrders = 2` lets a second order
be placed, which is what the properties look for.  `Worker` and `Key` are
symmetric; the runs with temporal properties use no symmetry.

Feeds: two pods sweep; two changes and a third invalidation with no change behind
it let one sweep be overtaken on all three attempts of its write, the code's own
number.  The pipeline has seven pages, two workers and a window of three, so
window, group and pages run out at different times; the theorems are for every
size.

Webhooks: two pods.  `pods` has two entries and one worker per pod, so that an
entry is read while another is delivered, and one post per delivery, which already
separates accepted from given up; deliveries end within `visibilityTimeout`, as a
late one is posted twice by design.  `background` has one entry, two workers per
pod (an entry handed out twice must find a free worker) and two posts, so that a
shutdown meets a worker in its backoff.

Store calls: two products and quantities up to two give a line that stays, changes,
comes and goes, and one the shop refuses. Two codes, alone and as a list of two,
separate the first from the others. Amounts are nothing or two, enough for each row
to be missing, to be there, and to cancel another. One country has a region that
answers to two names, the other has none. Two handlers take two events of an order,
which changes only once its link is there (`LinkLate = FALSE`; the violated run lets
it change before); two creates carry two bodies and may mint two sessions, the
second of which is the violation. Three is not needed: each part has at most one
pair of actors that race.

Chat: two visitors and two turn ids (two requests of one turn are a retry, from the
same address or another), two iterations, the last of which may ask for tools as
well, one call that is run and one past the limit, and two guest carts, of which
there is none at first; two turns per store and hour and per visitor and day.
`store_calls` explores the chat in two parts.  `chat` has two requests with all their
tools, and no time passes.  `talk` has three requests whose model asks for no tools,
two hours in one day and one in the next, so either budget is the one that refuses,
and a cap of two exchanges that three tabs may outgrow.  Turns and visitors are
alike, so the first request is `t1` by `v1` (`FirstIsOne`, in place of a symmetry
set).

Pods: `TTL` is two ticks and `NegTTL` one, as the code has a long and a short one;
a call takes a tick, so every entry may expire under it.  `new_tenant` gives a negative
answer two ticks, so that some of it is left when it is found in Redis a tick later.  Two
requests verify tokens at once: the property is of one request, and one more is what
overtakes it.  Three addresses and
three clients meet tables of two.  Three key pairs let both pods mint and one mint
again.  The capabilities are a chain of two extensions, so that pruning needs a
second round (`BusinessCapabilities` has one level today, `Negotiate` takes any), and
each may be declared with versions the store offers, does not
offer, or that its authority does not vouch for.  Pods are symmetric (`Alike`).

Deadlock is not checked in the runs of `MCStoreCalls`, `MCPods` and `MCBackground`:
each part stops at its bounds (changes, requests, ids), which the system does not
have.

### Fairness

A running handler takes its next step (weak fairness): every call has a timeout.
Redis drops a lock whose TTL ran out (weak).  The shop repeats an event until it
is answered with a 2xx; `EventFairness` says that over and over one delivery
finds the session unlocked, and that one of those gets the lock (strong fairness,
because the lock comes and goes).  Pods do not die for ever.  Crawlers ask for a
feed again when it is missing or stale, and the shop announces its changes.
The goroutines of a pipeline that can run do, and a fetch has a timeout.  A process of the
dispatcher is started again, its loop and workers go on, and its reads are not
kept away by reclaims, which are due every thirty seconds only (strong fairness).
Kills, shutdowns and lost replies of Redis (`ReplyIsLost`) end at some time: an
entry cannot leave the stream while every acknowledgement is lost.  Nothing forces an
agent to call, a buyer to pay, or a failure to happen.

In `background` the parts that are not explored rest in a state in which none of
their steps is due, so that fairness asks nothing of them: a fresh feed, a
finished sweep, dispatchers with nothing to deliver.

The runs of `MCStoreCalls` and `MCPods` state no liveness.  Their parts answer requests
one by one, and what must happen in the end (a payment is shown, a change reaches
the feed, an entry leaves the stream) is asked where it is decided.

## 4. Proofs

Every theorem holds for any sets of workers, pods, requests, products and so on,
and for any bounds; what is assumed of the constants is in the `ASSUME` of each
module, and TLC evaluates it on every run.  `SumFunctionOnSet` of the community
modules and a bounded cache need some sets to be finite (`Visitor`, the versions
in `Offer`); everything else the assumptions say is that a bound is a number, that
a stand-in for "none" is no member of its set, or that a store has a product and
a request a body.

Each component has the same three steps: an inductive invariant, lemmas that each
action keeps it, and the theorems that follow.  What a theorem assumes beyond the
constants is a circumstance, named below, that a run or a finding of section 3
shows to matter.

### The checkout: `CheckoutInvariant`, `CheckoutFlowProofs`, `UcpCheckoutProofs`, `AcpCheckoutProofs`

| Theorem (UCP and ACP unless named) | Assuming |
| --- | --- |
| `TypeOK` | nothing |
| `OneOrderInv`, `OneOrder`, `OpenHasNoOrder` | `LockLapse # "any"` |
| `SpentKeyClosesSession` | `LockLapse # "any"` |
| `UcpOneOrderPerKey` | claims do not expire; the lock may lapse anywhere |
| `UcpKnownOrderStays` | `LockLapse = "never"` |
| `UcpImplementsLifecycle` | `LockLapse = "never"`, no faults |
| `AcpCanceledHasNoOrder` | `LockLapse # "any"` |
| `AcpImplementsLifecycle` | `LockLapse = "never"`, nothing expires; with crashes and lost calls of Redis |

`AtMostOneOrder` alone is not inductive: it says nothing of a second handler that
is about to place its order.  `CheckoutInvariant` strengthens it: until it has
stored `complete_in_progress`, a handler with a snapshot holds the lock
(`HoldersHaveLock`), so the one that stores it is alone; from then on everything
that is stored, and every other snapshot, is closed (`BusyIsAlone`), even when the
lock goes; from the order on this is permanent (`OrderClosesSession`).  So nobody
else comes to the point where an order is asked for (`CreateIsFirst`).

The others rest on it.  What a property says of the stored session has to hold
of every snapshot that may still be saved over it: open ones once a key is
spent (`SpentInv`), canceled ones once there is an order (`CanceledInv`), ones
without the known order (`KnownInv`), ones the lifecycle does not allow
(`SavesInv`).  `OneOrderPerKey` does without the lock: no two completions at work
share a key, and an order is recorded under a key that is claimed (`KeyInv`).

`CheckoutFlowProofs` has one lemma per shared action for the types and for
`OneOrderInv`. For the rest, it first sorts the steps of a handler into kinds
(`Kind`: it reads the session, works on its snapshot, begins a completion, asks for
the order, saves, stops); the other invariants are kept kind by kind, and the
surface modules show of what kind their own actions are. The refinement shows that
initial states are those of `CheckoutLifecycle` and that each kind of step is one of
its steps or a stutter; `CheckoutLifecycle` has no fairness.

### Store calls: `StoreProofs`, `ChatProofs`

* `CreateNamesOneSession`: as long as the key has not lapsed, one request at most
  holds it, before anything is answered (`OneHolder`); what is answered agrees with
  the record and with every replay under way (`AnswersAgree`).
* `EventsReachTheQueue`, assuming `LinkLate = FALSE` (`order_event_lost` shows
  why): an event is pushed for a change there was, the link is older than every
  change (`LinkedBeforeChange`), and what a handler read of the order is not older
  than its event (`ReadAfterEvent`).
* `CartsTellWhatWasAccepted` and, as an action property, `CartsChangeOwnOnly`: what
  was confirmed before the read-back stays told (`Confirmed`); a guest's call has
  the id of a cart unless it makes one (`GuestNames`).
* `SyncReplacesCodes`: once the codes of a call are settled and until its answer,
  the cart has the code that the session will tell of (`CodesAgree`).
* `SyncHoldsExactlyLines`, assuming that no list names a product twice
  (`cart_repeats` shows why): what is still to be written is as it was read, what
  was written is as asked (`Writing`); then all lines are there and what is beside
  them is about to go (`Dropping`); from there to the answer the cart has the list
  exactly (`Exact`).  So it does not matter what the cart held before, or how far
  an earlier call came.
* `ViewReadinessIsHonest`: the stored status is that of the stored data, the choices
  are the regions of the country, and ACP selects no pickup point (`ViewInv`).
* `ViewTotalsAddUp`: for all amounts, discounts above the items included, and with
  either lookup of the delivery options failing.  A row is left out only where its
  amount is zero (`PriceType`), for a quotation and for an order, on both surfaces; a
  quotation that would be negative costs nothing.
* `ChatTypes`, `ChatConversationsAreBounded`, `ChatQuotaHolds`: `AttemptOk` says of one
  request how far its loop may be, and that the conversation it loaded had room;
  `BudgetInv` that the counters are at least what was let through.
* `ChatAddsOnce`: the property counts what the shop did, the invariant numbers it.
  An add is known by its visitor, its turn, its cart and its number, also on the wire,
  and for every visitor, turn and cart one attempt stands for all numbers that were
  ever sent (`AddsInv`).
* `ChatResultsAreShown`: a turn ends with results nobody saw only where its iterations
  are used up (`AttemptOk`); nothing is assumed of the model.
* `ChatBudgetsAgree`: both sums grow by one in the same step, or neither does.

* `StoreTypes`: the types of all six parts, without any assumption beyond the
  constants; each is a part of the invariant above.

`SumLemmas` carries the sums in `SyncHoldsExactlyLines`, `ViewTotalsAddUp` and
`ChatBudgetsAgree`: the sum of a function over a finite set, as `Functions` defines
it by a fold, loses one term when an element is taken out and grows by what one
value grows.  The library's induction theorems are out of
the provers' reach, so the lemmas take induction up to the cardinality of a finite
set from facts about intervals (`UpTo`).

### Pods: `PodsProofs`

* `KeysPodsAgree`: a key is stored before any call returns it, and what a pod
  remembers is what is stored (`KeysInv`).
* `IdentityRevocationSpreads`: the time since a revocation and what is left of a
  verdict add up to the lifetime and one call at most (`VerdictsAreRecent`); a
  probe's answer is no older than the probe (`ProbesAreRecent`), for any number of
  probes of one token at once, whichever of them ends last.
* `TenantsAnswersAreRecent`, `TenantsProbesRest`: the same argument through two
  caches, and that what is left of an entry keeps its pod from Django (`TenantsInv`).
  `ProbesRest` is about pods with something to serve: with no last known configuration,
  or for credentials (`EnsureSecrets`), the code asks again at once.
* `LimiterEvictionIsFair`: an idle bucket has gained the tokens of its idle ticks,
  so whoever loses one after `IdleEviction` is due a full one (`RefilledWhileIdle`),
  and whoever loses one in use is not worse off;
  it needs `Burst <= Rate * IdleEviction`, as section 3 notes.
* `ProfilesCallersStay`: the cache is ordered by use; the entries used later than
  one are among the addresses answered since, so a promise that is gone was
  outlived by as many others as the cache holds (`ProfilesInv`).
* `NegotiationLargestIntersection`: pruning loses nothing that belongs to a set in
  which no extension lacks its parent (`LosesNothing`), in whatever order it goes.
* `PodsTypes`: the types of all six parts.  Those of `Limiter`, `Identity` and
  `Profiles` say that their tables hold `MaxBuckets`, `CacheMax` and `MaxProfiles`
  entries at most: what is evicted for a new entry is always enough, whoever comes
  at once.

### Feeds, pipeline, webhooks: `BackgroundProofs`

* `FeedTypeOK`, `FeedFreshIsCurrent`: as the epoch is read before the catalogue, a
  sweep whose epoch still is the epoch has read every announced change
  (`SweepIsCurrent`), and `EXEC` writes with a fresh stamp only then.
* `FeedKeepsItsPromise`: `FeedSpec` implements `FeedPromise`.  `shown` is the cached
  entry without its build; the epoch and every phase of a sweep are stutters, the
  `EXEC` of a sweep is a publication.  Beyond the invariant of `FeedFreshIsCurrent` it
  needs that no sweep is ahead of the catalogue (`SweepIsPast`).
  `PromiseIsFresh`: whatever implements `FeedPromise` has `FreshIsCurrent`.
* `PipelineWindowBounds`, `PipelineDoneIsComplete`: `TokensFitPages` counts the
  tokens that are out: one for every page between `next` and `due`, and one for the
  page the producer is about to schedule; the pages in memory lie in that interval.
* `DispatcherTypes`: the types of the dispatcher.
* `DispatcherNothingLost`, assuming `~Returns` (section 3 shows that this is
  needed): a worker acknowledges only what was accepted or given up (`AcksAreDue`),
  and a consumer about to be removed is down and owes nothing (`RemovedOweNothing`).
* `DispatcherAcceptsOnce`, assuming `~Slow` (a late delivery is posted twice by
  design): an entry is with one worker or waits in one process (`OneHolder`), is
  pending for whoever has it or for nobody (`HoldersOwe`), processes that are down
  hold nothing and a replay is past what it holds (`LoopsHold`), so an entry that was
  accepted or given up is not handed out again (`EndedRests`).
* `DispatcherIsAQueue`, assuming `~Slow` and `~Returns`: `DispatchSpec` implements
  `DeliveryQueue`.  `PlaceOf(e)` is where an entry is: not yet added, beyond `taken`,
  pending, or acknowledged; the abstract `kept` is `unacked`, the entries whose end
  a kill or Redis kept from the stream.  Reads of new entries are `HandOut`, the
  answers and the last failure are `Answer` and `GiveUp`, an acknowledgement is
  `Leave`; replays, reclaims, takeovers, restarts and removed consumers move
  entries between processes and map to a stutter, kills to `Keep`.  It rests on the
  invariants of both theorems above and on `HeldPending`: what a process has at
  hand is pending in the group.
  `QueueKeepsEntries`: whatever implements `DeliveryQueue` has `AcceptedOnce`, and no
  entry leaves it that was neither accepted nor given up.

### Left to TLC

* Liveness under fairness: `PaidIsShown`, `CurrentInTheEnd`, `EverythingEnds`,
  `EntriesEnd`.  TLAPS does not reason about `ENABLED`.
* The violations, which are counterexamples.

Every invariant, action property and refinement that a passing run checks is also a
theorem (of `ImplementsUntilCrash` the case without failures,
`UcpImplementsLifecycle`). Some names occur in proofs only: the invariants above,
`WindowBounds`, `TypeOK` of ACP, the types of feeds and dispatcher, and two
invariants that the refinements which the runs check imply: `FreshIsCurrent`
(`PromiseIsFresh`) and `AcceptedOnce` (`QueueKeepsEntries`; `DispatcherAcceptsOnce`
assumes less).

## 5. Plan

Done: the checkout core, feeds, webhooks with the event endpoint in front of them,
ACP create, carts and their synchronisation, readiness and totals, tenants, chat,
keys, profiles, negotiation, verifier and limiter; every safety invariant, action
property and refinement that a run checks, as a theorem.

Left: two checkouts that share a cart.  What follows depends on what Django makes of
two orders of one cart, which this repository does not say.

## 6. Not modelled

* *Feed endpoint and rendering, replies beyond totals and messages, prompt and
  product cards, URLs, amounts.*  They map one value to another and keep no
  state; their mistakes are found by unit tests.
* *HTTP message signatures.*  Cryptography over a canonical string.
* *Catalogue, shipping, policy and order tools.*  One read of the shop each, between
  a decoded argument and a rendered answer.
* *Configuration, routes, metrics, logging.*  Wiring.  The order of shutdown is in
  `WebhookDispatcher`.
* *The two generation slots of a pod, shared by all tenants.*  Whether a slot is
  granted before `generationTimeout` is a question of durations; `FeedCache` lets a
  sweep fail while it waits and says nothing about how often.
