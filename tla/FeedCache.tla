----------------------------- MODULE FeedCache -----------------------------
(***************************************************************************)
(* The feed cache of one tenant: the rendered feeds in Redis, the epoch    *)
(* that counts invalidations, and the sweeps with which the pods of the    *)
(* gateway regenerate the feeds from the store's catalogue.                *)
(*                                                                         *)
(* The catalogue is a version number.  A sweep reads it page by page while *)
(* it may change; its data is the version of the first page, which is the  *)
(* oldest it holds.  Both formats are written and dropped in one           *)
(* transaction, so one entry stands for them.                              *)
(***************************************************************************)
EXTENDS Naturals

CONSTANTS
    Pod,         \* the pods of the gateway
    None,        \* no feed in Redis
    MaxEdits,    \* bound on the changes of the catalogue
    Spare,       \* bound on the invalidations with no change behind them
    StoreAttempts,
    SweepsFail   \* do sweeps and Redis calls fail, do pods die?

Build == {"old", "new"}
Phase == {"none", "slot", "epoch", "read", "watch", "exec"}
Feed == [data: Nat, fresh: BOOLEAN, build: Build]

ASSUME FeedConstants ==
    /\ None \notin Feed
    /\ MaxEdits \in Nat /\ Spare \in Nat
    /\ StoreAttempts \in Nat \ {0}
    /\ SweepsFail \in BOOLEAN

VARIABLES
    catalog,    \* Django: the version of the catalogue
    announced,  \* history: the version the last invalidation stood for
    epoch,      \* Redis: how many invalidations there were
    cache,      \* Redis: the feed, with what its metadata says of it
    build,      \* the release each pod runs
    phase,      \* where the sweep of each pod is
    began,      \* the epoch it read before the catalogue
    data,       \* the version of the catalogue it read
    watched,    \* the epoch it read again in the WATCH
    tries       \* how many of its cache writes lost to an invalidation

sweeps == <<phase, began, data, watched, tries>>
feedVars == <<catalog, announced, epoch, cache, build, phase, began, data,
          watched, tries>>

CacheTypeOK ==
    /\ catalog \in Nat /\ announced \in 0..catalog
    /\ epoch \in Nat
    /\ cache \in Feed \cup {None}
    /\ build \in [Pod -> Build]
    /\ phase \in [Pod -> Phase]
    /\ began \in [Pod -> Nat]
    /\ data \in [Pod -> Nat]
    /\ watched \in [Pod -> Nat]
    /\ tries \in [Pod -> 0..(StoreAttempts - 1)]

(* A rollout may be under way, and the pods of the last release left a     *)
(* feed behind.                                                            *)
FeedInit ==
    /\ catalog = 0 /\ announced = 0 /\ epoch = 0
    /\ cache \in {None, [data |-> 0, fresh |-> TRUE, build |-> "old"]}
    /\ build \in [Pod -> Build]
    /\ phase = [p \in Pod |-> "none"]
    /\ began = [p \in Pod |-> 0]
    /\ data = [p \in Pod |-> 0]
    /\ watched = [p \in Pod |-> 0]
    /\ tries = [p \in Pod |-> 0]

-----------------------------------------------------------------------------
(* Requests. *)

To(p, there) == phase' = [phase EXCEPT ![p] = there]

(* fromCache: a feed of another build reads as none.                       *)
Served(p) == cache # None /\ cache.build = build[p]
Wanted(p) == Served(p) => ~cache.fresh

(* Get: a feed that is missing or stale starts a sweep, unless this pod    *)
(* runs one already; the sweep does not end with the request.  A fresh     *)
(* feed is served and nothing else happens; one that could not be read is  *)
(* missing.                                                                *)
Get(p) ==
    /\ phase[p] = "none"
    /\ Wanted(p) \/ SweepsFail
    /\ To(p, "slot")
    /\ UNCHANGED <<catalog, announced, epoch, cache, build, began, data,
                   watched, tries>>

(* Invalidate: the epoch moves on and the feeds go, in one transaction.    *)
(* The store calls it after a change, again until it is answered, and      *)
(* sometimes with no change of the products.                               *)
Invalidate ==
    /\ announced < catalog \/ epoch < Spare
    /\ epoch' = epoch + 1
    /\ cache' = None
    /\ announced' = catalog
    /\ UNCHANGED <<catalog, build, sweeps>>

-----------------------------------------------------------------------------
(* generate. *)

(* The wait for one of the two slots all tenants of a pod share.           *)
TakeSlot(p) ==
    /\ phase[p] = "slot"
    /\ To(p, "epoch")
    /\ UNCHANGED <<catalog, announced, epoch, cache, build, began, data,
                   watched, tries>>

ReadEpoch(p) ==
    /\ phase[p] = "epoch"
    /\ began' = [began EXCEPT ![p] = epoch]
    /\ To(p, "read")
    /\ UNCHANGED <<catalog, announced, epoch, cache, build, data, watched,
                   tries>>

Sweep(p) ==
    /\ phase[p] = "read"
    /\ data' = [data EXCEPT ![p] = catalog]
    /\ To(p, "watch")
    /\ UNCHANGED <<catalog, announced, epoch, cache, build, began, watched,
                   tries>>

(* The sweep is over, stored or failed; its waiters are answered.          *)
Over(p) ==
    /\ To(p, "none")
    /\ began' = [began EXCEPT ![p] = 0]
    /\ data' = [data EXCEPT ![p] = 0]
    /\ watched' = [watched EXCEPT ![p] = 0]
    /\ tries' = [tries EXCEPT ![p] = 0]

Watch(p) ==
    /\ phase[p] = "watch"
    /\ watched' = [watched EXCEPT ![p] = epoch]
    /\ To(p, "exec")
    /\ UNCHANGED <<catalog, announced, epoch, cache, build, began, data,
                   tries>>

(* Mutant: an overtaken sweep is stamped with its time like any other.     *)
StampAll(p) == [data |-> data[p], fresh |-> TRUE, build |-> build[p]]

(* An overtaken sweep gets no time, which reads as stale.                  *)
Stamped(p) ==
    [data |-> data[p], fresh |-> watched[p] = began[p], build |-> build[p]]

Stores(p) == cache' = Stamped(p)

(* Mutant: the write does not depend on the epoch it has read.             *)
ExecUnwatched(p) ==
    /\ phase[p] = "exec"
    /\ Stores(p)
    /\ Over(p)
    /\ UNCHANGED <<catalog, announced, epoch, build>>

(* EXEC: written if no invalidation came since the WATCH.                  *)
Exec(p) ==
    /\ phase[p] = "exec" /\ watched[p] = epoch
    /\ Stores(p)
    /\ Over(p)
    /\ UNCHANGED <<catalog, announced, epoch, build>>

(* A write that lost is repeated; the last one fails the sweep.            *)
Retry(p) ==
    /\ phase[p] = "exec" /\ watched[p] # epoch
    /\ \/ /\ tries[p] + 1 < StoreAttempts
          /\ tries' = [tries EXCEPT ![p] = @ + 1]
          /\ To(p, "watch")
          /\ UNCHANGED <<began, data, watched>>
       \/ /\ tries[p] + 1 = StoreAttempts
          /\ Over(p)
    /\ UNCHANGED <<catalog, announced, epoch, cache, build>>

(* The sweep times out, or a call of the store or of Redis fails; a write  *)
(* whose reply is lost may have been done.                                 *)
Fail(p) ==
    /\ SweepsFail
    /\ phase[p] # "none"
    /\ Over(p)
    /\ \/ phase[p] = "exec" /\ watched[p] = epoch /\ Stores(p)
       \/ UNCHANGED <<cache>>
    /\ UNCHANGED <<catalog, announced, epoch, build>>

-----------------------------------------------------------------------------
(* Around. *)

Edit ==
    /\ catalog < MaxEdits
    /\ catalog' = catalog + 1
    /\ UNCHANGED <<announced, epoch, cache, build, sweeps>>

(* FEED_FRESH_TTL, then FEED_STALE_TTL.                                    *)
Age ==
    /\ cache # None /\ cache.fresh
    /\ cache' = [cache EXCEPT !.fresh = FALSE]
    /\ UNCHANGED <<catalog, announced, epoch, build, sweeps>>

Expire ==
    /\ cache # None
    /\ cache' = None
    /\ UNCHANGED <<catalog, announced, epoch, build, sweeps>>

(* A pod ends, with its sweep, and comes back with the new release.        *)
Restart(p) ==
    /\ SweepsFail
    /\ build' = [build EXCEPT ![p] = "new"]
    /\ Over(p)
    /\ UNCHANGED <<catalog, announced, epoch, cache>>

SweepStep(p) ==
    TakeSlot(p) \/ ReadEpoch(p) \/ Sweep(p) \/ Watch(p) \/ Exec(p) \/ Retry(p)

FeedNext ==
    \/ \E p \in Pod : Get(p) \/ SweepStep(p) \/ Fail(p) \/ Restart(p)
    \/ Invalidate \/ Edit \/ Age \/ Expire

FeedSpec == FeedInit /\ [][FeedNext]_feedVars

(* Crawlers come back, a sweep goes on, and the store announces a change.  *)
(* Sweeps do not fail for ever, nor do pods die for ever.                  *)
FeedFairness ==
    /\ \A p \in Pod : WF_feedVars(Wanted(p) /\ Get(p)) /\ WF_feedVars(SweepStep(p))
    /\ WF_feedVars(announced < catalog /\ Invalidate)
    /\ <>[][~ \E p \in Pod : Fail(p) \/ Restart(p)]_feedVars

FairFeedSpec == FeedSpec /\ FeedFairness

-----------------------------------------------------------------------------
(* A feed that is served without a refresh is no older than the last       *)
(* change the store has announced, however sweeps and invalidations of     *)
(* several pods interleave: store checks the epoch and writes in one step. *)
(* It is what ImplementsPromise, below, says of the cached feed alone.     *)
FreshIsCurrent == cache # None /\ cache.fresh => cache.data >= announced

(* Why: a sweep whose epoch is still the epoch has read every announced    *)
(* change, since the epoch was read first.                                 *)
SweepIsCurrent ==
    \A p \in Pod :
        /\ phase[p] \in {"read", "watch", "exec"} => began[p] <= epoch
        /\ phase[p] \in {"watch", "exec"} /\ began[p] = epoch
                => data[p] >= announced

(* Pods, epoch and WATCH together are the cache of FeedPromise: whatever   *)
(* sweeps, failures, restarts and invalidations interleave, an             *)
(* invalidation leaves nothing to serve, and what is written afterwards is *)
(* a version the catalogue had, marked fresh only if it holds every        *)
(* announced change.                                                       *)
Promise == INSTANCE FeedPromise WITH
              shown <- IF cache = None THEN {} ELSE {[data |-> cache.data, fresh |-> cache.fresh]}

ImplementsPromise == Promise!Spec

(* An announced change reaches the feed without waiting for the six hours  *)
(* of FEED_FRESH_TTL: in the end nothing older is left in the cache.       *)
CurrentInTheEnd == <>[](cache # None => cache.data = catalog)
=============================================================================
