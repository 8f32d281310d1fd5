-------------------------- MODULE BackgroundProofs --------------------------
(***************************************************************************)
(* What the gateway does beside its calls, for instances of every size.    *)
(*                                                                         *)
(* Freshness of the feed cache, for any number of pods, changes and        *)
(* invalidations.  The invariant is FreshIsCurrent with SweepIsCurrent,    *)
(* which carries it from the moment a sweep reads the epoch to the EXEC    *)
(* that compares it.                                                       *)
(*                                                                         *)
(* The windowed pipeline a sweep runs through, for any number of pages,    *)
(* workers and tokens: it holds no more pages than it has tokens, and      *)
(* reports success only for a complete sweep.                              *)
(*                                                                         *)
(* At-least-once delivery of webhooks for any number of pods, workers and  *)
(* entries, and through every failure: killed and interrupted processes,   *)
(* lost replies of Redis, takeovers of deliveries that still run.  The one *)
(* assumption is that a consumer does not come back while another one      *)
(* removes it.  And no accepted delivery is repeated, on the other         *)
(* assumption: that no delivery of a live process lasts past               *)
(* visibilityTimeout.                                                      *)
(*                                                                         *)
(* Last, what both are for those who do not look inside: the feed cache    *)
(* implements FeedPromise and, on both assumptions, the dispatcher         *)
(* implements DeliveryQueue, step by step.                                 *)
(***************************************************************************)
EXTENDS FeedCache, FeedPipeline, WebhookDispatcher, SumLemmas

-----------------------------------------------------------------------------
(* The feed cache. *)

FeedInv == CacheTypeOK /\ FreshIsCurrent /\ SweepIsCurrent

(* The variables of one pod's sweep stay well typed when it ends.          *)
LEMMA OverType ==
    ASSUME CacheTypeOK, NEW p \in Pod, Over(p)
    PROVE  /\ phase' \in [Pod -> Phase] /\ began' \in [Pod -> Nat]
           /\ data' \in [Pod -> Nat] /\ watched' \in [Pod -> Nat]
           /\ tries' \in [Pod -> 0..(StoreAttempts - 1)]
           /\ \A q \in Pod \ {p} :
                /\ phase'[q] = phase[q] /\ began'[q] = began[q]
                /\ data'[q] = data[q] /\ watched'[q] = watched[q]
           /\ phase'[p] = "none"
BY FeedConstants DEF CacheTypeOK, Over, To, Phase

(* The initial feed, if there is one, is as old as the catalogue.          *)
LEMMA FeedInitially == FeedInit => FeedInv
<1> SUFFICES ASSUME FeedInit PROVE FeedInv
    OBVIOUS
<1> DEFINE left == [data |-> 0, fresh |-> TRUE, build |-> "old"]
<1>1. left \in Feed /\ left.data = 0
    BY DEF Feed, Build
<1>2. 0 \in 0..(StoreAttempts - 1)
    BY FeedConstants
<1>3. cache \in {None, left}
    BY DEF FeedInit
<1>4. CacheTypeOK
    <2>1. cache \in Feed \cup {None}
        BY <1>1, <1>3
    <2>2. tries \in [Pod -> 0..(StoreAttempts - 1)]
        BY <1>2 DEF FeedInit
    <2>3. QED
        BY <2>1, <2>2 DEF FeedInit, CacheTypeOK, Phase
<1>5. FreshIsCurrent
    BY <1>1, <1>3 DEF FeedInit, FreshIsCurrent
<1>6. SweepIsCurrent
    <2>1. phase = [p \in Pod |-> "none"]
        BY DEF FeedInit
    <2>2. ASSUME NEW p \in Pod PROVE phase[p] = "none"
        BY <2>1
    <2>3. QED
        BY <2>2, Zenon DEF SweepIsCurrent
<1>7. QED
    BY <1>4, <1>5, <1>6 DEF FeedInv

(* What EXEC writes is well typed, and fresh only if nothing was announced *)
(* since the sweep began.                                                  *)
LEMMA StoresCurrent ==
    ASSUME FeedInv, NEW p \in Pod, phase[p] = "exec", watched[p] = epoch,
           Stores(p), UNCHANGED announced
    PROVE  cache' \in Feed /\ FreshIsCurrent'
<1>1. data[p] \in Nat /\ build[p] \in Build /\ cache' = Stamped(p)
    BY DEF FeedInv, CacheTypeOK, Stores
<1>2. Stamped(p) \in Feed
    BY <1>1 DEF Stamped, Feed
<1>3. watched[p] = began[p] => data[p] >= announced
    BY DEF FeedInv, SweepIsCurrent
<1>4. FreshIsCurrent'
    BY <1>1, <1>3 DEF FreshIsCurrent, Stamped
<1>5. QED
    BY <1>1, <1>2, <1>4

(* Every step keeps the variables typed, fresh feeds current, and sweeps   *)
(* that may still write a fresh feed current.                              *)
LEMMA FeedStep == FeedInv /\ [FeedNext]_feedVars => FeedInv'
<1> SUFFICES ASSUME FeedInv, [FeedNext]_feedVars PROVE FeedInv'
    OBVIOUS
<1> USE FeedConstants DEF FeedInv, CacheTypeOK, FreshIsCurrent, SweepIsCurrent
<1>1. ASSUME NEW p \in Pod, Get(p) PROVE FeedInv'
    BY <1>1 DEF Get, To, Phase
<1>2. ASSUME NEW p \in Pod, TakeSlot(p) PROVE FeedInv'
    BY <1>2 DEF TakeSlot, To, Phase
<1>3. ASSUME NEW p \in Pod, ReadEpoch(p) PROVE FeedInv'
    BY <1>3 DEF ReadEpoch, To, Phase
<1>4. ASSUME NEW p \in Pod, Sweep(p) PROVE FeedInv'
    BY <1>4 DEF Sweep, To, Phase
<1>5. ASSUME NEW p \in Pod, Watch(p) PROVE FeedInv'
    BY <1>5 DEF Watch, To, Phase
<1>6. ASSUME NEW p \in Pod, Exec(p) PROVE FeedInv'
    BY <1>6, OverType, StoresCurrent DEF Exec
<1>7. ASSUME NEW p \in Pod, Retry(p) PROVE FeedInv'
    <2>1. CASE tries[p] + 1 < StoreAttempts
        BY <1>7, <2>1 DEF Retry, To, Phase
    <2>2. CASE tries[p] + 1 = StoreAttempts
        BY <1>7, <2>2, OverType DEF Retry
    <2>3. QED
        BY <1>7, <2>1, <2>2 DEF Retry
<1>8. ASSUME NEW p \in Pod, Fail(p) PROVE FeedInv'
    <2>1. CASE phase[p] = "exec" /\ watched[p] = epoch /\ Stores(p)
        BY <1>8, <2>1, OverType, StoresCurrent DEF Fail
    <2>2. CASE UNCHANGED cache
        BY <1>8, <2>2, OverType DEF Fail
    <2>3. QED
        BY <1>8, <2>1, <2>2 DEF Fail
<1>9. ASSUME NEW p \in Pod, Restart(p) PROVE FeedInv'
    BY <1>9, OverType DEF Restart, Build
<1>10. ASSUME Invalidate PROVE FeedInv'
    BY <1>10 DEF Invalidate, sweeps
<1>11. ASSUME Edit PROVE FeedInv'
    BY <1>11 DEF Edit, sweeps
<1>12. ASSUME Age PROVE FeedInv'
    <2>1. cache' \in Feed /\ ~cache'.fresh
        BY <1>12 DEF Age, Feed
    <2>2. QED
        BY <1>12, <2>1 DEF Age, sweeps
<1>13. ASSUME Expire PROVE FeedInv'
    BY <1>13 DEF Expire, sweeps
<1>14. CASE UNCHANGED feedVars
    BY <1>14 DEF feedVars, Feed
<1>15. QED
    BY <1>1, <1>2, <1>3, <1>4, <1>5, <1>6, <1>7, <1>8, <1>9, <1>10, <1>11,
       <1>12, <1>13, <1>14 DEF FeedNext, SweepStep

(* The feed cache satisfies its invariant in every reachable state.        *)
LEMMA FeedInvariant == FeedSpec => []FeedInv
BY FeedInitially, FeedStep, PTL DEF FeedSpec

(* Every variable of the cache and of the sweeps keeps its type, the       *)
(* attempts of a write included: no sweep tries more often than the code   *)
(* allows.                                                                 *)
THEOREM FeedTypeOK == FeedSpec => []CacheTypeOK
<1>1. FeedInv => CacheTypeOK
    BY DEF FeedInv
<1>2. QED
    BY FeedInvariant, <1>1, PTL

(* A feed that is served without a refresh is no older than the last       *)
(* announced change, for any number of pods.                               *)
THEOREM FeedFreshIsCurrent == FeedSpec => []FreshIsCurrent
<1>1. FeedInv => FreshIsCurrent
    BY DEF FeedInv
<1>2. QED
    BY FeedInvariant, <1>1, PTL

(* Sweeps hold nothing that the catalogue did not have.                    *)
SweepIsPast == \A p \in Pod : data[p] <= catalog

PromiseInv == FeedInv /\ SweepIsPast

\* The variables of FeedPromise, as Redis and the histories have them.
shownNow == IF cache = None THEN {} ELSE {[data |-> cache.data, fresh |-> cache.fresh]}
promised == <<catalog, announced, shownNow>>

(* Sweeps take the catalogue as it is, and it moves on.                    *)
LEMMA SweepIsPastStep == PromiseInv /\ [FeedNext]_feedVars => SweepIsPast'
<1> SUFFICES ASSUME PromiseInv, [FeedNext]_feedVars PROVE SweepIsPast'
    OBVIOUS
<1>0. CacheTypeOK /\ SweepIsPast /\ catalog \in Nat /\ \A p \in Pod : data[p] \in Nat
    BY DEF PromiseInv, FeedInv, CacheTypeOK
<1>1. ASSUME NEW p \in Pod, Over(p), catalog' = catalog PROVE SweepIsPast'
    BY <1>0, <1>1 DEF Over, CacheTypeOK, SweepIsPast
<1>2. ASSUME NEW p \in Pod, Sweep(p) PROVE SweepIsPast'
    BY <1>0, <1>2 DEF Sweep, CacheTypeOK, SweepIsPast
<1>3. CASE UNCHANGED data /\ catalog' \in {catalog, catalog + 1}
    BY <1>0, <1>3 DEF SweepIsPast
<1> QED
    BY <1>1, <1>2, <1>3 DEF FeedNext, SweepStep, Get, TakeSlot, ReadEpoch, Watch, Exec, Retry, Fail,
       Restart, Invalidate, Edit, Age, Expire, sweeps, feedVars

(* What EXEC writes is a publication.                                      *)
LEMMA StoresPublish ==
    ASSUME PromiseInv, NEW p \in Pod, phase[p] = "exec", watched[p] = epoch,
           Stores(p), UNCHANGED <<catalog, announced>>
    PROVE  Promise!Publish
<1>1. /\ data[p] \in 0..catalog
      /\ watched[p] = began[p] => data[p] >= announced
    BY DEF PromiseInv, FeedInv, SweepIsCurrent, CacheTypeOK, SweepIsPast
<1>2. cache' = [data |-> data[p], fresh |-> watched[p] = began[p], build |-> build[p]]
    BY DEF Stores, Stamped
<1>3. cache' # None
    BY StoresCurrent, FeedConstants DEF PromiseInv
<1>4. shownNow' = {[data |-> data[p], fresh |-> watched[p] = began[p]]}
    BY <1>2, <1>3 DEF shownNow
<1>5. (watched[p] = began[p]) \in BOOLEAN
    OBVIOUS
<1> QED
    BY <1>1, <1>4, <1>5 DEF Promise!Publish, shownNow

(* Every step of pods, store and Redis is one of the promise, or none.     *)
LEMMA FeedRefined ==
    ASSUME PromiseInv, [FeedNext]_feedVars
    PROVE  [Promise!Next]_promised
<1>0. CacheTypeOK
    BY DEF PromiseInv, FeedInv
<1>1. CASE UNCHANGED <<catalog, announced, cache>>
    BY <1>1 DEF promised, shownNow
<1>2. ASSUME NEW p \in Pod, phase[p] = "exec", watched[p] = epoch, Stores(p),
             UNCHANGED <<catalog, announced>>
      PROVE  [Promise!Next]_promised
    BY <1>2, StoresPublish DEF Promise!Next
<1>3. CASE Invalidate
    <2>1. announced' = catalog /\ shownNow' = {} /\ catalog' = catalog
        BY <1>3 DEF Invalidate, shownNow
    <2> QED
        BY <2>1 DEF Promise!Next, Promise!Announce, shownNow
<1>4. CASE Edit
    <2>1. catalog' = catalog + 1 /\ announced' = announced /\ shownNow' = shownNow
        BY <1>4 DEF Edit, shownNow
    <2> QED
        BY <2>1 DEF Promise!Next, Promise!Edit, shownNow
<1>5. CASE Age
    <2>1. /\ cache # None /\ cache \in Feed /\ cache' = [cache EXCEPT !.fresh = FALSE]
          /\ UNCHANGED <<catalog, announced>>
        BY <1>0, <1>5 DEF Age, CacheTypeOK
    <2>2. cache' \in Feed /\ cache'.data = cache.data /\ cache'.fresh = FALSE
        BY <2>1 DEF Feed
    <2>3. cache' # None
        BY <2>2, FeedConstants
    <2> DEFINE f == [data |-> cache.data, fresh |-> cache.fresh]
    <2>4. f \in shownNow /\ shownNow' = {[data |-> f.data, fresh |-> FALSE]}
        BY <2>1, <2>2, <2>3 DEF shownNow
    <2> HIDE DEF f
    <2>5. Promise!Age
        BY <2>1, <2>4 DEF Promise!Age, shownNow
    <2> QED
        BY <2>5 DEF Promise!Next
<1>6. CASE Expire
    <2>1. shownNow' = {} /\ UNCHANGED <<catalog, announced>>
        BY <1>6 DEF Expire, shownNow
    <2> QED
        BY <2>1 DEF Promise!Next, Promise!Drop, shownNow
<1>7. ASSUME NEW p \in Pod, Get(p) \/ SweepStep(p) \/ Fail(p) \/ Restart(p)
      PROVE  [Promise!Next]_promised
    <2>1. CASE Exec(p)
        BY <1>2, <2>1 DEF Exec
    <2>2. CASE Fail(p)
        BY <1>1, <1>2, <2>2 DEF Fail
    <2>3. CASE Get(p) \/ TakeSlot(p) \/ ReadEpoch(p) \/ Sweep(p) \/ Watch(p) \/ Retry(p) \/ Restart(p)
        BY <1>1, <2>3 DEF Get, TakeSlot, ReadEpoch, Sweep, Watch, Retry, Restart
    <2> QED
        BY <1>7, <2>1, <2>2, <2>3 DEF SweepStep
<1>8. CASE UNCHANGED feedVars
    BY <1>1, <1>8 DEF feedVars
<1> QED
    BY <1>3, <1>4, <1>5, <1>6, <1>7, <1>8 DEF FeedNext

(* The cache, with its epoch, its WATCH and all sweeps of all pods, is the *)
(* cache of FeedPromise, for any number of pods, changes and invalidations *)
(* and through every failure of a sweep.                                   *)
THEOREM FeedKeepsItsPromise == FeedSpec => ImplementsPromise
<1>1. FeedInit => PromiseInv
    BY FeedInitially DEF PromiseInv, SweepIsPast, FeedInit
<1>2. PromiseInv /\ [FeedNext]_feedVars => PromiseInv'
    BY FeedStep, SweepIsPastStep DEF PromiseInv
<1>3. FeedInit => Promise!Init
    <2> SUFFICES ASSUME FeedInit PROVE Promise!Init
        OBVIOUS
    <2>1. \/ cache = None
          \/ cache # None /\ cache.data = 0 /\ cache.fresh = TRUE
        BY DEF FeedInit
    <2>2. shownNow \in {{}, {[data |-> 0, fresh |-> TRUE]}}
        BY <2>1 DEF shownNow
    <2> QED
        BY <2>2 DEF FeedInit, Promise!Init, shownNow
<1>4. PromiseInv /\ [FeedNext]_feedVars => [Promise!Next]_promised
    BY FeedRefined
<1> QED
    BY <1>1, <1>2, <1>3, <1>4, PTL DEF FeedSpec, ImplementsPromise, Promise!Spec, promised, shownNow

PromiseHolds == Promise!TypeOK /\ FreshIsCurrent

(* What a crawler needs of the promise is in it: whatever implements       *)
(* FeedPromise has a fresh feed only with every announced change.          *)
THEOREM PromiseIsFresh == ImplementsPromise => []PromiseHolds
<1>1. PromiseHolds <=>
          /\ catalog \in Nat /\ announced \in 0..catalog
          /\ shownNow = {} \/ \E f \in Promise!Feeds : shownNow = {f}
          /\ \A f \in shownNow : f.fresh => f.data >= announced
    <2>1. FreshIsCurrent <=> \A f \in shownNow : f.fresh => f.data >= announced
        <3>1. CASE cache = None
            BY <3>1 DEF FreshIsCurrent, shownNow
        <3>2. CASE cache # None
            <4> DEFINE f == [data |-> cache.data, fresh |-> cache.fresh]
            <4>1. shownNow = {f} /\ f.data = cache.data /\ f.fresh = cache.fresh
                BY <3>2 DEF shownNow
            <4> HIDE DEF f
            <4> QED
                BY <3>2, <4>1 DEF FreshIsCurrent
        <3> QED
            BY <3>1, <3>2
    <2>2. Promise!TypeOK <=> /\ catalog \in Nat /\ announced \in 0..catalog
                             /\ shownNow = {} \/ \E f \in Promise!Feeds : shownNow = {f}
        BY DEF Promise!TypeOK, shownNow
    <2> QED
        BY <2>1, <2>2 DEF PromiseHolds
<1>2. Promise!Init => PromiseHolds
    <2> SUFFICES ASSUME Promise!Init PROVE PromiseHolds
        OBVIOUS
    <2>1. catalog = 0 /\ announced = 0 /\ shownNow \in {{}, {[data |-> 0, fresh |-> TRUE]}}
        BY DEF Promise!Init, shownNow
    <2> DEFINE f == [data |-> 0, fresh |-> TRUE]
    <2>2. f \in Promise!Feeds /\ f.data = 0
        BY DEF Promise!Feeds
    <2>3. shownNow = {} \/ shownNow = {f}
        BY <2>1
    <2> HIDE DEF f
    <2> QED
        BY <1>1, <2>1, <2>2, <2>3
<1>3. PromiseHolds /\ [Promise!Next]_promised => PromiseHolds'
    <2> SUFFICES ASSUME PromiseHolds, [Promise!Next]_promised PROVE PromiseHolds'
        OBVIOUS
    <2>0. /\ catalog \in Nat /\ announced \in 0..catalog
          /\ shownNow = {} \/ \E f \in Promise!Feeds : shownNow = {f}
          /\ \A f \in shownNow : f.fresh => f.data >= announced
        BY <1>1
    <2> DEFINE Good(c, a, sh) ==
                 /\ c \in Nat /\ a \in 0..c
                 /\ sh = {} \/ \E f \in Promise!Feeds : sh = {f}
                 /\ \A f \in sh : f.fresh => f.data >= a
    <2>1. SUFFICES Good(catalog', announced', shownNow')
        BY <1>1 DEF PromiseHolds, Promise!TypeOK, FreshIsCurrent, shownNow
    <2>2. CASE UNCHANGED promised
        BY <2>0, <2>2 DEF promised
    <2>3. CASE Promise!Edit
        <3>1. catalog' = catalog + 1 /\ announced' = announced /\ shownNow' = shownNow
            BY <2>3 DEF Promise!Edit, shownNow
        <3> QED
            BY <2>0, <3>1
    <2>4. CASE Promise!Announce
        <3>1. catalog' = catalog /\ announced' = catalog /\ shownNow' = {}
            BY <2>4 DEF Promise!Announce, shownNow
        <3> QED
            BY <2>0, <3>1
    <2>5. CASE Promise!Publish
        <3>1. PICK version \in 0..catalog, fresh \in BOOLEAN :
                  /\ fresh => version >= announced
                  /\ shownNow' = {[data |-> version, fresh |-> fresh]}
                  /\ catalog' = catalog /\ announced' = announced
            BY <2>5 DEF Promise!Publish, shownNow
        <3> DEFINE g == [data |-> version, fresh |-> fresh]
        <3>2. g \in Promise!Feeds /\ g.data = version /\ g.fresh = fresh
            BY <2>0 DEF Promise!Feeds
        <3>3. shownNow' = {g}
            BY <3>1
        <3> HIDE DEF g
        <3> QED
            BY <2>0, <3>1, <3>2, <3>3
    <2>6. CASE Promise!Age
        <3>1. PICK f \in shownNow :
                  /\ shownNow' = {[data |-> f.data, fresh |-> FALSE]}
                  /\ catalog' = catalog /\ announced' = announced
            BY <2>6 DEF Promise!Age, shownNow
        <3> DEFINE g == [data |-> f.data, fresh |-> FALSE]
        <3>2. f \in Promise!Feeds
            BY <2>0
        <3>3. g \in Promise!Feeds /\ g.fresh = FALSE
            BY <3>2 DEF Promise!Feeds
        <3>4. shownNow' = {g}
            BY <3>1
        <3> HIDE DEF g
        <3> QED
            BY <2>0, <3>1, <3>3, <3>4
    <2>7. CASE Promise!Drop
        <3>1. catalog' = catalog /\ announced' = announced /\ shownNow' = {}
            BY <2>7 DEF Promise!Drop, shownNow
        <3> QED
            BY <2>0, <3>1
    <2> QED
        BY <2>2, <2>3, <2>4, <2>5, <2>6, <2>7 DEF Promise!Next
<1> QED
    BY <1>2, <1>3, PTL DEF ImplementsPromise, Promise!Spec, promised, shownNow

-----------------------------------------------------------------------------
(* The pipeline.                                                           *)
PipelineInv == SweepTypeOK /\ TokensFitPages /\ DoneIsComplete

(* Before anything is scheduled no token is out.                           *)
LEMMA PipelineInitially == PipelineInit => PipelineInv
<1> SUFFICES ASSUME PipelineInit PROVE PipelineInv
    OBVIOUS
<1>1. 2 \in 2..(Pages + 1) /\ 0 \in 0..Window /\ 2 <= Pages
    BY PipelineConstants
<1>2. SweepTypeOK
    BY <1>1 DEF PipelineInit, SweepTypeOK
<1>3. TokensFitPages
    BY <1>1 DEF PipelineInit, TokensFitPages, Page
<1>4. DoneIsComplete
    BY DEF PipelineInit, DoneIsComplete
<1>5. QED
    BY <1>2, <1>3, <1>4 DEF PipelineInv

(* Tokens and pages move together in every step of producer, fetches and   *)
(* caller.                                                                 *)
LEMMA PipelineStep == PipelineInv /\ [PipelineNext]_pipelineVars => PipelineInv'
<1> SUFFICES ASSUME PipelineInv, [PipelineNext]_pipelineVars PROVE PipelineInv'
    OBVIOUS
<1> USE PipelineConstants DEF PipelineInv, SweepTypeOK, TokensFitPages,
        DoneIsComplete, Page
<1>1. CASE TakeToken
    BY <1>1 DEF TakeToken
<1>2. CASE StopProducer
    BY <1>2 DEF StopProducer
<1>3. CASE Schedule
    BY <1>3 DEF Schedule
<1>4. CASE Emit
    BY <1>4 DEF Emit
<1>5. CASE FailEmit
    BY <1>5 DEF FailEmit
<1>6. CASE StopEmitting
    BY <1>6 DEF StopEmitting
<1>7. CASE Wait
    BY <1>7 DEF Wait, Incomplete
<1>8. CASE Timeout
    BY <1>8 DEF Timeout
<1>9. ASSUME NEW p \in Page, FetchEnds(p) PROVE PipelineInv'
    BY <1>9 DEF FetchEnds, Fetch, FailFetch
<1>10. CASE UNCHANGED pipelineVars
    BY <1>10 DEF pipelineVars
<1>11. QED
    BY <1>1, <1>2, <1>3, <1>4, <1>5, <1>6, <1>7, <1>8, <1>9, <1>10
       DEF PipelineNext, Producer, Main

(* The pages that hold a token are those from next to due, so the tokens   *)
(* bound them.                                                             *)
LEMMA TokensBoundPages == PipelineInv => WindowBounds
<1> SUFFICES ASSUME PipelineInv PROVE WindowBounds
    OBVIOUS
<1> DEFINE held == {p \in Page : page[p] \in {"running", "fetched"}}
<1>1. next \in Int /\ due \in Int /\ due - 1 \in Int
    BY PipelineConstants DEF PipelineInv, SweepTypeOK
<1>2. held \subseteq next..(due - 1)
    BY PipelineConstants, <1>1 DEF PipelineInv, SweepTypeOK, TokensFitPages, Page
<1>3. /\ IsFiniteSet(next..(due - 1))
      /\ Cardinality(next..(due - 1)) = IF next > due - 1 THEN 0 ELSE due - next
    <2>1. Cardinality(next..(due - 1))
             = IF next > due - 1 THEN 0 ELSE (due - 1) - next + 1
        BY <1>1, FS_Interval
    <2>2. QED
        BY <1>1, <2>1, FS_Interval
<1>4. /\ IsFiniteSet(held)
      /\ Cardinality(held) <= Cardinality(next..(due - 1))
    BY <1>2, <1>3, FS_Subset
<1>5. Cardinality(held) \in Nat
    BY <1>4, FS_CardinalityType
<1>6. Cardinality(next..(due - 1)) <= tokens
    BY <1>1, <1>3 DEF PipelineInv, SweepTypeOK, TokensFitPages
<1>7. tokens <= Window /\ tokens \in Nat
    BY PipelineConstants DEF PipelineInv, SweepTypeOK
<1>8. Cardinality(held) <= Window
    BY <1>1, <1>3, <1>4, <1>5, <1>6, <1>7, PipelineConstants
<1>9. QED
    BY <1>8 DEF WindowBounds

(* The pipeline satisfies its invariant in every reachable state.          *)
LEMMA PipelineInvariant == PipelineSpec => []PipelineInv
BY PipelineInitially, PipelineStep, PTL DEF PipelineSpec

(* Fetched or about to be, no more pages are held than the window has      *)
(* tokens.                                                                 *)
THEOREM PipelineWindowBounds == PipelineSpec => []WindowBounds
BY PipelineInvariant, TokensBoundPages, PTL

(* A sweep reported as done has emitted every page.                        *)
THEOREM PipelineDoneIsComplete == PipelineSpec => []DoneIsComplete
<1>1. PipelineInv => DoneIsComplete
    BY DEF PipelineInv
<1>2. QED
    BY PipelineInvariant, <1>1, PTL

-----------------------------------------------------------------------------
(* The webhook dispatcher. *)

(* The part of DispatchTypeOK the argument needs.                          *)
QueueType ==
    /\ entries \in Seq(Delivery) /\ Len(entries) <= MaxEntries
    /\ taken \in 0..Len(entries)
    /\ owner \in [Entry -> Consumer \cup {NoOne}]
    /\ known \subseteq Consumer
    /\ mode \in [Consumer -> Mode]
    /\ batch \in [Consumer -> SUBSET Entry]
    /\ seen \in [Consumer -> SUBSET Consumer]
    /\ job \in [Consumer \X Slot -> 0..MaxEntries]
    /\ failed \in [Consumer \X Slot -> 0..Attempts]
    /\ accepted \in [Entry -> 0..2]

QueueInv == QueueType /\ NothingLost /\ AcksAreDue /\ RemovedOweNothing

(* Nothing has been added yet.                                             *)
LEMMA QueueInit == DispatchInit => QueueInv
<1> SUFFICES ASSUME DispatchInit PROVE QueueInv
    OBVIOUS
<1>1. QueueType
    <2>1. <<>> \in Seq(Delivery) /\ Len(<<>>) = 0
        OBVIOUS
    <2>2. 0 \in 0..MaxEntries /\ 0 \in 0..Attempts
        BY DispatcherConstants
    <2>3. QED
        BY <2>1, <2>2, DispatcherConstants DEF DispatchInit, QueueType, Mode
<1>2. NothingLost
    BY DEF DispatchInit, NothingLost
<1>3. AcksAreDue
    BY DEF DispatchInit, AcksAreDue, Working
<1>4. RemovedOweNothing
    BY DEF DispatchInit, RemovedOweNothing
<1>5. QED
    BY <1>1, <1>2, <1>3, <1>4 DEF QueueInv

(* Steps that leave the stream and the workers alone.                      *)
LEMMA LoopOnly ==
    ASSUME QueueInv, UNCHANGED <<entries, taken, owner, work, outcome>>,
           QueueType', RemovedOweNothing'
    PROVE  QueueInv'
BY DEF QueueInv, NothingLost, AcksAreDue, Working, work, outcome

(* Adding an entry: it waits to be read.                                   *)
LEMMA AddSteps ==
    ASSUME QueueInv, NEW d \in Delivery, Enqueue(d)
    PROVE  QueueInv'
<1> USE DispatcherConstants DEF QueueInv, QueueType, Entry
<1>1. /\ entries' \in Seq(Delivery) /\ Len(entries') = Len(entries) + 1
    BY DEF Enqueue
<1>2. QueueType'
    BY <1>1 DEF Enqueue, loop, work, outcome
<1>3. NothingLost'
    BY <1>1 DEF Enqueue, NothingLost, outcome
<1>4. QED
    BY <1>2, <1>3 DEF Enqueue, AcksAreDue, RemovedOweNothing, Owed,
       Working, loop, work, outcome

(* A reply of Redis, received or lost, leaves entries in the batch.        *)
LEMMA ReceiveType ==
    ASSUME QueueType, NEW c \in Consumer, NEW R \in SUBSET Entry, Receive(c, R)
    PROVE  batch' \in [Consumer -> SUBSET Entry]
BY DEF QueueType, Receive

(* A worker that is not free delivers an entry.                            *)
LEMMA JobIsEntry ==
    ASSUME QueueType, NEW c \in Consumer, NEW s \in Slot, Working(c, s)
    PROVE  <<c, s>> \in Consumer \X Slot /\ job[<<c, s>>] \in Entry
<1>1. job[<<c, s>>] \in 0..MaxEntries /\ job[<<c, s>>] # 0
    BY DEF QueueType, Working
<1>2. QED
    BY <1>1, DispatcherConstants DEF Entry

(* One more answer of a receiver.                                          *)
LEMMA CountUp ==
    ASSUME accepted \in [Entry -> 0..2], NEW e \in Entry,
           accepted' = [accepted EXCEPT ![e] = IF @ = 2 THEN 2 ELSE @ + 1]
    PROVE  /\ accepted' \in [Entry -> 0..2]
           /\ accepted'[e] > 0
           /\ \A f \in Entry : accepted[f] > 0 => accepted'[f] > 0
<1>1. \A f \in Entry : accepted[f] \in 0..2
    OBVIOUS
<1>2. \A f \in Entry :
        accepted'[f] = IF f = e THEN IF accepted[e] = 2 THEN 2 ELSE accepted[e] + 1
                                ELSE accepted[f]
    OBVIOUS
<1>3. \A f \in Entry : accepted'[f] \in 0..2
    BY <1>1, <1>2
<1>4. QED
    BY <1>1, <1>2, <1>3

(* Reading, taking over, removing: what is handed out is pending.          *)
LEMMA StreamSteps ==
    ASSUME QueueInv, NEW c \in Consumer
    PROVE  /\ ReadNew(c) => QueueInv'
           /\ Reclaim(c) => QueueInv'
           /\ Remove(c) /\ ~Returns => QueueInv'
<1> USE DispatcherConstants DEF QueueInv, QueueType, Entry
<1>2. ASSUME ReadNew(c) PROVE QueueInv'
    <2>0. PICK last \in (taken + 1)..Len(entries) :
            taken' = last /\ Receive(c, (taken + 1)..last)
        BY <1>2 DEF ReadNew
    <2>1. /\ taken' \in (taken + 1)..Len(entries)
          /\ owner' = [e \in Entry |->
                         IF taken < e /\ e <= taken' THEN c ELSE owner[e]]
          /\ batch' \in [Consumer -> SUBSET Entry]
          /\ mode[c] = "run"
        <3>1. (taken + 1)..last \subseteq Entry
            BY <2>0
        <3>2. batch' \in [Consumer -> SUBSET Entry]
            BY <2>0, <3>1, ReceiveType
        <3>3. QED
            BY <1>2, <2>0, <3>2 DEF ReadNew
    <2>2. QueueType'
        BY <1>2, <2>1 DEF ReadNew, Joins, work, outcome
    <2>3. NothingLost'
        BY <1>2, <2>1 DEF ReadNew, NothingLost, outcome
    <2>4. RemovedOweNothing'
        BY <1>2, <2>1 DEF ReadNew, RemovedOweNothing, Owed
    <2>5. QED
        BY <1>2, <2>2, <2>3, <2>4 DEF ReadNew, AcksAreDue, Working, work, outcome
<1>3. ASSUME Reclaim(c) PROVE QueueInv'
    <2>1. PICK R \in SUBSET Entry :
            /\ R \subseteq Overdue
            /\ owner' = [e \in Entry |-> IF e \in R THEN c ELSE owner[e]]
            /\ Receive(c, R)
        BY <1>3 DEF Reclaim, Firsts, Overdue
    <2>2. /\ batch' \in [Consumer -> SUBSET Entry]
          /\ mode[c] = "run" /\ mode' = [mode EXCEPT ![c] = "inspect"]
        BY <1>3, <2>1 DEF Reclaim, Receive
    <2>3. QueueType'
        BY <1>3, <2>1, <2>2 DEF Reclaim, Joins, work, outcome, Mode
    <2>4. NothingLost'
        BY <1>3, <2>1 DEF Reclaim, NothingLost, outcome
    <2>5. RemovedOweNothing'
        BY <1>3, <2>1, <2>2 DEF Reclaim, RemovedOweNothing, Owed
    <2>6. QED
        BY <1>3, <2>3, <2>4, <2>5 DEF Reclaim, AcksAreDue, Working, work, outcome
<1>4. ASSUME Remove(c), ~Returns PROVE QueueInv'
    <2>1. PICK d \in seen[c] :
            /\ owner' = [e \in Entry |-> IF owner[e] = d THEN NoOne ELSE owner[e]]
            /\ seen' = [seen EXCEPT ![c] = @ \ {d}]
            /\ mode' = [mode EXCEPT ![c] = IF seen[c] = {d} THEN "run" ELSE @]
        BY <1>4 DEF Remove
    <2>2. owner' = owner
        BY <1>4, <2>1 DEF RemovedOweNothing, Owed
    <2>3. mode[c] = "remove"
        BY <1>4 DEF Remove
    <2>4. QueueType'
        BY <1>4, <2>1, <2>2 DEF Remove, work, outcome, Mode
    <2>5. RemovedOweNothing'
        BY <1>4, <2>1, <2>2, <2>3 DEF RemovedOweNothing, Owed
    <2>6. QED
        BY <1>4, <2>2, <2>4, <2>5, LoopOnly DEF Remove
<1>5. QED
    BY <1>2, <1>3, <1>4

(* The steps of the consume loop that hand nothing out in Redis.           *)
LEMMA LoopSteps ==
    ASSUME QueueInv, ~Returns, NEW c \in Consumer
    PROVE  /\ Start(c) => QueueInv'
           /\ Replay(c) => QueueInv'
           /\ Inspect(c) => QueueInv'
           /\ Shutdown(c) \/ CutOff(c) \/ Exit(c) => QueueInv'
<1> USE DEF QueueInv, QueueType, stream
<1>1. ASSUME Start(c) PROVE QueueInv'
    <2>1. \A d \in Consumer : c \notin seen[d]
        BY <1>1 DEF Start
    <2>2. RemovedOweNothing'
        BY <1>1, <2>1 DEF Start, RemovedOweNothing, Owed
    <2>3. QueueType'
        BY <1>1 DEF Start, work, outcome, Mode
    <2>4. QED
        BY <1>1, <2>2, <2>3, LoopOnly DEF Start
<1>2. ASSUME Replay(c) PROVE QueueInv'
    <2>1. /\ batch' \in [Consumer -> SUBSET Entry]
          /\ mode[c] = "replay"
          /\ mode' \in {mode, [mode EXCEPT ![c] = "run"]}
        <3> DEFINE own == {e \in Owed(c) : e > cursor[c]}
        <3>1. CASE \E R \in Firsts(own) :
                     batch' = [batch EXCEPT ![c] = R] /\ mode' = mode
            <4>1. PICK R \in Firsts(own) :
                    batch' = [batch EXCEPT ![c] = R] /\ mode' = mode
                BY <3>1
            <4>2. R \in SUBSET Entry
                BY <4>1 DEF Firsts, Owed
            <4>3. QED
                BY <1>2, <4>1, <4>2 DEF Replay
        <3>2. CASE mode' = [mode EXCEPT ![c] = "run"] /\ batch' = batch
            BY <1>2, <3>2 DEF Replay
        <3>3. QED
            BY <1>2, <3>1, <3>2 DEF Replay
    <2>2. QueueType'
        BY <1>2, <2>1 DEF Replay, Joins, work, outcome, Mode
    <2>3. RemovedOweNothing'
        BY <1>2, <2>1 DEF Replay, RemovedOweNothing, Owed
    <2>4. QED
        BY <1>2, <2>2, <2>3, LoopOnly DEF Replay
<1>3. ASSUME Inspect(c) PROVE QueueInv'
    <2>1. PICK gone \in SUBSET Gone :
            /\ seen' = [seen EXCEPT ![c] = gone]
            /\ mode' = [mode EXCEPT ![c] = IF gone = {} THEN "run" ELSE "remove"]
        BY <1>3 DEF Inspect
    <2>2. \A d \in gone : d # c /\ mode[d] = "down" /\ Owed(d) = {}
        BY <1>3 DEF Inspect, Gone
    <2>3. mode[c] = "inspect"
        BY <1>3 DEF Inspect
    <2>4. seen' \in [Consumer -> SUBSET Consumer]
        <3>1. gone \subseteq known
            BY DEF Gone
        <3>2. QED
            BY <1>3, <2>1, <3>1
    <2>5. QueueType'
        BY <1>3, <2>1, <2>4 DEF Inspect, work, outcome, Mode
    <2>6. RemovedOweNothing'
        BY <1>3, <2>1, <2>2, <2>3 DEF Inspect, RemovedOweNothing, Owed
    <2>7. QED
        BY <1>3, <2>5, <2>6, LoopOnly DEF Inspect
<1>4. ASSUME Shutdown(c) \/ CutOff(c) \/ Exit(c) PROVE QueueInv'
    <2>1. PICK m \in Mode : mode' = [mode EXCEPT ![c] = m]
        BY <1>4 DEF Shutdown, CutOff, Exit, Mode
    <2>2. mode[c] # "down"
        BY <1>4 DEF Shutdown, CutOff, Exit, Alive
    <2>3. UNCHANGED <<entries, taken, owner, known, acked, cursor, job, failed,
                      accepted, spent, unacked>>
        BY <1>4 DEF Shutdown, CutOff, Exit, work, outcome
    <2>4. CASE UNCHANGED <<seen, batch>>
        <3>1. QueueType'
            BY <2>1, <2>3, <2>4
        <3>2. RemovedOweNothing'
            BY <2>1, <2>2, <2>3, <2>4 DEF RemovedOweNothing, Owed
        <3>3. QED
            BY <2>3, <3>1, <3>2, LoopOnly DEF work, outcome
    <2>5. CASE /\ batch' = [batch EXCEPT ![c] = {}]
               /\ seen' = [seen EXCEPT ![c] = {}]
        <3>1. QueueType'
            BY <2>1, <2>3, <2>5
        <3>2. RemovedOweNothing'
            BY <2>1, <2>2, <2>3, <2>5 DEF RemovedOweNothing, Owed
        <3>3. QED
            BY <2>3, <3>1, <3>2, LoopOnly DEF work, outcome
    <2>6. QED
        BY <1>4, <2>4, <2>5 DEF Shutdown, CutOff, Exit
<1>5. QED
    BY <1>1, <1>2, <1>3, <1>4

(* Handing entries to workers and delivering them: what leaves the pending *)
(* entries was accepted or given up.                                       *)
LEMMA WorkSteps ==
    ASSUME QueueInv, NEW c \in Consumer
    PROVE  /\ Hand(c) => QueueInv'
           /\ Crash(c) => QueueInv'
           /\ \A s \in Slot : WorkStep(c, s) => QueueInv'
<1> USE DispatcherConstants DEF QueueInv, QueueType, Entry
<1>1. ASSUME Hand(c) PROVE QueueInv'
    <2>1. PICK e \in batch[c], s \in Slot :
            /\ job[<<c, s>>] = 0
            /\ job' = [job EXCEPT ![<<c, s>>] = e]
            /\ batch' = [batch EXCEPT ![c] = @ \ {e}]
        BY <1>1 DEF Hand
    <2>2. QueueType'
        BY <1>1, <2>1 DEF Hand, stream, outcome
    <2>3. NothingLost' /\ RemovedOweNothing'
        BY <1>1 DEF Hand, NothingLost, RemovedOweNothing, Owed, stream, outcome
    <2>4. AcksAreDue'
        BY <1>1, <2>1 DEF Hand, AcksAreDue, Working, outcome
    <2>5. QED
        BY <2>2, <2>3, <2>4
<1>2. ASSUME Crash(c) PROVE QueueInv'
    <2>1. QueueType'
        BY <1>2 DEF Crash, stream, outcome, Mode
    <2>a. /\ UNCHANGED <<entries, taken, owner, accepted, spent>>
          /\ mode' = [mode EXCEPT ![c] = "down"]
          /\ seen' = [seen EXCEPT ![c] = {}]
        BY <1>2 DEF Crash, stream
    <2>2. NothingLost' /\ RemovedOweNothing'
        BY <2>a DEF NothingLost, RemovedOweNothing, Owed
    <2>3. AcksAreDue'
        BY <1>2 DEF Crash, AcksAreDue, Working, outcome
    <2>4. QED
        BY <2>1, <2>2, <2>3
<1>3. ASSUME NEW s \in Slot, WorkStep(c, s) PROVE QueueInv'
    <2> DEFINE at == <<c, s>>
    <2>1. CASE Accept(c, s)
        <3>0. job[at] \in Entry /\ at \in Consumer \X Slot
            BY <2>1, JobIsEntry DEF Accept, Posting
        <3>1. /\ job' = job /\ spent' = spent /\ job[at] # 0
              /\ failed' = [failed EXCEPT ![at] = Attempts]
              /\ accepted' = [accepted EXCEPT ![job[at]] = IF @ = 2 THEN 2 ELSE @ + 1]
            BY <2>1 DEF Accept, Posting, Working
        <3>a. /\ accepted'[job[at]] > 0
              /\ \A e \in Entry : accepted[e] > 0 => accepted'[e] > 0
            BY <3>0, <3>1, CountUp
        <3>b. UNCHANGED <<entries, taken, owner, known, mode, batch, seen>>
            BY <2>1 DEF Accept, stream, loop
        <3>2. QueueType'
            <4>1. accepted' \in [Entry -> 0..2]
                BY <3>0, <3>1, CountUp
            <4>2. failed' \in [Consumer \X Slot -> 0..Attempts]
                BY <3>0, <3>1
            <4>3. QED
                BY <3>1, <3>b, <4>1, <4>2
        <3>c. 1..Len(entries) \subseteq Entry
            OBVIOUS
        <3>3. NothingLost' /\ RemovedOweNothing'
            BY <3>1, <3>a, <3>b, <3>c DEF NothingLost, RemovedOweNothing, Owed
        <3>4. AcksAreDue'
            <4> SUFFICES ASSUME NEW d \in Consumer, NEW t \in Slot
                         PROVE  IF job'[<<d, t>>] # 0
                                THEN failed'[<<d, t>>] = Attempts
                                      => \/ accepted'[job'[<<d, t>>]] > 0
                                         \/ job'[<<d, t>>] \in spent'
                                ELSE failed'[<<d, t>>] = 0
                BY DEF AcksAreDue, Working
            <4>1. CASE <<d, t>> = at
                BY <4>1, <3>1, <3>a
            <4>2. CASE <<d, t>> # at
                <5>1. failed'[<<d, t>>] = failed[<<d, t>>]
                    BY <4>2, <3>1
                <5>2. job[<<d, t>>] # 0 => job[<<d, t>>] \in Entry
                    BY JobIsEntry DEF Working
                <5>3. QED
                    BY <5>1, <5>2, <3>1, <3>a DEF AcksAreDue, Working
            <4>3. QED
                BY <4>1, <4>2
        <3>5. QED
            BY <3>2, <3>3, <3>4
    <2>2. CASE Refuse(c, s)
        <3>0. job[at] \in Entry /\ at \in Consumer \X Slot
            BY <2>2, JobIsEntry DEF Refuse, Posting
        <3>1. /\ job' = job /\ job[at] # 0
              /\ failed' = [failed EXCEPT ![at] = @ + 1]
              /\ failed[at] < Attempts
              /\ UNCHANGED <<entries, taken, owner, known, mode, batch, seen,
                             accepted>>
            BY <2>2 DEF Refuse, Posting, Working, stream, loop
        <3>a. spent \subseteq spent' /\ (failed'[at] = Attempts => job[at] \in spent')
            BY <2>2 DEF Refuse
        <3>2. QueueType'
            BY <3>0, <3>1
        <3>3. NothingLost' /\ RemovedOweNothing'
            BY <3>1, <3>a DEF NothingLost, RemovedOweNothing, Owed
        <3>4. AcksAreDue'
            BY <3>0, <3>1, <3>a DEF AcksAreDue, Working
        <3>5. QED
            BY <3>2, <3>3, <3>4
    <2>3. CASE Abort(c, s)
        <3>1. QueueType'
            BY <2>3 DEF Abort, Free, stream, loop, outcome
        <3>2. NothingLost' /\ RemovedOweNothing'
            BY <2>3 DEF Abort, NothingLost, RemovedOweNothing, Owed, stream,
               loop, outcome
        <3>3. AcksAreDue'
            BY <2>3 DEF Abort, Free, AcksAreDue, Working, outcome
        <3>4. QED
            BY <3>1, <3>2, <3>3
    <2>4. CASE Ack(c, s)
        <3>0. job[at] \in Entry /\ at \in Consumer \X Slot
            BY <2>4, JobIsEntry DEF Ack, Acking
        <3>1. accepted[job[at]] > 0 \/ job[at] \in spent
            BY <2>4 DEF Ack, Acking, AcksAreDue
        <3>a. owner' \in {owner, [owner EXCEPT ![job[at]] = NoOne]}
            BY <2>4 DEF Ack
        <3>b. /\ owner' \in [Entry -> Consumer \cup {NoOne}]
              /\ \A e \in Entry :
                    owner'[e] = owner[e] \/ (e = job[at] /\ owner'[e] = NoOne)
            <4>1. CASE owner' = owner
                BY <4>1
            <4>2. CASE owner' = [owner EXCEPT ![job[at]] = NoOne]
                BY <3>0, <4>2
            <4>3. QED
                BY <3>a, <4>1, <4>2
        <3>c. UNCHANGED <<entries, taken, known, mode, batch, seen, accepted, spent>>
            BY <2>4 DEF Ack, loop, outcome
        <3>2. QueueType'
            BY <2>4, <3>b, <3>c DEF Ack, Free
        <3>d. 1..Len(entries) \subseteq Entry
            OBVIOUS
        <3>3. NothingLost'
            BY <3>1, <3>b, <3>c, <3>d DEF NothingLost
        <3>e. \A d \in Consumer : Owed(d)' \subseteq Owed(d)
            BY <3>b DEF Owed
        <3>4. RemovedOweNothing'
            BY <3>c, <3>e DEF RemovedOweNothing
        <3>5. AcksAreDue'
            BY <2>4 DEF Ack, Free, AcksAreDue, Working, outcome
        <3>6. QED
            BY <3>2, <3>3, <3>4, <3>5
    <2>5. QED
        BY <1>3, <2>1, <2>2, <2>3, <2>4 DEF WorkStep
<1>4. QED
    BY <1>1, <1>2, <1>3

(* Every step of the dispatcher keeps the invariant.                       *)
LEMMA QueueStep ==
    ASSUME ~Returns, QueueInv, [DispatchNext]_dispatchVars
    PROVE  QueueInv'
<1>1. CASE DispatchNext
    <2>1. ASSUME NEW c \in Consumer, LoopStep(c) \/ Shutdown(c) \/ Crash(c)
          PROVE  QueueInv'
        BY <2>1, StreamSteps, LoopSteps, WorkSteps DEF LoopStep
    <2>2. ASSUME NEW c \in Consumer, NEW s \in Slot, WorkStep(c, s)
          PROVE  QueueInv'
        BY <2>2, WorkSteps
    <2>3. ASSUME NEW d \in Delivery, Enqueue(d)
          PROVE  QueueInv'
        BY <2>3, AddSteps
    <2>4. QED
        BY <1>1, <2>1, <2>2, <2>3 DEF DispatchNext, Dispatch
<1>2. CASE UNCHANGED dispatchVars
    BY <1>2 DEF dispatchVars, QueueInv, QueueType, NothingLost, AcksAreDue,
       RemovedOweNothing, Owed, Working
<1>3. QED
    BY <1>1, <1>2

(* No delivery is lost: whatever pods and Redis do, an entry of the stream *)
(* waits, is pending for a consumer, or has been accepted or given up, as  *)
(* long as no consumer comes back while it is being removed.               *)
THEOREM DispatcherNothingLost == ASSUME ~Returns PROVE DispatchSpec => []NothingLost
<1>1. QueueInv /\ [DispatchNext]_dispatchVars => QueueInv'
    BY QueueStep
<1>2. QueueInv => NothingLost
    BY DEF QueueInv
<1>3. QED
    BY QueueInit, <1>1, <1>2, PTL DEF DispatchSpec


-----------------------------------------------------------------------------
(* AcceptedOnce.  An entry is with one worker, or waits in one process, at *)
(* most; whoever has it, it is pending for that process or for nobody, so  *)
(* that neither a read, a reclaim nor a replay hands it out again.  An     *)
(* entry that was accepted or given up is with a worker that has only to   *)
(* acknowledge it, or no longer pending, unless a kill or Redis kept the   *)
(* end of it from the stream.                                              *)
Place == Consumer \X Slot

Ended(e) == accepted[e] > 0 \/ e \in spent

USE DEF Ended

OneHolder ==
    /\ \A c, d \in Consumer, e \in Entry : e \in batch[c] /\ e \in batch[d] => c = d
    /\ \A c \in Consumer, p \in Place : job[p] \notin batch[c]
    /\ \A p, q \in Place : job[p] # 0 /\ job[p] = job[q] => p = q
HoldersOwe ==
    /\ \A e \in Entry : owner[e] # NoOne \/ Ended(e) => e <= taken
    /\ \A c \in Consumer, e \in Entry : e \in batch[c] => owner[e] \in {c, NoOne} /\ e <= taken
    /\ \A p \in Place : job[p] # 0 => owner[job[p]] \in {p[1], NoOne} /\ job[p] <= taken
LoopsHold ==
    \A c \in Consumer :
        /\ mode[c] \in {"down", "drain", "cut"} => batch[c] = {}
        /\ mode[c] = "down" => \A s \in Slot : job[<<c, s>>] = 0
        /\ mode[c] = "replay" => /\ \A e \in batch[c] : e <= cursor[c]
                                 /\ \A s \in Slot : job[<<c, s>>] <= cursor[c]
EndedRests ==
    \A e \in Entry \ unacked : Ended(e) =>
        /\ accepted[e] <= 1
        /\ \A c \in Consumer : e \notin batch[c]
        /\ \A p \in Place : job[p] = e => failed[p] = Attempts
        /\ owner[e] = NoOne \/ \E p \in Place : job[p] = e

OnceInv == DispatchTypeOK /\ OneHolder /\ HoldersOwe /\ LoopsHold /\ EndedRests

(* Every variable keeps its type: the stream, the loop, the workers.       *)
LEMMA TypeSteps ==
    ASSUME DispatchTypeOK, NEW c \in Consumer
    PROVE  /\ LoopStep(c) \/ Shutdown(c) \/ Crash(c) => DispatchTypeOK'
           /\ \A s \in Slot : WorkStep(c, s) => DispatchTypeOK'
           /\ \A d \in Delivery : Enqueue(d) => DispatchTypeOK'
<1> USE DispatcherConstants DEF DispatchTypeOK, Entry
<1>0. ASSUME NEW R \in SUBSET Entry, Receive(c, R) PROVE batch' \in [Consumer -> SUBSET Entry]
    BY <1>0 DEF Receive
<1>1. ASSUME NEW d \in Delivery, Enqueue(d) PROVE DispatchTypeOK'
    <2>1. /\ entries' \in Seq(Delivery) /\ Len(entries') = Len(entries) + 1
        BY <1>1 DEF Enqueue
    <2> QED
        BY <1>1, <2>1 DEF Enqueue, loop, work, outcome
<1>2. ASSUME Start(c) \/ CutOff(c) \/ Exit(c) \/ Shutdown(c) PROVE DispatchTypeOK'
    <2>1. mode' \in [Consumer -> Mode]
        BY <1>2 DEF Start, CutOff, Exit, Shutdown, Mode
    <2>2. /\ batch' \in [Consumer -> SUBSET Entry] /\ seen' \in [Consumer -> SUBSET Consumer]
          /\ cursor' \in [Consumer -> 0..MaxEntries]
        <3>1. \/ UNCHANGED <<batch, seen>>
              \/ batch' = [batch EXCEPT ![c] = {}] /\ seen' = [seen EXCEPT ![c] = {}]
            BY <1>2 DEF Start, CutOff, Exit, Shutdown
        <3>2. cursor' = cursor \/ cursor' = [cursor EXCEPT ![c] = 0]
            BY <1>2 DEF Start, CutOff, Exit, Shutdown
        <3>3. batch' \in [Consumer -> SUBSET Entry]
            BY <3>1
        <3>4. seen' \in [Consumer -> SUBSET Consumer]
            BY <3>1
        <3>5. cursor' \in [Consumer -> 0..MaxEntries]
            BY <3>2
        <3> QED
            BY <3>3, <3>4, <3>5
    <2>3. UNCHANGED <<stream, work, outcome>>
        BY <1>2 DEF Start, CutOff, Exit, Shutdown
    <2> QED
        BY <2>1, <2>2, <2>3 DEF stream, work, outcome
<1>3. ASSUME Replay(c) PROVE DispatchTypeOK'
    <2> DEFINE own == {e \in Owed(c) : e > cursor[c]}
    <2>1. CASE \E R \in Firsts(own) :
                  /\ batch' = [batch EXCEPT ![c] = R]
                  /\ cursor' = [cursor EXCEPT ![c] = CHOOSE e \in R : \A f \in R : f <= e]
                  /\ mode' = mode
        <3>1. PICK R \in Firsts(own) :
                  /\ batch' = [batch EXCEPT ![c] = R]
                  /\ cursor' = [cursor EXCEPT ![c] = CHOOSE e \in R : \A f \in R : f <= e]
                  /\ mode' = mode
            BY <2>1
        <3>2. R \in SUBSET Entry /\ R \in SUBSET (0..MaxEntries) /\ R # {}
            BY DEF Firsts, Owed
        <3>3. (CHOOSE e \in R : \A f \in R : f <= e) \in R
            BY <3>2, GreatestExists
        <3> QED
            BY <1>3, <3>1, <3>2, <3>3 DEF Replay, Joins, work, outcome
    <2>2. CASE mode' = [mode EXCEPT ![c] = "run"] /\ UNCHANGED <<batch, cursor>>
        BY <1>3, <2>2 DEF Replay, Joins, work, outcome, Mode
    <2> QED
        BY <1>3, <2>1, <2>2 DEF Replay
<1>4. ASSUME ReadNew(c) PROVE DispatchTypeOK'
    <2>1. PICK last \in (taken + 1)..Len(entries) : taken' = last /\ Receive(c, (taken + 1)..last)
        BY <1>4 DEF ReadNew
    <2>2. batch' \in [Consumer -> SUBSET Entry]
        BY <1>0, <2>1
    <2>3. taken' \in 0..Len(entries)
        BY <2>1
    <2> QED
        BY <1>4, <2>2, <2>3 DEF ReadNew, Joins, work, outcome
<1>5. ASSUME Reclaim(c) PROVE DispatchTypeOK'
    <2>1. PICK R \in SUBSET Entry : /\ owner' = [e \in Entry |-> IF e \in R THEN c ELSE owner[e]]
                                    /\ Receive(c, R)
        BY <1>5 DEF Reclaim, Firsts, Overdue
    <2>2. batch' \in [Consumer -> SUBSET Entry] /\ owner' \in [Entry -> Consumer \cup {NoOne}]
        BY <1>0, <2>1
    <2> QED
        BY <1>5, <2>2 DEF Reclaim, Joins, work, outcome, Mode
<1>6. ASSUME Inspect(c) PROVE DispatchTypeOK'
    <2>1. PICK gone \in SUBSET Gone : /\ seen' = [seen EXCEPT ![c] = gone]
                                      /\ mode' = [mode EXCEPT ![c] = IF gone = {} THEN "run" ELSE "remove"]
        BY <1>6 DEF Inspect
    <2>2. gone \in SUBSET Consumer
        BY DEF Gone
    <2> QED
        BY <1>6, <2>1, <2>2 DEF Inspect, stream, work, outcome, Mode
<1>7. ASSUME Remove(c) PROVE DispatchTypeOK'
    <2>1. PICK d \in seen[c] :
            /\ owner' = [e \in Entry |-> IF owner[e] = d THEN NoOne ELSE owner[e]]
            /\ known' = known \ {d}
            /\ seen' = [seen EXCEPT ![c] = @ \ {d}]
            /\ mode' = [mode EXCEPT ![c] = IF seen[c] = {d} THEN "run" ELSE @]
        BY <1>7 DEF Remove
    <2> QED
        BY <1>7, <2>1 DEF Remove, work, outcome, Mode
<1>8. ASSUME Hand(c) PROVE DispatchTypeOK'
    <2>1. PICK e \in batch[c], s \in Slot : /\ job' = [job EXCEPT ![<<c, s>>] = e]
                                            /\ batch' = [batch EXCEPT ![c] = @ \ {e}]
        BY <1>8 DEF Hand
    <2> QED
        BY <1>8, <2>1 DEF Hand, stream, outcome
<1>9. ASSUME Crash(c) PROVE DispatchTypeOK'
    <2>1. \A s \in Slot : Acking(c, s) => job[<<c, s>>] \in Entry
        BY DEF Acking, Working
    <2>2. unacked' \subseteq Entry
        <3>1. {job[<<c, s>>] : s \in {x \in Slot : Acking(c, x)}} \subseteq Entry
            BY ONLY <2>1
        <3> QED
            BY <1>9, <3>1 DEF Crash
    <2>3. /\ batch' \in [Consumer -> SUBSET Entry] /\ seen' \in [Consumer -> SUBSET Consumer]
          /\ mode' \in [Consumer -> Mode]
        BY <1>9 DEF Crash, Mode
    <2>4. job' \in [Consumer \X Slot -> 0..MaxEntries] /\ failed' \in [Consumer \X Slot -> 0..Attempts]
        BY <1>9 DEF Crash
    <2>5. UNCHANGED <<entries, taken, owner, known, acked, cursor, accepted, spent>>
        BY <1>9 DEF Crash, stream
    <2> QED
        BY <2>2, <2>3, <2>4, <2>5
<1>10. ASSUME NEW s \in Slot, WorkStep(c, s) PROVE DispatchTypeOK'
    <2> DEFINE at == <<c, s>>
    <2>0. at \in Consumer \X Slot /\ job[at] \in Entry
        BY <1>10 DEF WorkStep, Accept, Refuse, Abort, Ack, Posting, Acking, Working
    <2>1. CASE Accept(c, s)
        <3>1. accepted' \in [Entry -> 0..2]
            BY <2>0, <2>1, CountUp DEF Accept
        <3>2. failed' \in [Consumer \X Slot -> 0..Attempts]
            BY <2>0, <2>1 DEF Accept
        <3>3. UNCHANGED <<entries, taken, owner, known, acked, mode, cursor, batch, seen, job, spent, unacked>>
            BY <2>1 DEF Accept, stream, loop
        <3> QED
            BY <3>1, <3>2, <3>3
    <2>2. CASE Refuse(c, s)
        <3>1. failed' \in [Consumer \X Slot -> 0..Attempts]
            BY <2>0, <2>2 DEF Refuse, Posting
        <3>2. spent' \subseteq Entry
            BY <2>0, <2>2 DEF Refuse
        <3> QED
            BY <2>2, <3>1, <3>2 DEF Refuse, stream, loop
    <2>3. CASE Abort(c, s)
        BY <2>0, <2>3 DEF Abort, Free, stream, loop, outcome
    <2>4. CASE Ack(c, s)
        <3>1. job' \in [Consumer \X Slot -> 0..MaxEntries] /\ failed' \in [Consumer \X Slot -> 0..Attempts]
            BY <2>0, <2>4 DEF Ack, Free
        <3>2. owner' \in [Entry -> Consumer \cup {NoOne}] /\ acked' \subseteq Entry /\ unacked' \subseteq Entry
            BY <2>0, <2>4 DEF Ack
        <3>3. UNCHANGED <<entries, taken, known, mode, cursor, batch, seen, accepted, spent>>
            BY <2>4 DEF Ack, loop
        <3> QED
            BY <3>1, <3>2, <3>3
    <2> QED
        BY <1>10, <2>1, <2>2, <2>3, <2>4 DEF WorkStep
<1> QED
    BY <1>1, <1>2, <1>3, <1>4, <1>5, <1>6, <1>7, <1>8, <1>9, <1>10 DEF LoopStep


\* No process and no worker has the entry.
Unheld(e) ==
    /\ \A c \in Consumer : e \notin batch[c]
    /\ \A p \in Place : job[p] # e

(* What a reclaim takes over is held by nobody, as long as a delivery does *)
(* not outlast visibilityTimeout.                                          *)
LEMMA OverdueIsUnheld ==
    ASSUME ~Slow, NEW e \in Overdue
    PROVE  e \in Entry /\ owner[e] # NoOne /\ Unheld(e)
<1>1. e \in Entry /\ owner[e] # NoOne /\ \A c \in Consumer : e \notin Held(c)
    BY DEF Overdue
<1>2. \A c \in Consumer : e \notin batch[c]
    BY <1>1 DEF Held
<1>3. ASSUME NEW p \in Place, job[p] = e PROVE FALSE
    <2>1. PICK c \in Consumer, s \in Slot : p = <<c, s>>
        BY DEF Place
    <2>2. e # 0
        BY <1>1, DispatcherConstants DEF Entry
    <2>3. e \in {job[<<c, x>>] : x \in Slot} \ {0}
        BY <1>3, <2>1, <2>2
    <2> QED
        BY <1>1, <2>3 DEF Held
<1> QED
    BY <1>1, <1>2, <1>3 DEF Unheld

(* A process is given entries that nobody has: read, taken over, replayed. *)
LEMMA HandedOut ==
    ASSUME OnceInv, NEW c \in Consumer, NEW R \in SUBSET Entry,
           \A e \in R : Unheld(e) /\ owner'[e] = c /\ e <= taken' /\ (Ended(e) => e \in unacked),
           \A e \in Entry \ R : owner'[e] = owner[e],
           batch[c] = {}, batch' = batch \/ batch' = [batch EXCEPT ![c] = R],
           taken' \in Nat, taken <= taken', UNCHANGED <<job, failed, accepted, spent, unacked>>
    PROVE  OneHolder' /\ HoldersOwe' /\ EndedRests'
<1>0. /\ DispatchTypeOK /\ OneHolder /\ HoldersOwe /\ EndedRests
      /\ \A e \in Entry : e \in Nat /\ e # 0
    BY DispatcherConstants DEF OnceInv, Entry
<1>1. taken \in Nat
    BY <1>0 DEF DispatchTypeOK
<1>2. \A d \in Consumer : batch'[d] = batch[d] \/ (d = c /\ batch'[d] = R)
    BY <1>0 DEF DispatchTypeOK
<1>3. \A d \in Consumer : batch[d] \in SUBSET Entry
    BY <1>0 DEF DispatchTypeOK
<1>4. \A p \in Place : job[p] # 0 => job[p] \in Entry
    BY <1>0, DispatcherConstants DEF DispatchTypeOK, Place, Entry
<1>5. OneHolder'
    BY <1>0, <1>2, <1>3 DEF OneHolder, Unheld
<1>6. HoldersOwe'
    <2>1. \A e \in Entry : owner'[e] # NoOne \/ Ended(e)' => e <= taken'
        <3>1. ASSUME NEW e \in Entry, owner'[e] # NoOne \/ Ended(e) PROVE e <= taken'
            <4>1. CASE e \in R
                BY <4>1
            <4>2. CASE e \notin R
                <5>1. e <= taken
                    BY <1>0, <3>1, <4>2 DEF HoldersOwe
                <5> QED
                    BY <1>0, <1>1, <5>1
            <4> QED
                BY <4>1, <4>2
        <3> QED
            BY <3>1
    <2>2. \A d \in Consumer, e \in Entry : e \in batch'[d] => owner'[e] \in {d, NoOne} /\ e <= taken'
        <3>1. ASSUME NEW d \in Consumer, NEW e \in Entry, e \in batch'[d]
              PROVE  owner'[e] \in {d, NoOne} /\ e <= taken'
            <4>1. CASE e \in R
                <5>1. d = c
                    BY <1>2, <3>1, <4>1 DEF Unheld
                <5> QED
                    BY <4>1, <5>1
            <4>2. CASE e \notin R
                <5>1. e \in batch[d]
                    BY <1>2, <3>1, <4>2
                <5>2. owner[e] \in {d, NoOne} /\ e <= taken
                    BY <1>0, <5>1 DEF HoldersOwe
                <5> QED
                    BY <1>0, <1>1, <4>2, <5>2
            <4> QED
                BY <4>1, <4>2
        <3> QED
            BY <3>1
    <2>3. \A p \in Place : job'[p] # 0 => owner'[job'[p]] \in {p[1], NoOne} /\ job'[p] <= taken'
        <3>1. ASSUME NEW p \in Place, job[p] # 0 PROVE owner'[job[p]] \in {p[1], NoOne} /\ job[p] <= taken'
            <4>1. job[p] \in Entry \ R
                BY <1>4, <3>1 DEF Unheld
            <4>2. owner[job[p]] \in {p[1], NoOne} /\ job[p] <= taken
                BY <1>0, <3>1 DEF HoldersOwe
            <4> QED
                BY <1>0, <1>1, <4>1, <4>2
        <3> QED
            BY <3>1
    <2> QED
        BY <2>1, <2>2, <2>3 DEF HoldersOwe
<1>7. EndedRests'
    <2>1. ASSUME NEW e \in Entry \ unacked, Ended(e)
          PROVE  /\ accepted[e] <= 1
                 /\ \A d \in Consumer : e \notin batch'[d]
                 /\ \A p \in Place : job[p] = e => failed[p] = Attempts
                 /\ owner'[e] = NoOne \/ \E p \in Place : job[p] = e
        <3>1. e \notin R
            BY <2>1
        <3>2. /\ accepted[e] <= 1
              /\ \A d \in Consumer : e \notin batch[d]
              /\ \A p \in Place : job[p] = e => failed[p] = Attempts
              /\ owner[e] = NoOne \/ \E p \in Place : job[p] = e
            BY <1>0, <2>1 DEF EndedRests
        <3> QED
            BY <1>2, <3>1, <3>2
    <2> QED
        BY <2>1 DEF EndedRests
<1> QED
    BY <1>5, <1>6, <1>7

(* A process lets go of entries, or the stream of what a process owes.     *)
LEMMA LetGo ==
    ASSUME OnceInv, \A c \in Consumer : batch'[c] \in SUBSET batch[c],
           \A e \in Entry : owner'[e] \in {owner[e], NoOne},
           UNCHANGED <<taken, job, failed, accepted, spent, unacked>>
    PROVE  OneHolder' /\ HoldersOwe' /\ EndedRests'
<1>0. OneHolder /\ HoldersOwe /\ EndedRests /\ DispatchTypeOK
    BY DEF OnceInv
<1>1. \A p \in Place : job[p] # 0 => job[p] \in Entry
    BY <1>0, DispatcherConstants DEF DispatchTypeOK, Place, Entry
<1>2. OneHolder'
    BY <1>0 DEF OneHolder
<1>3. HoldersOwe'
    <2>1. \A e \in Entry : owner'[e] # NoOne \/ Ended(e) => e <= taken
        BY <1>0 DEF HoldersOwe
    <2>2. \A c \in Consumer, e \in Entry : e \in batch'[c] => owner'[e] \in {c, NoOne} /\ e <= taken
        BY <1>0 DEF HoldersOwe
    <2>3. \A p \in Place : job[p] # 0 => owner'[job[p]] \in {p[1], NoOne} /\ job[p] <= taken
        BY <1>0, <1>1 DEF HoldersOwe
    <2> QED
        BY <2>1, <2>2, <2>3 DEF HoldersOwe
<1>4. EndedRests'
    BY <1>0 DEF EndedRests
<1> QED
    BY <1>2, <1>3, <1>4


(* The steps of the loop that hand nothing out.                            *)
LEMMA OnceLoopSteps ==
    ASSUME OnceInv, NEW c \in Consumer,
           Start(c) \/ Inspect(c) \/ Remove(c) \/ Shutdown(c) \/ CutOff(c) \/ Exit(c)
    PROVE  OneHolder' /\ HoldersOwe' /\ LoopsHold' /\ EndedRests'
<1>0. DispatchTypeOK /\ LoopsHold
    BY DEF OnceInv
<1>1. /\ UNCHANGED <<taken, job, failed, accepted, spent, unacked>>
      /\ batch' = batch \/ batch' = [batch EXCEPT ![c] = {}]
    BY DEF Start, Inspect, Remove, Shutdown, CutOff, Exit, stream, loop, work, outcome
<1>2. \A d \in Consumer : batch'[d] \in SUBSET batch[d]
    BY <1>0, <1>1 DEF DispatchTypeOK
<1>3. \A e \in Entry : owner'[e] \in {owner[e], NoOne}
    <2>1. CASE Remove(c)
        BY <2>1 DEF Remove
    <2>2. CASE ~Remove(c)
        BY <2>2 DEF Start, Inspect, Shutdown, CutOff, Exit, stream
    <2> QED
        BY <2>1, <2>2
<1>4. LoopsHold'
    <2>1. CASE Start(c)
        <3>1. /\ mode' = [mode EXCEPT ![c] = "replay"] /\ batch' = batch /\ mode[c] = "down"
              /\ cursor' = [cursor EXCEPT ![c] = 0]
            BY <2>1 DEF Start
        <3>2. batch[c] = {} /\ \A s \in Slot : job[<<c, s>>] = 0
            BY <1>0, <3>1 DEF LoopsHold
        <3>3. \A d \in Consumer : d # c => mode'[d] = mode[d] /\ cursor'[d] = cursor[d]
            BY <1>0, <3>1 DEF DispatchTypeOK
        <3>4. mode'[c] = "replay" /\ cursor'[c] = 0
            BY <1>0, <3>1 DEF DispatchTypeOK
        <3> QED
            BY <1>0, <1>1, <3>1, <3>2, <3>3, <3>4 DEF LoopsHold
    <2>2. CASE Inspect(c) \/ Remove(c)
        <3>1. /\ mode'[c] \in {"inspect", "remove", "run"} /\ \A d \in Consumer : d # c => mode'[d] = mode[d]
              /\ batch' = batch /\ cursor' = cursor
            BY <1>0, <2>2 DEF Inspect, Remove, DispatchTypeOK
        <3> QED
            BY <1>0, <1>1, <3>1 DEF LoopsHold
    <2>3. CASE Shutdown(c)
        <3>1. /\ mode'[c] = "drain" /\ batch'[c] = {} /\ cursor' = cursor
              /\ \A d \in Consumer : d # c => mode'[d] = mode[d] /\ batch'[d] = batch[d]
            BY <1>0, <2>3 DEF Shutdown, DispatchTypeOK
        <3> QED
            BY <1>0, <1>1, <3>1 DEF LoopsHold
    <2>4. CASE CutOff(c)
        <3>1. /\ mode'[c] = "cut" /\ mode[c] = "drain" /\ batch' = batch /\ cursor' = cursor
              /\ \A d \in Consumer : d # c => mode'[d] = mode[d]
            BY <1>0, <2>4 DEF CutOff, DispatchTypeOK
        <3> QED
            BY <1>0, <1>1, <3>1 DEF LoopsHold
    <2>5. CASE Exit(c)
        <3>1. /\ mode'[c] = "down" /\ mode[c] \in {"drain", "cut"} /\ batch' = batch /\ cursor' = cursor
              /\ \A d \in Consumer : d # c => mode'[d] = mode[d]
              /\ \A s \in Slot : job[<<c, s>>] = 0
            BY <1>0, <2>5 DEF Exit, DispatchTypeOK, Working
        <3> QED
            BY <1>0, <1>1, <3>1 DEF LoopsHold
    <2> QED
        BY <2>1, <2>2, <2>3, <2>4, <2>5
<1> QED
    BY <1>1, <1>2, <1>3, <1>4, LetGo

(* Entries are read, taken over or replayed: nobody had them.              *)
LEMMA OnceStreamSteps ==
    ASSUME ~Slow, OnceInv, NEW c \in Consumer, ReadNew(c) \/ Reclaim(c) \/ Replay(c)
    PROVE  OneHolder' /\ HoldersOwe' /\ LoopsHold' /\ EndedRests'
<1>0. /\ DispatchTypeOK /\ OneHolder /\ HoldersOwe /\ LoopsHold /\ EndedRests
      /\ taken \in Nat /\ \A e \in Entry : e \in Nat /\ e # 0
    BY DispatcherConstants DEF OnceInv, DispatchTypeOK, Entry
<1>1. CASE ReadNew(c)
    <2>1. PICK last \in (taken + 1)..Len(entries) : taken' = last /\ Receive(c, (taken + 1)..last)
        BY <1>1 DEF ReadNew
    <2>2. last \in Nat /\ taken < last /\ Len(entries) <= MaxEntries /\ Len(entries) \in Nat /\ MaxEntries \in Nat
        BY <1>0, <2>1, DispatcherConstants DEF DispatchTypeOK
    <2> DEFINE R == (taken + 1)..last
    <2>3. R \in SUBSET Entry /\ \A e \in R : e > taken /\ e <= last
        BY <1>0, <2>2 DEF Entry
    <2>4. \A e \in Entry : owner'[e] = IF e \in R THEN c ELSE owner[e]
        <3>1. \A e \in Entry : owner'[e] = IF taken < e /\ e <= last THEN c ELSE owner[e]
            BY <1>1, <2>1 DEF ReadNew
        <3> QED
            BY <1>0, <2>2, <3>1
    <2>5. \A e \in R : Unheld(e) /\ ~Ended(e)
        <3>1. ASSUME NEW e \in R PROVE Unheld(e) /\ ~Ended(e)
            <4>1. e \in Entry /\ ~(e <= taken)
                BY <1>0, <2>3
            <4> QED
                BY <1>0, <4>1 DEF HoldersOwe, Unheld
        <3> QED
            BY <3>1
    <2>6. /\ batch[c] = {} /\ mode[c] = "run"
          /\ batch' = batch \/ batch' = [batch EXCEPT ![c] = R]
          /\ UNCHANGED <<mode, cursor, job, failed, accepted, spent, unacked>>
        BY <1>1, <2>1 DEF ReadNew, Receive, work, outcome
    <2> HIDE DEF R
    <2>7. LoopsHold'
        <3>1. \A d \in Consumer : d # c => batch'[d] = batch[d]
            BY <1>0, <2>6 DEF DispatchTypeOK
        <3> QED
            BY <1>0, <2>6, <3>1 DEF LoopsHold
    <2>8. \A e \in R : Unheld(e) /\ owner'[e] = c /\ e <= taken' /\ (Ended(e) => e \in unacked)
        BY <2>1, <2>3, <2>4, <2>5
    <2>9. \A e \in Entry \ R : owner'[e] = owner[e]
        BY <2>4
    <2>10. taken' \in Nat /\ taken <= taken'
        BY <1>0, <2>1, <2>2
    <2> QED
        BY <2>3, <2>6, <2>7, <2>8, <2>9, <2>10, HandedOut
<1>2. CASE Reclaim(c)
    <2>1. PICK R \in SUBSET Entry :
            /\ R \subseteq Overdue
            /\ owner' = [e \in Entry |-> IF e \in R THEN c ELSE owner[e]]
            /\ Receive(c, R)
        BY <1>2 DEF Reclaim, Firsts, Overdue
    <2>2. \A e \in R : Unheld(e) /\ owner[e] # NoOne
        BY <2>1, OverdueIsUnheld
    <2>3. \A e \in R : e <= taken /\ (Ended(e) => e \in unacked)
        BY <1>0, <2>2 DEF HoldersOwe, EndedRests, Unheld
    <2>4. /\ batch[c] = {} /\ mode[c] = "run" /\ mode' = [mode EXCEPT ![c] = "inspect"]
          /\ batch' = batch \/ batch' = [batch EXCEPT ![c] = R]
          /\ UNCHANGED <<taken, cursor, job, failed, accepted, spent, unacked>>
        BY <1>2, <2>1 DEF Reclaim, Receive, work, outcome
    <2>5. LoopsHold'
        <3>1. mode'[c] = "inspect" /\ \A d \in Consumer : d # c => batch'[d] = batch[d] /\ mode'[d] = mode[d]
            BY <1>0, <2>4 DEF DispatchTypeOK
        <3> QED
            BY <1>0, <2>4, <3>1 DEF LoopsHold
    <2>6. \A e \in R : Unheld(e) /\ owner'[e] = c /\ e <= taken' /\ (Ended(e) => e \in unacked)
        BY <2>1, <2>2, <2>3, <2>4
    <2>7. \A e \in Entry \ R : owner'[e] = owner[e]
        BY <2>1
    <2>8. taken' \in Nat /\ taken <= taken'
        BY <1>0, <2>4
    <2> QED
        BY <2>4, <2>5, <2>6, <2>7, <2>8, HandedOut
<1>3. CASE Replay(c)
    <2> DEFINE own == {e \in Owed(c) : e > cursor[c]}
    <2>0. /\ mode[c] = "replay" /\ batch[c] = {} /\ owner' = owner
          /\ UNCHANGED <<taken, job, failed, accepted, spent, unacked>>
        BY <1>3 DEF Replay, work, outcome
    <2>1. CASE mode' = [mode EXCEPT ![c] = "run"] /\ UNCHANGED <<batch, cursor>>
        <3>1. mode'[c] = "run" /\ \A d \in Consumer : d # c => mode'[d] = mode[d]
            BY <1>0, <2>1 DEF DispatchTypeOK
        <3>2. LoopsHold'
            BY <1>0, <2>0, <2>1, <3>1 DEF LoopsHold
        <3>3. /\ \A d \in Consumer : batch'[d] \in SUBSET batch[d]
              /\ \A e \in Entry : owner'[e] \in {owner[e], NoOne}
            BY <2>0, <2>1
        <3> QED
            BY <2>0, <3>2, <3>3, LetGo
    <2>2. CASE \E R \in Firsts(own) :
                  /\ batch' = [batch EXCEPT ![c] = R]
                  /\ cursor' = [cursor EXCEPT ![c] = CHOOSE e \in R : \A f \in R : f <= e]
                  /\ mode' = mode
        <3>1. PICK R \in Firsts(own) :
                  /\ batch' = [batch EXCEPT ![c] = R]
                  /\ cursor' = [cursor EXCEPT ![c] = CHOOSE e \in R : \A f \in R : f <= e]
                  /\ mode' = mode
            BY <2>2
        <3>2. /\ R \in SUBSET Entry /\ R \in SUBSET (0..MaxEntries) /\ R # {}
              /\ \A e \in R : owner[e] = c /\ e > cursor[c]
            BY DispatcherConstants DEF Firsts, Owed, Entry
        <3> DEFINE top == CHOOSE e \in R : \A f \in R : f <= e
        <3>3. top \in R /\ \A f \in R : f <= top
            BY <3>2, GreatestExists, DispatcherConstants
        <3> HIDE DEF top
        <3>4. \A d \in Consumer : IF d = c THEN batch'[d] = R /\ cursor'[d] = top
                                  ELSE batch'[d] = batch[d] /\ cursor'[d] = cursor[d]
            BY <1>0, <3>1 DEF DispatchTypeOK, top
        <3>5. cursor[c] \in Nat /\ top \in Nat /\ top > cursor[c]
            BY <1>0, <3>2, <3>3 DEF DispatchTypeOK
        <3>6. \A p \in Place : job[p] \in Nat
            BY <1>0, DispatcherConstants DEF DispatchTypeOK, Place
        <3>7. \A s \in Slot : job[<<c, s>>] \in Nat /\ job[<<c, s>>] <= cursor[c]
            BY <1>0, <2>0, <3>6 DEF LoopsHold, Place
        <3>8. LoopsHold'
            <4>1. \A s \in Slot : job[<<c, s>>] <= top
                BY <3>5, <3>7
            <4> QED
                BY <1>0, <2>0, <3>1, <3>3, <3>4, <4>1 DEF LoopsHold
        <3>9. \A e \in R : Unheld(e)
            <4>1. ASSUME NEW e \in R, NEW d \in Consumer, e \in batch[d] PROVE FALSE
                BY <1>0, <2>0, <3>2, <4>1, DispatcherConstants DEF HoldersOwe
            <4>2. ASSUME NEW e \in R, NEW p \in Place, job[p] = e PROVE FALSE
                <5>1. e \in Nat /\ e # 0 /\ owner[e] = c /\ e > cursor[c]
                    BY <1>0, <3>2
                <5>2. c = p[1]
                    BY <1>0, <4>2, <5>1, DispatcherConstants DEF HoldersOwe
                <5>3. PICK s \in Slot : p = <<c, s>>
                    BY <5>2 DEF Place
                <5> QED
                    BY <3>5, <3>7, <4>2, <5>1, <5>3
            <4> QED
                BY <4>1, <4>2 DEF Unheld
        <3>10. \A e \in R : e <= taken /\ (Ended(e) => e \in unacked)
            BY <1>0, <3>2, <3>9, DispatcherConstants DEF HoldersOwe, EndedRests, Unheld
        <3>11. \A e \in R : Unheld(e) /\ owner'[e] = c /\ e <= taken' /\ (Ended(e) => e \in unacked)
            BY <2>0, <3>2, <3>9, <3>10
        <3>12. /\ \A e \in Entry \ R : owner'[e] = owner[e]
               /\ taken' \in Nat /\ taken <= taken'
            BY <1>0, <2>0
        <3> QED
            BY <2>0, <3>1, <3>2, <3>8, <3>11, <3>12, HandedOut
    <2> QED
        BY <1>3, <2>1, <2>2 DEF Replay
<1> QED
    BY <1>1, <1>2, <1>3

(* An entry is added, or waits no longer: a worker takes it.               *)
LEMMA OnceHandSteps ==
    ASSUME OnceInv
    PROVE  /\ \A d \in Delivery : Enqueue(d) => OneHolder' /\ HoldersOwe' /\ LoopsHold' /\ EndedRests'
           /\ \A c \in Consumer : Hand(c) => OneHolder' /\ HoldersOwe' /\ LoopsHold' /\ EndedRests'
<1>0. /\ DispatchTypeOK /\ OneHolder /\ HoldersOwe /\ LoopsHold /\ EndedRests
      /\ \A e \in Entry : e \in Nat /\ e # 0
    BY DispatcherConstants DEF OnceInv, Entry
<1>1. ASSUME NEW d \in Delivery, Enqueue(d)
      PROVE  OneHolder' /\ HoldersOwe' /\ LoopsHold' /\ EndedRests'
    <2>1. UNCHANGED <<taken, owner, mode, cursor, batch, job, failed, accepted, spent, unacked>>
        BY <1>1 DEF Enqueue, loop, work, outcome
    <2> QED
        BY <1>0, <2>1 DEF OneHolder, HoldersOwe, LoopsHold, EndedRests
<1>2. ASSUME NEW c \in Consumer, Hand(c)
      PROVE  OneHolder' /\ HoldersOwe' /\ LoopsHold' /\ EndedRests'
    <2>1. PICK e \in batch[c], s \in Slot :
            /\ job[<<c, s>>] = 0
            /\ job' = [job EXCEPT ![<<c, s>>] = e]
            /\ batch' = [batch EXCEPT ![c] = @ \ {e}]
        BY <1>2 DEF Hand
    <2> DEFINE at == <<c, s>>
    <2>2. at \in Place /\ at[1] = c /\ e \in Entry /\ e \in batch[c] /\ job[at] = 0
        BY <1>0, <2>1 DEF Place, DispatchTypeOK
    <2>3. \A d \in Consumer : batch'[d] = IF d = c THEN batch[d] \ {e} ELSE batch[d]
        BY <1>0, <2>1 DEF DispatchTypeOK
    <2>4. \A p \in Place : job'[p] = IF p = at THEN e ELSE job[p]
        BY <1>0, <2>1 DEF DispatchTypeOK, Place
    <2>5. /\ mode[c] \in {"replay", "run"}
          /\ UNCHANGED <<taken, owner, mode, cursor, failed, accepted, spent, unacked>>
        BY <1>2 DEF Hand, stream, outcome
    <2>6. \A d \in Consumer, t \in Slot : <<d, t>> \in Place /\ (<<d, t>> = at => d = c)
        BY DEF Place
    <2> HIDE DEF at
    <2>7. OneHolder'
        <3>1. \A d \in Consumer, f \in Entry : f \in batch'[d] => f \in batch[d] /\ f # e
            BY <1>0, <2>2, <2>3 DEF OneHolder
        <3>2. \A d \in Consumer : batch'[d] \in SUBSET Entry
            BY <1>0, <2>3 DEF DispatchTypeOK
        <3>3. \A d \in Consumer, p \in Place : job'[p] \notin batch'[d]
            BY <1>0, <2>4, <3>1, <3>2 DEF OneHolder
        <3>4. \A p \in Place : job[p] # e
            BY <1>0, <2>2 DEF OneHolder
        <3>5. \A p, q \in Place : job'[p] # 0 /\ job'[p] = job'[q] => p = q
            BY <1>0, <2>2, <2>4, <3>4 DEF OneHolder
        <3>6. \A b, d \in Consumer, f \in Entry : f \in batch'[b] /\ f \in batch'[d] => b = d
            BY <1>0, <3>1 DEF OneHolder
        <3> QED
            BY <3>3, <3>5, <3>6 DEF OneHolder
    <2>8. HoldersOwe'
        <3>1. owner[e] \in {c, NoOne} /\ e <= taken
            BY <1>0, <2>2 DEF HoldersOwe
        <3>2. \A p \in Place : job'[p] # 0 => owner[job'[p]] \in {p[1], NoOne} /\ job'[p] <= taken
            BY <1>0, <2>2, <2>4, <3>1 DEF HoldersOwe
        <3> QED
            BY <1>0, <2>3, <2>5, <3>2 DEF HoldersOwe
    <2>9. LoopsHold'
        <3>1. ASSUME NEW d \in Consumer, d # c
              PROVE  batch'[d] = batch[d] /\ \A t \in Slot : job'[<<d, t>>] = job[<<d, t>>]
            BY <2>3, <2>4, <2>6, <3>1
        <3>2. mode[c] = "replay" =>
                /\ \A f \in batch'[c] : f <= cursor[c]
                /\ \A t \in Slot : job'[<<c, t>>] <= cursor[c]
            <4>1. ASSUME mode[c] = "replay", NEW t \in Slot PROVE job'[<<c, t>>] <= cursor[c]
                <5>1. job[<<c, t>>] <= cursor[c] /\ e <= cursor[c]
                    BY <1>0, <2>2, <4>1 DEF LoopsHold
                <5> QED
                    BY <2>4, <2>6, <5>1
            <4>2. \A f \in batch'[c] : f \in batch[c]
                BY <2>3
            <4> QED
                BY <1>0, <4>1, <4>2 DEF LoopsHold
        <3> QED
            BY <1>0, <2>5, <3>1, <3>2 DEF LoopsHold
    <2>10. EndedRests'
        <3>1. ASSUME NEW f \in Entry \ unacked, Ended(f)
              PROVE  /\ accepted[f] <= 1
                     /\ \A d \in Consumer : f \notin batch'[d]
                     /\ \A p \in Place : job'[p] = f => failed[p] = Attempts
                     /\ owner[f] = NoOne \/ \E p \in Place : job'[p] = f
            <4>1. /\ accepted[f] <= 1
                  /\ \A d \in Consumer : f \notin batch[d]
                  /\ \A p \in Place : job[p] = f => failed[p] = Attempts
                  /\ owner[f] = NoOne \/ \E p \in Place : job[p] = f
                BY <1>0, <3>1 DEF EndedRests
            <4>2. f # e /\ f # 0
                BY <1>0, <2>2, <4>1
            <4>3. \A p \in Place : job'[p] = f <=> job[p] = f
                BY <2>2, <2>4, <4>2
            <4> QED
                BY <2>3, <4>1, <4>3
        <3> QED
            BY <2>5, <3>1 DEF EndedRests
    <2> QED
        BY <2>7, <2>8, <2>9, <2>10
<1> QED
    BY <1>1, <1>2

(* A process is killed: what its workers had not acknowledged yet is among *)
(* the entries whose end was kept from the stream.                         *)
LEMMA OnceCrash ==
    ASSUME OnceInv, NEW c \in Consumer, Crash(c)
    PROVE  OneHolder' /\ HoldersOwe' /\ LoopsHold' /\ EndedRests'
<1>0. /\ DispatchTypeOK /\ OneHolder /\ HoldersOwe /\ LoopsHold /\ EndedRests
      /\ \A e \in Entry : e \in Nat /\ e # 0
    BY DispatcherConstants DEF OnceInv, Entry
<1>1. /\ UNCHANGED <<taken, owner, cursor, accepted, spent>>
      /\ \A d \in Consumer : IF d = c THEN mode'[d] = "down" /\ batch'[d] = {}
                                      ELSE mode'[d] = mode[d] /\ batch'[d] = batch[d]
    BY <1>0 DEF Crash, stream, DispatchTypeOK
<1>2. \A p \in Place : IF p[1] = c THEN job'[p] = 0 /\ failed'[p] = 0
                                   ELSE job'[p] = job[p] /\ failed'[p] = failed[p]
    BY DEF Crash, Place
<1>3. \A d \in Consumer, t \in Slot : <<d, t>> \in Place /\ <<d, t>>[1] = d
    BY DEF Place
<1>4. /\ unacked \subseteq unacked'
      /\ \A t \in Slot : Acking(c, t) => job[<<c, t>>] \in unacked'
    BY DEF Crash
<1>5. OneHolder'
    <2>1. \A d \in Consumer, e \in Entry : e \in batch'[d] => e \in batch[d]
        BY <1>1
    <2>2. \A d \in Consumer, p \in Place : job'[p] \notin batch'[d]
        <3>1. ASSUME NEW d \in Consumer, NEW p \in Place, job'[p] \in batch'[d] PROVE FALSE
            <4>1. d # c /\ batch'[d] = batch[d]
                BY <1>1, <3>1
            <4>2. job'[p] # 0
                BY <1>0, <3>1, <4>1 DEF DispatchTypeOK
            <4>3. job'[p] = job[p]
                BY <1>2, <4>2
            <4> QED
                BY <1>0, <3>1, <4>1, <4>3 DEF OneHolder
        <3> QED
            BY <3>1
    <2>3. \A p, q \in Place : job'[p] # 0 /\ job'[p] = job'[q] => p = q
        BY <1>0, <1>2 DEF OneHolder
    <2> QED
        BY <1>0, <2>1, <2>2, <2>3 DEF OneHolder
<1>6. HoldersOwe'
    BY <1>0, <1>1, <1>2 DEF HoldersOwe
<1>7. LoopsHold'
    <2>1. ASSUME NEW d \in Consumer
          PROVE  /\ mode'[d] \in {"down", "drain", "cut"} => batch'[d] = {}
                 /\ mode'[d] = "down" => \A s \in Slot : job'[<<d, s>>] = 0
                 /\ mode'[d] = "replay" => /\ \A e \in batch'[d] : e <= cursor'[d]
                                           /\ \A s \in Slot : job'[<<d, s>>] <= cursor'[d]
        <3>1. CASE d = c
            BY <1>1, <1>2, <1>3, <3>1
        <3>2. CASE d # c
            <4>1. \A s \in Slot : job'[<<d, s>>] = job[<<d, s>>]
                BY <1>2, <1>3, <3>2
            <4>2. mode'[d] = mode[d] /\ batch'[d] = batch[d] /\ cursor'[d] = cursor[d]
                BY <1>1, <3>2
            <4> QED
                BY <1>0, <4>1, <4>2 DEF LoopsHold
        <3> QED
            BY <3>1, <3>2
    <2> QED
        BY <2>1 DEF LoopsHold
<1>8. EndedRests'
    <2>1. ASSUME NEW e \in Entry \ unacked', Ended(e)
          PROVE  /\ accepted[e] <= 1
                 /\ \A d \in Consumer : e \notin batch'[d]
                 /\ \A p \in Place : job'[p] = e => failed'[p] = Attempts
                 /\ owner[e] = NoOne \/ \E p \in Place : job'[p] = e
        <3>1. /\ accepted[e] <= 1
              /\ \A d \in Consumer : e \notin batch[d]
              /\ \A p \in Place : job[p] = e => failed[p] = Attempts
              /\ owner[e] = NoOne \/ \E p \in Place : job[p] = e
            BY <1>0, <1>4, <2>1 DEF EndedRests
        <3>2. e # 0
            BY <1>0
        <3>3. \A p \in Place : job[p] = e => job'[p] = e
            <4>1. ASSUME NEW p \in Place, job[p] = e, p[1] = c PROVE FALSE
                <5>1. PICK t \in Slot : p = <<c, t>>
                    BY <4>1 DEF Place
                <5>2. Acking(c, t)
                    BY <3>1, <3>2, <4>1, <5>1 DEF Acking, Working
                <5> QED
                    BY <1>4, <2>1, <4>1, <5>1, <5>2
            <4> QED
                BY <1>2, <4>1
        <3> QED
            BY <1>1, <1>2, <3>1, <3>2, <3>3
    <2> QED
        BY <1>1, <2>1 DEF EndedRests
<1> QED
    BY <1>5, <1>6, <1>7, <1>8

(* A worker has let go of its entry, which is pending still, or of which   *)
(* the stream has been told the end.                                       *)
LEMMA OnceFreed ==
    ASSUME OnceInv, NEW c \in Consumer, NEW s \in Slot, Free(c, s), job[<<c, s>>] # 0,
           UNCHANGED <<taken, mode, cursor, batch, accepted, spent>>,
           unacked \subseteq unacked', \A e \in Entry : owner'[e] \in {owner[e], NoOne},
           \/ job[<<c, s>>] \in unacked' \/ owner'[job[<<c, s>>]] = NoOne
           \/ failed[<<c, s>>] # Attempts
    PROVE  OneHolder' /\ HoldersOwe' /\ LoopsHold' /\ EndedRests'
<1> DEFINE at == <<c, s>>
<1>0. /\ DispatchTypeOK /\ OneHolder /\ HoldersOwe /\ LoopsHold /\ EndedRests
      /\ \A e \in Entry : e \in Nat /\ e # 0
    BY DispatcherConstants DEF OnceInv, Entry
<1>1. at \in Place /\ job[at] \in Entry /\ job[at] # 0
    BY <1>0, DispatcherConstants DEF Place, DispatchTypeOK, Entry
<1>2. \A p \in Place : IF p = at THEN job'[p] = 0 /\ failed'[p] = 0
                       ELSE job'[p] = job[p] /\ failed'[p] = failed[p]
    BY <1>0 DEF Free, DispatchTypeOK, Place
<1>3. \A d \in Consumer, t \in Slot : <<d, t>> \in Place
    BY DEF Place
<1>4. \A p \in Place : job[p] # 0 => job[p] \in Entry
    BY <1>0, DispatcherConstants DEF DispatchTypeOK, Place, Entry
<1>5. job[at] \in unacked' \/ owner'[job[at]] = NoOne \/ failed[at] # Attempts
    OBVIOUS
<1> HIDE DEF at
<1>6. OneHolder'
    <2>1. \A d \in Consumer : 0 \notin batch[d]
        BY <1>0 DEF DispatchTypeOK
    <2> QED
        BY <1>0, <1>2, <2>1 DEF OneHolder
<1>7. HoldersOwe'
    <2>1. \A e \in Entry : owner'[e] # NoOne \/ Ended(e) => e <= taken
        BY <1>0 DEF HoldersOwe
    <2>2. \A d \in Consumer, e \in Entry : e \in batch[d] => owner'[e] \in {d, NoOne} /\ e <= taken
        BY <1>0 DEF HoldersOwe
    <2>3. \A p \in Place : job'[p] # 0 => owner'[job'[p]] \in {p[1], NoOne} /\ job'[p] <= taken
        BY <1>0, <1>2, <1>4 DEF HoldersOwe
    <2> QED
        BY <2>1, <2>2, <2>3 DEF HoldersOwe
<1>8. LoopsHold'
    <2>1. ASSUME NEW d \in Consumer
          PROVE  /\ mode[d] = "down" => \A t \in Slot : job'[<<d, t>>] = 0
                 /\ mode[d] = "replay" => \A t \in Slot : job'[<<d, t>>] <= cursor[d]
        <3>1. cursor[d] \in Nat
            BY <1>0 DEF DispatchTypeOK
        <3> QED
            BY <1>0, <1>2, <1>3, <3>1 DEF LoopsHold
    <2> QED
        BY <1>0, <2>1 DEF LoopsHold
<1>9. EndedRests'
    <2>1. ASSUME NEW e \in Entry \ unacked', Ended(e)
          PROVE  /\ accepted[e] <= 1
                 /\ \A d \in Consumer : e \notin batch[d]
                 /\ \A p \in Place : job'[p] = e => failed'[p] = Attempts
                 /\ owner'[e] = NoOne \/ \E p \in Place : job'[p] = e
        <3>1. /\ accepted[e] <= 1
              /\ \A d \in Consumer : e \notin batch[d]
              /\ \A p \in Place : job[p] = e => failed[p] = Attempts
              /\ owner[e] = NoOne \/ \E p \in Place : job[p] = e
            BY <1>0, <2>1 DEF EndedRests
        <3>2. e # 0 /\ owner'[e] \in {owner[e], NoOne}
            BY <1>0
        <3>3. \A p \in Place : job'[p] = e => failed'[p] = Attempts
            BY <1>2, <3>1, <3>2
        <3>4. owner'[e] = NoOne \/ \E p \in Place : job'[p] = e
            <4>1. CASE job[at] = e
                BY <1>1, <1>5, <2>1, <3>1, <4>1
            <4>2. CASE job[at] # e
                BY <1>2, <3>1, <3>2, <4>2
            <4> QED
                BY <4>1, <4>2
        <3> QED
            BY <3>1, <3>3, <3>4
    <2> QED
        BY <2>1 DEF EndedRests
<1> QED
    BY <1>6, <1>7, <1>8, <1>9

(* A worker posts its entry, gives it up, lets it go or acknowledges it.   *)
LEMMA OnceWorkSteps ==
    ASSUME OnceInv, NEW c \in Consumer, NEW s \in Slot, WorkStep(c, s)
    PROVE  OneHolder' /\ HoldersOwe' /\ LoopsHold' /\ EndedRests'
<1> DEFINE at == <<c, s>>
<1>0. /\ DispatchTypeOK /\ OneHolder /\ HoldersOwe /\ LoopsHold /\ EndedRests
      /\ \A e \in Entry : e \in Nat /\ e # 0
    BY DispatcherConstants DEF OnceInv, Entry
<1>1. at \in Place /\ job[at] \in Entry /\ job[at] # 0
    BY <1>0, DispatcherConstants
    DEF Place, DispatchTypeOK, Entry, WorkStep, Accept, Refuse, Abort, Ack, Posting, Acking, Working
<1>2. ASSUME failed[at] # Attempts, Ended(job[at]) PROVE job[at] \in unacked
    BY <1>0, <1>1, <1>2 DEF EndedRests
<1>3. CASE Accept(c, s)
    <2>1. /\ UNCHANGED <<taken, owner, mode, cursor, batch, job, spent, unacked>>
          /\ failed[at] < Attempts
        BY <1>3 DEF Accept, Posting, stream, loop
    <2>2. \A p \in Place : failed'[p] = IF p = at THEN Attempts ELSE failed[p]
        BY <1>0, <1>3 DEF Accept, DispatchTypeOK, Place
    <2>3. \A e \in Entry : accepted'[e] = IF e # job[at] THEN accepted[e]
                                          ELSE IF accepted[e] = 2 THEN 2 ELSE accepted[e] + 1
        BY <1>0, <1>3 DEF Accept, DispatchTypeOK
    <2>4. failed[at] # Attempts /\ accepted[job[at]] \in 0..2
        BY <1>0, <1>1, <2>1, DispatcherConstants DEF DispatchTypeOK, Place
    <2> HIDE DEF at
    <2>5. HoldersOwe'
        <3>1. \A e \in Entry : owner[e] # NoOne \/ Ended(e)' => e <= taken
            BY <1>0, <1>1, <2>1, <2>3 DEF HoldersOwe
        <3> QED
            BY <1>0, <2>1, <3>1 DEF HoldersOwe
    <2>6. EndedRests'
        <3>1. ASSUME NEW e \in Entry \ unacked, Ended(e)'
              PROVE  /\ accepted'[e] <= 1
                     /\ \A d \in Consumer : e \notin batch[d]
                     /\ \A p \in Place : job[p] = e => failed'[p] = Attempts
                     /\ owner[e] = NoOne \/ \E p \in Place : job[p] = e
            <4>1. CASE e = job[at]
                <5>1. accepted[e] = 0 /\ accepted'[e] <= 1
                    BY <1>2, <2>3, <2>4, <3>1, <4>1
                <5>2. \A p \in Place : job[p] = e => p = at
                    BY <1>0, <1>1, <4>1 DEF OneHolder
                <5> QED
                    BY <1>0, <1>1, <2>2, <4>1, <5>1, <5>2 DEF OneHolder
            <4>2. CASE e # job[at]
                BY <1>0, <2>1, <2>2, <2>3, <3>1, <4>2 DEF EndedRests
            <4> QED
                BY <4>1, <4>2
        <3> QED
            BY <2>1, <3>1 DEF EndedRests
    <2> QED
        BY <1>0, <2>1, <2>5, <2>6 DEF OneHolder, LoopsHold
<1>4. CASE Refuse(c, s)
    <2>1. /\ UNCHANGED <<taken, owner, mode, cursor, batch, job, accepted, unacked>>
          /\ failed[at] < Attempts
          /\ spent' = IF failed'[at] = Attempts THEN spent \cup {job[at]} ELSE spent
        BY <1>4 DEF Refuse, Posting, stream, loop
    <2>2. \A p \in Place : p # at => failed'[p] = failed[p]
        BY <1>0, <1>4 DEF Refuse, DispatchTypeOK, Place
    <2>3. failed[at] # Attempts
        BY <1>0, <1>1, <2>1, DispatcherConstants DEF DispatchTypeOK, Place
    <2> HIDE DEF at
    <2>4. HoldersOwe'
        <3>1. \A e \in Entry : owner[e] # NoOne \/ Ended(e)' => e <= taken
            BY <1>0, <1>1, <2>1 DEF HoldersOwe
        <3> QED
            BY <1>0, <2>1, <3>1 DEF HoldersOwe
    <2>5. EndedRests'
        <3>1. ASSUME NEW e \in Entry \ unacked, Ended(e)'
              PROVE  /\ accepted[e] <= 1
                     /\ \A d \in Consumer : e \notin batch[d]
                     /\ \A p \in Place : job[p] = e => failed'[p] = Attempts
                     /\ owner[e] = NoOne \/ \E p \in Place : job[p] = e
            <4>1. CASE e = job[at]
                <5>1. ~Ended(e) /\ accepted[e] <= 1 /\ failed'[at] = Attempts
                    <6>1. ~Ended(e)
                        BY <1>2, <2>3, <3>1, <4>1
                    <6>2. accepted[e] \in 0..2
                        BY <1>0 DEF DispatchTypeOK
                    <6> QED
                        BY <2>1, <3>1, <6>1, <6>2
                <5>2. \A p \in Place : job[p] = e => p = at
                    BY <1>0, <1>1, <4>1 DEF OneHolder
                <5> QED
                    BY <1>0, <1>1, <4>1, <5>1, <5>2 DEF OneHolder
            <4>2. CASE e # job[at]
                <5>1. Ended(e)
                    BY <2>1, <3>1, <4>2
                <5> QED
                    BY <1>0, <2>2, <4>2, <5>1 DEF EndedRests
            <4> QED
                BY <4>1, <4>2
        <3> QED
            BY <2>1, <3>1 DEF EndedRests
    <2> QED
        BY <1>0, <2>1, <2>4, <2>5 DEF OneHolder, LoopsHold
<1>5. CASE Abort(c, s)
    <2>1. /\ UNCHANGED <<taken, owner, mode, cursor, batch, accepted, spent, unacked>>
          /\ failed[at] < Attempts /\ Free(c, s)
        BY <1>5 DEF Abort, Posting, stream, loop, outcome
    <2>2. failed[at] # Attempts
        BY <1>0, <1>1, <2>1, DispatcherConstants DEF DispatchTypeOK, Place
    <2> QED
        BY <1>1, <2>1, <2>2, OnceFreed
<1>6. CASE Ack(c, s)
    <2>1. /\ UNCHANGED <<taken, mode, cursor, batch, accepted, spent>> /\ Free(c, s)
          /\ \/ owner' = [owner EXCEPT ![job[at]] = NoOne] /\ unacked' = unacked
             \/ owner' = owner /\ unacked' = unacked \cup {job[at]}
        BY <1>6 DEF Ack, loop
    <2>2. /\ unacked \subseteq unacked'
          /\ \A e \in Entry : owner'[e] \in {owner[e], NoOne}
          /\ job[at] \in unacked' \/ owner'[job[at]] = NoOne
        BY <1>0, <1>1, <2>1 DEF DispatchTypeOK
    <2> QED
        BY <1>1, <2>1, <2>2, OnceFreed
<1> QED
    BY <1>3, <1>4, <1>5, <1>6 DEF WorkStep

(* Nothing has been added and no process runs.                             *)
LEMMA OnceInitially == DispatchInit => OnceInv
<1> SUFFICES ASSUME DispatchInit PROVE OnceInv
    OBVIOUS
<1>1. <<>> \in Seq(Delivery) /\ Len(<<>>) = 0
    OBVIOUS
<1>2. DispatchTypeOK
    BY <1>1, DispatcherConstants DEF DispatchInit, DispatchTypeOK, Mode
<1>3. /\ \A e \in Entry : owner[e] = NoOne /\ ~Ended(e)
      /\ \A c \in Consumer : mode[c] = "down" /\ batch[c] = {} /\ cursor[c] = 0
      /\ \A p \in Place : job[p] = 0
      /\ \A c \in Consumer, s \in Slot : job[<<c, s>>] = 0
    BY DEF DispatchInit, Place
<1>4. OneHolder /\ HoldersOwe /\ LoopsHold /\ EndedRests
    BY <1>3 DEF OneHolder, HoldersOwe, LoopsHold, EndedRests
<1> QED
    BY <1>2, <1>4 DEF OnceInv

(* Every step keeps the types.                                             *)
LEMMA TypeStep ==
    ASSUME DispatchTypeOK, [DispatchNext]_dispatchVars
    PROVE  DispatchTypeOK'
<1>1. CASE DispatchNext
    <2>1. CASE \E c \in Consumer : LoopStep(c) \/ Shutdown(c) \/ Crash(c)
        BY <2>1, TypeSteps
    <2>2. CASE \E c \in Consumer, s \in Slot : WorkStep(c, s)
        BY <2>2, TypeSteps
    <2>3. CASE \E d \in Delivery : Enqueue(d)
        <3>1. CASE Consumer = {}
            <4>1. PICK d \in Delivery : Enqueue(d)
                BY <2>3
            <4>2. entries' \in Seq(Delivery) /\ Len(entries') = Len(entries) + 1
                BY <4>1 DEF Enqueue, DispatchTypeOK
            <4>3. UNCHANGED <<taken, loop, work, outcome, owner, known, acked>>
                BY <4>1 DEF Enqueue
            <4> QED
                BY <4>1, <4>2, <4>3, DispatcherConstants
                DEF DispatchTypeOK, loop, work, outcome, Enqueue
        <3>2. CASE Consumer # {}
            BY <2>3, <3>2, TypeSteps
        <3> QED
            BY <3>1, <3>2
    <2> QED
        BY <1>1, <2>1, <2>2, <2>3 DEF DispatchNext, Dispatch
<1>2. CASE UNCHANGED dispatchVars
    BY <1>2 DEF dispatchVars, DispatchTypeOK
<1> QED
    BY <1>1, <1>2

(* Every variable has its type in every state, whatever fails.             *)
THEOREM DispatcherTypes == DispatchSpec => []DispatchTypeOK
<1>1. DispatchInit => DispatchTypeOK
    BY OnceInitially DEF OnceInv
<1> QED
    BY <1>1, TypeStep, PTL DEF DispatchSpec

(* Every step keeps it, as long as no delivery outlasts the timeout after  *)
(* which another pod takes it over.                                        *)
LEMMA OnceStep ==
    ASSUME ~Slow, OnceInv, [DispatchNext]_dispatchVars
    PROVE  OnceInv'
<1>1. DispatchTypeOK'
    BY TypeStep DEF OnceInv
<1>2. CASE DispatchNext
    <2>1. ASSUME NEW c \in Consumer, LoopStep(c) \/ Shutdown(c) \/ Crash(c)
          PROVE  OneHolder' /\ HoldersOwe' /\ LoopsHold' /\ EndedRests'
        BY <2>1, OnceLoopSteps, OnceStreamSteps, OnceHandSteps, OnceCrash DEF LoopStep
    <2> QED
        BY <1>1, <1>2, <2>1, OnceWorkSteps, OnceHandSteps DEF DispatchNext, Dispatch, OnceInv
<1>3. CASE UNCHANGED dispatchVars
    BY <1>1, <1>3 DEF dispatchVars, OnceInv, OneHolder, HoldersOwe, LoopsHold, EndedRests
<1> QED
    BY <1>2, <1>3

(* An order webhook that its receiver has accepted is not posted again: no *)
(* read, reclaim, replay, shutdown or removed consumer repeats it, on any  *)
(* number of pods and workers; only a kill or a failed call of Redis       *)
(* between the answer and its acknowledgement does.                        *)
THEOREM DispatcherAcceptsOnce == ASSUME ~Slow PROVE DispatchSpec => []AcceptedOnce
<1>1. OnceInv /\ [DispatchNext]_dispatchVars => OnceInv'
    BY OnceStep
<1>2. OnceInv => AcceptedOnce
    <2>1. ASSUME OnceInv, NEW e \in Entry, accepted[e] > 1 PROVE e \in unacked
        <3>1. accepted[e] \in 0..2
            BY <2>1 DEF OnceInv, DispatchTypeOK
        <3> QED
            BY <2>1, <3>1 DEF OnceInv, EndedRests
    <2> QED
        BY <2>1 DEF AcceptedOnce
<1> QED
    BY OnceInitially, <1>1, <1>2, PTL DEF DispatchSpec

-----------------------------------------------------------------------------
(* DeliveryQueue.  What a process or a worker has is pending: nobody can   *)
(* take it from the stream but the one worker that has it.                 *)
HeldPending == \A e \in Entry : owner[e] = NoOne => Unheld(e)

DeliveryInv == QueueInv /\ OnceInv /\ HeldPending

(* Entries are handed to a process and are pending from then on; others    *)
(* may be let go of.                                                       *)
LEMMA HeldByOwners ==
    ASSUME HeldPending, NEW R \in SUBSET Entry,
           \A e \in R : owner'[e] # NoOne, \A e \in Entry \ R : owner'[e] = owner[e],
           \A c \in Consumer : batch'[c] \subseteq batch[c] \cup R,
           \A p \in Place : job'[p] \in {job[p], 0}
    PROVE  HeldPending'
<1>1. \A e \in Entry : e # 0
    BY DispatcherConstants DEF Entry
<1> QED
    BY <1>1 DEF HeldPending, Unheld

(* The steps of the loop and the ends of a process.                        *)
LEMMA HeldLoopSteps ==
    ASSUME ~Returns, DeliveryInv, NEW c \in Consumer, LoopStep(c) \/ Shutdown(c) \/ Crash(c)
    PROVE  HeldPending'
<1>0. DispatchTypeOK /\ OneHolder /\ HeldPending /\ RemovedOweNothing /\ c # NoOne
    BY DispatcherConstants DEF DeliveryInv, OnceInv, QueueInv
<1>1. CASE ReadNew(c) \/ Reclaim(c)
    <2>1. PICK R \in SUBSET Entry :
            /\ owner' = [e \in Entry |-> IF e \in R THEN c ELSE owner[e]]
            /\ Receive(c, R)
        <3>1. CASE ReadNew(c)
            <4>1. PICK last \in (taken + 1)..Len(entries) : taken' = last /\ Receive(c, (taken + 1)..last)
                BY <3>1 DEF ReadNew
            <4>2. /\ taken \in Nat /\ last \in Nat /\ last <= MaxEntries /\ taken < last
                  /\ MaxEntries \in Nat
                BY <1>0, <4>1, DispatcherConstants DEF DispatchTypeOK
            <4>3. (taken + 1)..last \in SUBSET Entry
                BY <4>2 DEF Entry
            <4>4. \A e \in Entry : taken < e /\ e <= last <=> e \in (taken + 1)..last
                BY <4>2 DEF Entry
            <4>5. owner' = [e \in Entry |-> IF e \in (taken + 1)..last THEN c ELSE owner[e]]
                BY <3>1, <4>1, <4>4 DEF ReadNew
            <4> QED
                BY <4>1, <4>3, <4>5
        <3>2. CASE Reclaim(c)
            BY <3>2 DEF Reclaim, Firsts, Overdue
        <3> QED
            BY <1>1, <3>1, <3>2
    <2>2. \A d \in Consumer : batch'[d] \subseteq batch[d] \cup R
        BY <1>0, <2>1 DEF Receive, DispatchTypeOK
    <2>3. job' = job
        BY <1>1 DEF ReadNew, Reclaim, work
    <2> QED
        BY <1>0, <2>1, <2>2, <2>3, HeldByOwners
<1>2. CASE Replay(c)
    <2>1. PICK R \in SUBSET Owed(c) : batch' = batch \/ batch' = [batch EXCEPT ![c] = R]
        BY <1>2 DEF Replay, Firsts
    <2>2. R \in SUBSET Entry /\ \A e \in R : owner[e] # NoOne
        BY <1>0 DEF Owed
    <2>3. owner' = owner /\ job' = job
        BY <1>2 DEF Replay, work
    <2>4. \A d \in Consumer : batch'[d] \subseteq batch[d] \cup R
        BY <1>0, <2>1 DEF DispatchTypeOK
    <2> QED
        BY <1>0, <2>2, <2>3, <2>4, HeldByOwners
<1>3. CASE Remove(c)
    <2>1. PICK d \in seen[c] : owner' = [e \in Entry |-> IF owner[e] = d THEN NoOne ELSE owner[e]]
        BY <1>3 DEF Remove
    <2>2. Owed(d) = {}
        BY <1>0 DEF RemovedOweNothing
    <2>3. \A e \in Entry : owner'[e] = owner[e]
        BY <2>1, <2>2 DEF Owed
    <2>4. batch' = batch /\ job' = job
        BY <1>3 DEF Remove, work
    <2> QED
        BY <1>0, <2>3, <2>4 DEF HeldPending, Unheld
<1>4. CASE Hand(c)
    <2>1. PICK e \in batch[c], s \in Slot :
            /\ job' = [job EXCEPT ![<<c, s>>] = e]
            /\ batch' = [batch EXCEPT ![c] = @ \ {e}]
        BY <1>4 DEF Hand
    <2>2. e \in Entry /\ owner[e] # NoOne
        BY <1>0 DEF DispatchTypeOK, HeldPending, Unheld
    <2>3. \A p \in Place : job'[p] \in {job[p], e}
        BY <1>0, <2>1 DEF DispatchTypeOK, Place
    <2>4. \A d \in Consumer : batch'[d] \subseteq batch[d]
        BY <1>0, <2>1 DEF DispatchTypeOK
    <2>5. owner' = owner
        BY <1>4 DEF Hand, stream
    <2> QED
        BY <1>0, <2>2, <2>3, <2>4, <2>5 DEF HeldPending, Unheld
<1>5. CASE Start(c) \/ Inspect(c) \/ CutOff(c) \/ Exit(c) \/ Shutdown(c) \/ Crash(c)
    <2>1. owner' = owner
        BY <1>5 DEF Start, Inspect, CutOff, Exit, Shutdown, Crash, stream
    <2>2. \A d \in Consumer : batch'[d] \subseteq batch[d]
        BY <1>0, <1>5 DEF Start, Inspect, CutOff, Exit, Shutdown, Crash, DispatchTypeOK
    <2>3. \A p \in Place : job'[p] \in {job[p], 0}
        BY <1>5 DEF Start, Inspect, CutOff, Exit, Shutdown, Crash, Place, work
    <2>4. \A e \in Entry : e # 0
        BY DispatcherConstants DEF Entry
    <2> QED
        BY <1>0, <2>1, <2>2, <2>3, <2>4 DEF HeldPending, Unheld
<1> QED
    BY <1>1, <1>2, <1>3, <1>4, <1>5 DEF LoopStep

(* Entries are added, posted and acknowledged.                             *)
LEMMA HeldWorkSteps ==
    ASSUME DeliveryInv
    PROVE  /\ \A d \in Delivery : Enqueue(d) => HeldPending'
           /\ \A c \in Consumer, s \in Slot : WorkStep(c, s) => HeldPending'
<1>0. /\ DispatchTypeOK /\ OneHolder /\ HeldPending /\ QueueType
      /\ \A e \in Entry : e # 0
    BY DispatcherConstants DEF DeliveryInv, OnceInv, QueueInv, Entry
<1>1. ASSUME NEW d \in Delivery, Enqueue(d) PROVE HeldPending'
    BY <1>0, <1>1 DEF Enqueue, loop, work, HeldPending, Unheld
<1>2. ASSUME NEW c \in Consumer, NEW s \in Slot, WorkStep(c, s) PROVE HeldPending'
    <2> DEFINE at == <<c, s>>
    <2>1. at \in Place /\ job[at] \in Entry
        BY <1>0, <1>2, JobIsEntry DEF Place, WorkStep, Accept, Refuse, Abort, Ack, Posting, Acking
    <2>2. batch' = batch /\ \A p \in Place : job'[p] = job[p] \/ (p = at /\ job'[p] = 0)
        BY <1>0, <1>2 DEF WorkStep, Accept, Refuse, Abort, Ack, Free, loop, DispatchTypeOK, Place
    <2>3. owner' = owner \/ (Ack(c, s) /\ owner' = [owner EXCEPT ![job[at]] = NoOne])
        BY <1>2 DEF WorkStep, Accept, Refuse, Abort, Ack, stream
    <2>4. CASE owner' = owner
        BY <1>0, <2>2, <2>4 DEF HeldPending, Unheld
    <2>5. CASE Ack(c, s) /\ owner' = [owner EXCEPT ![job[at]] = NoOne]
        <3>1. job'[at] = 0
            BY <1>0, <2>1, <2>5 DEF Ack, Free, DispatchTypeOK, Place
        <3>2. /\ \A e \in Entry : e # job[at] => owner'[e] = owner[e]
              /\ \A d \in Consumer : job[at] \notin batch[d]
              /\ \A p \in Place : job[p] = job[at] => p = at
            BY <1>0, <2>1, <2>5 DEF DispatchTypeOK, OneHolder
        <3> HIDE DEF at
        <3> QED
            BY <1>0, <2>1, <2>2, <3>1, <3>2 DEF HeldPending, Unheld
    <2> QED
        BY <2>3, <2>4, <2>5
<1> QED
    BY <1>1, <1>2

\* The variables of DeliveryQueue, as the stream and the histories have them.
queued == <<[e \in Entry |-> PlaceOf(e)], accepted, spent, unacked>>

(* Entries that stay with the group, whoever owes them, stay pending.      *)
LEMMA SamePlaces ==
    ASSUME UNCHANGED <<entries, taken, accepted, spent, unacked>>,
           \A e \in Entry : owner'[e] = NoOne <=> owner[e] = NoOne
    PROVE  UNCHANGED queued
BY DEF PlaceOf, queued

(* An entry that is added is the first that was not, and waits.            *)
LEMMA AddRefined ==
    ASSUME DeliveryInv, NEW d \in Delivery, Enqueue(d)
    PROVE  Queue!Add
<1> DEFINE new == Len(entries) + 1
           place == [e \in Entry |-> PlaceOf(e)]
<1>1. /\ entries \in Seq(Delivery) /\ Len(entries) \in Nat /\ taken \in Nat /\ taken <= Len(entries)
      /\ Len(entries) < MaxEntries /\ MaxEntries \in Nat
    BY DispatcherConstants DEF DeliveryInv, QueueInv, QueueType, Enqueue
<1>2. Len(entries') = new
    BY <1>1 DEF Enqueue
<1>3. new \in Entry /\ \A e \in Entry : e \in Nat
    BY <1>1 DEF Entry
<1>4. UNCHANGED <<taken, owner, accepted, spent, unacked>>
    BY DEF Enqueue, outcome
<1>5. \A e \in Entry : place[e] = "none" <=> e >= new
    BY <1>1, <1>3 DEF PlaceOf
<1>6. \A e \in Entry : PlaceOf(e)' = IF e = new THEN "waiting" ELSE place[e]
    BY <1>1, <1>2, <1>3, <1>4 DEF PlaceOf
<1>7. place' = [place EXCEPT ![new] = "waiting"]
    BY <1>6
<1>8. place[new] = "none" /\ \A f \in Entry : f < new => place[f] # "none"
    BY <1>1, <1>3, <1>5
<1> HIDE DEF new, place
<1>9. Entry = Queue!Entry
    BY DEF Entry, Queue!Entry
<1> QED
    BY <1>3, <1>4, <1>7, <1>8, <1>9 DEF Queue!Add, place

(* A read hands out the first entries that wait, whether its reply arrives *)
(* or not.                                                                 *)
LEMMA HandOutRefined ==
    ASSUME DeliveryInv, NEW c \in Consumer, ReadNew(c)
    PROVE  Queue!HandOut
<1> DEFINE place == [e \in Entry |-> PlaceOf(e)]
<1>1. PICK last \in (taken + 1)..Len(entries) :
        /\ taken' = last
        /\ owner' = [e \in Entry |-> IF taken < e /\ e <= last THEN c ELSE owner[e]]
    BY DEF ReadNew
<1>2. /\ Len(entries) \in Nat /\ taken \in Nat /\ last \in Nat /\ taken < last /\ last <= Len(entries)
      /\ Len(entries) <= MaxEntries /\ MaxEntries \in Nat /\ c # NoOne
      /\ \A e \in Entry : e \in Nat
    BY <1>1, DispatcherConstants DEF DeliveryInv, QueueInv, QueueType, Entry
<1> DEFINE R == {e \in Entry : taken < e /\ e <= last}
<1>3. UNCHANGED <<entries, accepted, spent, unacked>>
    BY DEF ReadNew, outcome
<1>4. \A e \in Entry : place[e] = "waiting" <=> taken < e /\ e <= Len(entries)
    BY <1>2 DEF PlaceOf
<1>5. /\ \A e \in R : place[e] = "waiting"
      /\ \A e \in R, f \in Entry : f < e /\ place[f] = "waiting" => f \in R
    BY <1>2, <1>4
<1>6. \A e \in Entry : PlaceOf(e)' = IF e \in R THEN "pending" ELSE place[e]
    BY <1>1, <1>2, <1>3 DEF PlaceOf
<1>7. place' = [e \in Entry |-> IF e \in R THEN "pending" ELSE place[e]]
    BY <1>6
<1> HIDE DEF R, place
<1>8. R \in SUBSET Entry
    BY DEF R
<1> QED
    BY <1>3, <1>5, <1>7, <1>8 DEF Queue!HandOut, Queue!Entry, Entry, place

(* What a worker has is pending, and has an end if it has only to be       *)
(* acknowledged.                                                           *)
LEMMA WorkerHolds ==
    ASSUME DeliveryInv, NEW c \in Consumer, NEW s \in Slot, Working(c, s)
    PROVE  /\ job[<<c, s>>] \in Entry
           /\ PlaceOf(job[<<c, s>>]) = "pending"
           /\ Acking(c, s) => Ended(job[<<c, s>>])
<1> DEFINE e == job[<<c, s>>]
<1>1. /\ QueueType /\ AcksAreDue /\ HoldersOwe /\ HeldPending
      /\ \A f \in Entry : f \in Nat /\ f # 0
    BY DispatcherConstants DEF DeliveryInv, OnceInv, QueueInv, Entry
<1>2. <<c, s>> \in Place /\ e \in Entry
    BY <1>1, JobIsEntry DEF Place
<1>3. owner[e] # NoOne /\ e <= taken
    BY <1>1, <1>2 DEF HeldPending, Unheld, HoldersOwe
<1>4. taken \in Nat /\ Len(entries) \in Nat /\ taken <= Len(entries) /\ e \in Nat
    BY <1>1, <1>2 DEF QueueType
<1> QED
    BY <1>1, <1>2, <1>3, <1>4 DEF PlaceOf, AcksAreDue, Acking

(* A worker posts what is due, and acknowledges what is at its end.        *)
LEMMA WorkRefined ==
    ASSUME DeliveryInv, NEW c \in Consumer, NEW s \in Slot, WorkStep(c, s)
    PROVE  [Queue!Next]_queued
<1> DEFINE e == job[<<c, s>>]
           place == [f \in Entry |-> PlaceOf(f)]
<1>0. /\ DispatchTypeOK /\ EndedRests
      /\ \A f \in Entry : f \in Nat /\ f # 0
    BY DispatcherConstants DEF DeliveryInv, OnceInv, Entry
<1>1. <<c, s>> \in Place /\ Working(c, s)
    BY DEF Place, WorkStep, Accept, Refuse, Abort, Ack, Posting, Acking
<1>2. e \in Entry /\ place[e] = "pending" /\ (Acking(c, s) => Ended(e))
    BY <1>1, WorkerHolds
<1>3. Entry = Queue!Entry /\ \A f \in Entry : Queue!Ended(f) <=> Ended(f)
    BY DEF Entry, Queue!Entry, Queue!Ended
<1>4. ASSUME Posting(c, s) PROVE Queue!Due(e)
    <2>1. failed[<<c, s>>] # Attempts
        BY <1>0, <1>1, <1>4, DispatcherConstants DEF Posting, DispatchTypeOK, Place
    <2>2. Ended(e) => e \in unacked
        BY <1>0, <1>1, <1>2, <2>1 DEF EndedRests
    <2> QED
        BY <1>2, <1>3, <2>2 DEF Queue!Due
<1> HIDE DEF e
<1>5. CASE Accept(c, s)
    <2>1. /\ UNCHANGED <<entries, taken, owner, spent, unacked>>
          /\ accepted' = [accepted EXCEPT ![e] = IF @ = 2 THEN 2 ELSE @ + 1]
          /\ Queue!Due(e)
        BY <1>4, <1>5 DEF Accept, stream, e
    <2>2. place' = place
        BY <2>1 DEF PlaceOf
    <2> HIDE DEF place
    <2>3. Queue!Answer
        BY <1>2, <1>3, <2>1, <2>2 DEF Queue!Answer, place
    <2> QED
        BY <2>3 DEF Queue!Next
<1>6. CASE Refuse(c, s)
    <2>1. /\ UNCHANGED <<entries, taken, owner, accepted, unacked>>
          /\ spent' = spent \cup {e} \/ spent' = spent
          /\ Queue!Due(e)
        BY <1>4, <1>6 DEF Refuse, stream, e
    <2>2. place' = place
        BY <2>1 DEF PlaceOf
    <2> HIDE DEF place
    <2>3. CASE spent' = spent \cup {e}
        <3>1. Queue!GiveUp
            BY <1>2, <1>3, <2>1, <2>2, <2>3 DEF Queue!GiveUp, place
        <3> QED
            BY <3>1 DEF Queue!Next
    <2>4. CASE spent' = spent
        BY <2>1, <2>2, <2>4 DEF queued, place
    <2> QED
        BY <2>1, <2>3, <2>4
<1>7. CASE Abort(c, s)
    <2>1. UNCHANGED <<entries, taken, owner, accepted, spent, unacked>>
        BY <1>7 DEF Abort, stream, outcome
    <2> QED
        BY <2>1, SamePlaces
<1>8. CASE Ack(c, s)
    <2>1. UNCHANGED <<entries, taken, accepted, spent>> /\ Ended(e)
        BY <1>2, <1>8 DEF Ack
    <2>2. CASE owner' = [owner EXCEPT ![e] = NoOne] /\ unacked' = unacked
        <3>1. \A f \in Entry : PlaceOf(f)' = IF f = e THEN "left" ELSE place[f]
            <4>1. \A f \in Entry : owner'[f] = IF f = e THEN NoOne ELSE owner[f]
                BY <1>0, <2>2 DEF DispatchTypeOK
            <4>2. ~(e > Len(entries)) /\ ~(e > taken)
                BY <1>2 DEF PlaceOf
            <4> QED
                BY <2>1, <4>1, <4>2 DEF PlaceOf
        <3>2. place' = [place EXCEPT ![e] = "left"]
            BY <3>1
        <3> HIDE DEF place
        <3>3. Queue!Leave
            BY <1>2, <1>3, <2>1, <2>2, <3>2 DEF Queue!Leave, place
        <3> QED
            BY <3>3 DEF Queue!Next
    <2>3. CASE owner' = owner /\ unacked' = unacked \cup {e}
        <3>1. place' = place
            BY <2>1, <2>3 DEF PlaceOf
        <3> HIDE DEF place
        <3>2. {e} \in SUBSET Queue!Entry /\ \A f \in {e} : place[f] = "pending" /\ Queue!Ended(f)
            BY <1>2, <1>3, <2>1
        <3>3. Queue!Keep
            BY <2>1, <2>3, <3>1, <3>2 DEF Queue!Keep, place
        <3> QED
            BY <3>3 DEF Queue!Next
    <2> QED
        BY <1>8, <2>2, <2>3 DEF Ack, e
<1> QED
    BY <1>5, <1>6, <1>7, <1>8 DEF WorkStep

(* The kill of a process keeps from the queue the ends its workers had yet *)
(* to acknowledge.                                                         *)
LEMMA CrashRefined ==
    ASSUME DeliveryInv, NEW c \in Consumer, Crash(c)
    PROVE  Queue!Keep
<1> DEFINE S == {job[<<c, s>>] : s \in {s \in Slot : Acking(c, s)}}
           place == [f \in Entry |-> PlaceOf(f)]
<1>1. UNCHANGED <<entries, taken, owner, accepted, spent>> /\ unacked' = unacked \cup S
    BY DEF Crash, stream
<1>2. \A e \in S : e \in Entry /\ place[e] = "pending" /\ Ended(e)
    BY WorkerHolds DEF Acking
<1>3. Entry = Queue!Entry /\ \A f \in Entry : Queue!Ended(f) <=> Ended(f)
    BY DEF Entry, Queue!Entry, Queue!Ended
<1>4. place' = place
    BY <1>1 DEF PlaceOf
<1> HIDE DEF S, place
<1>5. S \in SUBSET Queue!Entry /\ \A e \in S : place[e] = "pending" /\ Queue!Ended(e)
    BY <1>2, <1>3
<1> QED
    BY <1>1, <1>4, <1>5 DEF Queue!Keep, place

(* The other steps of a loop leave every entry where it is.                *)
LEMMA LoopRefined ==
    ASSUME ~Slow, ~Returns, DeliveryInv, NEW c \in Consumer,
           LoopStep(c) \/ Shutdown(c), ~ReadNew(c)
    PROVE  UNCHANGED queued
<1>0. DispatchTypeOK /\ RemovedOweNothing /\ c # NoOne
    BY DispatcherConstants DEF DeliveryInv, OnceInv, QueueInv
<1>1. CASE Reclaim(c)
    <2>1. PICK R \in SUBSET Overdue : owner' = [e \in Entry |-> IF e \in R THEN c ELSE owner[e]]
        BY <1>1 DEF Reclaim, Firsts
    <2>2. \A e \in Entry : owner'[e] = NoOne <=> owner[e] = NoOne
        BY <1>0, <2>1, OverdueIsUnheld
    <2>3. UNCHANGED <<entries, taken, accepted, spent, unacked>>
        BY <1>1 DEF Reclaim, outcome
    <2> QED
        BY <2>2, <2>3, SamePlaces
<1>2. CASE Remove(c)
    <2>1. PICK d \in seen[c] : owner' = [e \in Entry |-> IF owner[e] = d THEN NoOne ELSE owner[e]]
        BY <1>2 DEF Remove
    <2>2. Owed(d) = {}
        BY <1>0 DEF RemovedOweNothing
    <2>3. \A e \in Entry : owner'[e] = owner[e]
        BY <2>1, <2>2 DEF Owed
    <2>4. UNCHANGED <<entries, taken, accepted, spent, unacked>>
        BY <1>2 DEF Remove, outcome
    <2> QED
        BY <2>3, <2>4, SamePlaces
<1>3. CASE Start(c) \/ Replay(c) \/ Inspect(c) \/ Hand(c) \/ CutOff(c) \/ Exit(c) \/ Shutdown(c)
    <2>1. UNCHANGED <<entries, taken, owner, accepted, spent, unacked>>
        BY <1>3 DEF Start, Replay, Inspect, Hand, CutOff, Exit, Shutdown, stream, outcome
    <2> QED
        BY <2>1, SamePlaces
<1> QED
    BY <1>1, <1>2, <1>3 DEF LoopStep

(* Every step of pods and Redis is one of the queue, or none.              *)
LEMMA DispatchRefined ==
    ASSUME ~Slow, ~Returns, DeliveryInv, [DispatchNext]_dispatchVars
    PROVE  [Queue!Next]_queued
<1>1. CASE DispatchNext
    <2>1. ASSUME NEW c \in Consumer, LoopStep(c) \/ Shutdown(c) \/ Crash(c)
          PROVE  [Queue!Next]_queued
        <3>1. CASE ReadNew(c)
            BY <3>1, HandOutRefined DEF Queue!Next
        <3>2. CASE Crash(c)
            BY <3>2, CrashRefined DEF Queue!Next
        <3>3. CASE ~ReadNew(c) /\ ~Crash(c)
            BY <2>1, <3>3, LoopRefined
        <3> QED
            BY <3>1, <3>2, <3>3
    <2>2. ASSUME NEW c \in Consumer, NEW s \in Slot, WorkStep(c, s)
          PROVE  [Queue!Next]_queued
        BY <2>2, WorkRefined
    <2>3. ASSUME NEW d \in Delivery, Enqueue(d)
          PROVE  [Queue!Next]_queued
        BY <2>3, AddRefined DEF Queue!Next
    <2> QED
        BY <1>1, <2>1, <2>2, <2>3 DEF DispatchNext, Dispatch
<1>2. CASE UNCHANGED dispatchVars
    BY <1>2, SamePlaces DEF dispatchVars
<1> QED
    BY <1>1, <1>2

(* Pods, workers, Redis and all that fails of them are, together, the      *)
(* queue of DeliveryQueue, on any number of pods, workers and entries,     *)
(* where no consumer comes back while another one removes it and no live   *)
(* process holds an entry past visibilityTimeout.                          *)
THEOREM DispatcherIsAQueue ==
    ASSUME ~Slow, ~Returns
    PROVE  DispatchSpec => ImplementsQueue
<1>1. DispatchInit => DeliveryInv
    <2>1. DispatchInit => HeldPending
        BY DispatcherConstants DEF DispatchInit, HeldPending, Unheld, Place, Entry
    <2> QED
        BY <2>1, QueueInit, OnceInitially DEF DeliveryInv
<1>2. DeliveryInv /\ [DispatchNext]_dispatchVars => DeliveryInv'
    <2>1. ASSUME DeliveryInv, DispatchNext PROVE HeldPending'
        BY <2>1, HeldLoopSteps, HeldWorkSteps DEF DispatchNext, Dispatch
    <2>2. ASSUME DeliveryInv, UNCHANGED dispatchVars PROVE HeldPending'
        BY <2>2 DEF DeliveryInv, dispatchVars, HeldPending, Unheld
    <2> QED
        BY <2>1, <2>2, QueueStep, OnceStep DEF DeliveryInv
<1>3. DispatchInit => Queue!Init
    <2>1. ASSUME DispatchInit, NEW e \in Entry PROVE PlaceOf(e) = "none"
        <3>1. Len(entries) = 0 /\ e \in Nat /\ e # 0
            BY <2>1, DispatcherConstants DEF DispatchInit, Entry
        <3> QED
            BY <3>1 DEF PlaceOf
    <2> QED
        BY <2>1 DEF DispatchInit, Queue!Init, Queue!Entry, Entry
<1>4. DeliveryInv /\ [DispatchNext]_dispatchVars => [Queue!Next]_queued
    BY DispatchRefined
<1> QED
    BY <1>1, <1>2, <1>3, <1>4, PTL DEF DispatchSpec, ImplementsQueue, Queue!Spec, queued

QueueHolds ==
    /\ Queue!TypeOK /\ AcceptedOnce
    /\ \A e \in Entry : PlaceOf(e) = "left" => accepted[e] > 0 \/ e \in spent

(* What a receiver needs of the queue is in it: whatever implements        *)
(* DeliveryQueue posts an accepted entry again only where its end was kept *)
(* back, and lets none go that was neither accepted nor given up.          *)
THEOREM QueueKeepsEntries == ImplementsQueue => []QueueHolds
<1> DEFINE place == [e \in Entry |-> PlaceOf(e)]
           Good(p, a, s, k) ==
               /\ p \in [Entry -> {"none", "waiting", "pending", "left"}]
               /\ a \in [Entry -> 0..2] /\ s \subseteq Entry /\ k \subseteq Entry
               /\ \A e \in Entry : a[e] > 1 => e \in k
               /\ \A e \in Entry : p[e] = "left" => a[e] > 0 \/ e \in s
<1>0. Entry = Queue!Entry
    BY DEF Entry, Queue!Entry
<1>1. QueueHolds <=> Good(place, accepted, spent, unacked)
    <2>1. \A e \in Entry : place[e] = PlaceOf(e)
        OBVIOUS
    <2>2. Queue!TypeOK <=>
              /\ place \in [Entry -> {"none", "waiting", "pending", "left"}]
              /\ accepted \in [Entry -> 0..2] /\ spent \subseteq Entry /\ unacked \subseteq Entry
        BY <1>0 DEF Queue!TypeOK
    <2> HIDE DEF place
    <2> QED
        BY <2>1, <2>2 DEF QueueHolds, AcceptedOnce
<1>2. Queue!Init => QueueHolds
    <2> SUFFICES ASSUME Queue!Init PROVE Good(place, accepted, spent, unacked)
        BY <1>1
    <2>1. /\ place = [e \in Entry |-> "none"] /\ accepted = [e \in Entry |-> 0]
          /\ spent = {} /\ unacked = {}
        BY <1>0 DEF Queue!Init
    <2> HIDE DEF place
    <2> QED
        BY <2>1
<1>3. QueueHolds /\ [Queue!Next]_queued => QueueHolds'
    <2> SUFFICES ASSUME Good(place, accepted, spent, unacked), [Queue!Next]_queued
                 PROVE  Good(place', accepted', spent', unacked')
        BY <1>1 DEF QueueHolds, Queue!TypeOK, AcceptedOnce
    <2>1. CASE UNCHANGED queued
        <3>1. place' = place /\ accepted' = accepted /\ spent' = spent /\ unacked' = unacked
            BY <2>1 DEF queued
        <3> HIDE DEF place
        <3> QED
            BY <3>1
    <2>2. CASE Queue!Add
        <3>1. PICK e \in Entry :
                  /\ place' = [place EXCEPT ![e] = "waiting"]
                  /\ accepted' = accepted /\ spent' = spent /\ unacked' = unacked
            BY <2>2, <1>0 DEF Queue!Add
        <3> HIDE DEF place
        <3> QED
            BY <3>1
    <2>3. CASE Queue!HandOut
        <3>1. PICK S \in SUBSET Entry :
                  /\ place' = [e \in Entry |-> IF e \in S THEN "pending" ELSE place[e]]
                  /\ accepted' = accepted /\ spent' = spent /\ unacked' = unacked
            BY <2>3, <1>0 DEF Queue!HandOut
        <3> HIDE DEF place
        <3> QED
            BY <3>1
    <2>4. CASE Queue!Answer
        <3>1. PICK e \in Entry :
                  /\ place[e] = "pending" /\ (accepted[e] > 0 \/ e \in spent => e \in unacked)
                  /\ accepted' = [accepted EXCEPT ![e] = IF @ = 2 THEN 2 ELSE @ + 1]
                  /\ place' = place /\ spent' = spent /\ unacked' = unacked
            BY <2>4, <1>0 DEF Queue!Answer, Queue!Due, Queue!Ended
        <3> HIDE DEF place
        <3>2. accepted[e] \in 0..2
            BY <3>1
        <3> QED
            BY <3>1, <3>2
    <2>5. CASE Queue!GiveUp
        <3>1. PICK e \in Entry :
                  /\ spent' = spent \cup {e}
                  /\ place' = place /\ accepted' = accepted /\ unacked' = unacked
            BY <2>5, <1>0 DEF Queue!GiveUp
        <3> HIDE DEF place
        <3> QED
            BY <3>1
    <2>6. CASE Queue!Leave
        <3>1. PICK e \in Entry :
                  /\ accepted[e] > 0 \/ e \in spent
                  /\ place' = [place EXCEPT ![e] = "left"]
                  /\ accepted' = accepted /\ spent' = spent /\ unacked' = unacked
            BY <2>6, <1>0 DEF Queue!Leave, Queue!Ended
        <3> HIDE DEF place
        <3> QED
            BY <3>1
    <2>7. CASE Queue!Keep
        <3>1. PICK S \in SUBSET Entry :
                  /\ unacked' = unacked \cup S
                  /\ place' = place /\ accepted' = accepted /\ spent' = spent
            BY <2>7, <1>0 DEF Queue!Keep
        <3> HIDE DEF place
        <3> QED
            BY <3>1
    <2> QED
        BY <2>1, <2>2, <2>3, <2>4, <2>5, <2>6, <2>7 DEF Queue!Next
<1> QED
    BY <1>2, <1>3, PTL DEF ImplementsQueue, Queue!Spec, queued
=============================================================================
