------------------------------- MODULE Limiter -------------------------------
(***************************************************************************)
(* The rate limiter of one pod: a bucket of tokens per client, in a table  *)
(* of fixed size.  A client is a host of the gateway with the address the  *)
(* edge vouches for.  Time passes in ticks, each worth Rate tokens.        *)
(***************************************************************************)
EXTENDS Naturals, FiniteSets

CONSTANTS
    Client,
    MaxBuckets,     \* the size of the table
    Burst, Rate,    \* tokens of a full bucket, tokens per tick
    IdleEviction    \* ticks after which an untouched bucket may go

\* The defaults of config.go: ten minutes refill every bucket.
ASSUME LimiterAssumption ==
    /\ MaxBuckets \in Nat \ {0} /\ Burst \in Nat \ {0} /\ Rate \in Nat \ {0}
    /\ IdleEviction \in Nat /\ Burst <= Rate * IdleEviction

VARIABLES
    buckets,   \* client -> its tokens, and the ticks since it was last seen
    due,       \* history: the tokens each client has in a table without limit
    pushedOut  \* history: clients whose bucket went while in use, not yet refilled

limiterVars == <<buckets, due, pushedOut>>

Capped(n) == IF n > Burst THEN Burst ELSE n
Spend(n) == IF n > 0 THEN n - 1 ELSE 0
Tokens(c) == IF c \in DOMAIN buckets THEN buckets[c].tokens ELSE Burst

LimiterInit ==
    /\ buckets = [c \in {} |-> [tokens |-> Burst, idle |-> 0]]
    /\ due = [c \in Client |-> Burst]
    /\ pushedOut = {}

-----------------------------------------------------------------------------
\* Mutant: a bucket that is about to be idle goes as well.
IdleEarly == {c \in DOMAIN buckets : buckets[c].idle + 1 >= IdleEviction}

IdleBuckets == {c \in DOMAIN buckets : buckets[c].idle > IdleEviction}

\* Mutant: no bucket in use goes, and the table grows.
EvictIdleOnly == {IdleBuckets}

\* evictLocked: the idle ones; if all are in use, any one.
Evictions ==
    IF Cardinality(DOMAIN buckets \ IdleBuckets) < MaxBuckets THEN {IdleBuckets}
    ELSE {IdleBuckets \cup {c} : c \in DOMAIN buckets \ IdleBuckets}

\* allow: the client's bucket, a full one if it has none; a token, if it has one.
Allow(c) ==
    \E out \in IF c \in DOMAIN buckets \/ Cardinality(DOMAIN buckets) < MaxBuckets THEN {{}} ELSE Evictions :
        /\ buckets' = [d \in (DOMAIN buckets \ out) \cup {c} |->
                          IF d = c THEN [tokens |-> Spend(Tokens(c)), idle |-> 0] ELSE buckets[d]]
        /\ due' = [due EXCEPT ![c] = Spend(@)]
        /\ pushedOut' = pushedOut \cup (out \ IdleBuckets)

LimiterTick ==
    /\ buckets' = [c \in DOMAIN buckets |->
                      [tokens |-> Capped(buckets[c].tokens + Rate),
                       idle |-> IF buckets[c].idle > IdleEviction THEN buckets[c].idle ELSE buckets[c].idle + 1]]
    /\ due' = [c \in Client |-> Capped(due[c] + Rate)]
    /\ pushedOut' = {c \in pushedOut : due'[c] < Burst}

LimiterNext == (\E c \in Client : Allow(c)) \/ LimiterTick

LimiterSpec == LimiterInit /\ [][LimiterNext]_limiterVars

-----------------------------------------------------------------------------
LimiterTypeOK ==
    /\ DOMAIN buckets \subseteq Client /\ Cardinality(DOMAIN buckets) <= MaxBuckets
    /\ \A c \in DOMAIN buckets : buckets[c].tokens \in 0..Burst /\ buckets[c].idle \in 0..(IdleEviction + 1)
    /\ due \in [Client -> 0..Burst] /\ pushedOut \subseteq Client

\* What an eviction may do to a client: one for idleness nothing at all, one at
\* the cap, by a flood of other clients, never less than it is due.  A client
\* whose bucket went in use comes back to a full one, and is pushedOut until it
\* would be full anyway (RateLimiter.allow, evictLocked).
EvictionIsFair ==
    \A c \in Client : Tokens(c) >= due[c] /\ (c \notin pushedOut => Tokens(c) = due[c])
=============================================================================
