------------------------------- MODULE Tenants -------------------------------
(***************************************************************************)
(* The resolver of tenants, for one domain: the memory of each pod, Redis  *)
(* and Django behind it.  Lifetimes are counted in ticks; a call takes at  *)
(* most CallTicks of them, because the Django client has a timeout.        *)
(***************************************************************************)
EXTENDS Naturals

CONSTANTS
    Pod,
    Config,      \* configurations the store may have
    Unknown,     \* what Django answers when no active store has the domain
    Nothing,     \* no entry
    TTL, NegTTL, CallTicks

ASSUME TenantsAssumption ==
    /\ TTL \in Nat /\ NegTTL \in Nat \ {0} /\ NegTTL <= TTL
    /\ CallTicks \in Nat
    /\ Unknown \notin Config /\ Nothing \notin Config \cup {Unknown}

VARIABLES
    truth,    \* Django: the store's configuration, or Unknown
    since,    \* ticks since that changed (capped: see Horizon)
    memory,   \* per pod: Resolver.mem
    shared,   \* Redis: public configuration or sentinel
    resolve,  \* per pod: the one flight of resolveSlow
    secrets,  \* per pod: the one flight of EnsureSecrets
    rested    \* history, per pod: ticks since resolveSlow last cached what it learned

tenantVars == <<truth, since, memory, shared, resolve, secrets, rested>>

Answer == Config \cup {Unknown}
NoFlight == [phase |-> "none", value |-> Nothing, age |-> 0]
NoEntry == [value |-> Nothing, left |-> 0, secret |-> FALSE, stale |-> FALSE]

\* Past this many ticks nothing that was cached before is alive.
Horizon == 2 * TTL + CallTicks + 1

TenantsInit ==
    /\ truth \in Answer
    /\ since = Horizon
    /\ memory = [p \in Pod |-> NoEntry]
    /\ shared = [value |-> Nothing, left |-> 0]
    /\ resolve = [p \in Pod |-> NoFlight]
    /\ secrets = [p \in Pod |-> NoFlight]
    /\ rested = [p \in Pod |-> NegTTL]

-----------------------------------------------------------------------------
Lifetime(v) == IF v = Unknown THEN NegTTL ELSE TTL
Live(e) == e.left > 0
CachedFor(v, secret) == [value |-> v, left |-> Lifetime(v), secret |-> secret, stale |-> FALSE]
Remember(p, e) == memory' = [memory EXCEPT ![p] = e]
Flies(p, phase) == resolve' = [resolve EXCEPT ![p].phase = phase]
Lands(p) == resolve' = [resolve EXCEPT ![p] = NoFlight]
Rests(p) == rested' = [rested EXCEPT ![p] = 0]

\* Resolve: no live entry in memory, and no flight to join.
StartResolve(p) ==
    /\ ~Live(memory[p])
    /\ resolve[p] = NoFlight
    /\ Flies(p, "redis")
    /\ UNCHANGED <<truth, since, memory, shared, secrets, rested>>

\* fromRedis: the copy gets a lifetime of its own, and has no credentials.
RedisEntry(v) == CachedFor(v, FALSE)

\* Mutant: an entry that is used lives on in Redis.
FindInRedisRenews(p) ==
    /\ resolve[p].phase = "redis"
    /\ Live(shared)
    /\ Remember(p, RedisEntry(shared.value))
    /\ shared' = [shared EXCEPT !.left = Lifetime(shared.value)]
    /\ Lands(p)
    /\ Rests(p)
    /\ UNCHANGED <<truth, since, secrets>>

FindInRedis(p) ==
    /\ resolve[p].phase = "redis"
    /\ Live(shared)
    /\ Remember(p, RedisEntry(shared.value))
    /\ Lands(p)
    /\ Rests(p)
    /\ UNCHANGED <<truth, since, shared, secrets>>

\* Nothing there, an error, or an entry that cannot be read.
MissInRedis(p) ==
    /\ resolve[p].phase = "redis"
    /\ Flies(p, "django")
    /\ UNCHANGED <<truth, since, memory, shared, secrets, rested>>

\* Django looks the domain up; its answer is on its way.
DjangoReads(p) ==
    /\ resolve[p].phase = "django"
    /\ resolve' = [resolve EXCEPT ![p].phase = "answer", ![p].value = truth]
    /\ UNCHANGED <<truth, since, memory, shared, secrets, rested>>

\* The answer is cached here, and then for the other pods.
Learn(p) ==
    LET v == resolve[p].value IN
    /\ resolve[p].phase = "answer"
    /\ Remember(p, CachedFor(v, v # Unknown))
    /\ Flies(p, "write")
    /\ Rests(p)
    /\ UNCHANGED <<truth, since, shared, secrets>>

ShareInRedis(p) ==
    /\ resolve[p].phase = "write"
    /\ \/ shared' = [value |-> resolve[p].value, left |-> Lifetime(resolve[p].value)]
       \/ UNCHANGED shared
    /\ Lands(p)
    /\ UNCHANGED <<truth, since, memory, secrets, rested>>

\* The last configuration this pod had, also past its lifetime; an unknown
\* store is not one.
LastKnown(p) == memory[p].value \in Config

\* Mutant: a stale configuration is served, but not kept.
StaleEntryForgotten(e) == [e EXCEPT !.stale = TRUE]

\* A stale configuration is kept for a moment, so that not every request asks
\* a Django that hangs.
StaleEntry(e) == [e EXCEPT !.stale = TRUE, !.left = NegTTL]

\* Django cannot be reached.
DjangoDown(p) ==
    /\ resolve[p].phase \in {"django", "answer"}
    /\ IF LastKnown(p)
       THEN Remember(p, StaleEntry(memory[p])) /\ Rests(p)
       ELSE UNCHANGED <<memory, rested>>
    /\ Lands(p)
    /\ UNCHANGED <<truth, since, shared, secrets>>

-----------------------------------------------------------------------------
\* EnsureSecrets: a route needs the credentials that Redis does not have.
StartSecrets(p) ==
    /\ Live(memory[p])
    /\ memory[p].value \in Config
    /\ ~memory[p].secret
    /\ secrets[p] = NoFlight
    /\ secrets' = [secrets EXCEPT ![p].phase = "django"]
    /\ UNCHANGED <<truth, since, memory, shared, resolve, rested>>

SecretsRead(p) ==
    /\ secrets[p].phase = "django"
    /\ secrets' = [secrets EXCEPT ![p].phase = "answer", ![p].value = truth]
    /\ UNCHANGED <<truth, since, memory, shared, resolve, rested>>

\* The full configuration replaces the public one; an error changes nothing.
SecretsLoaded(p) ==
    /\ secrets[p].phase = "answer"
    /\ IF secrets[p].value \in Config
       THEN Remember(p, CachedFor(secrets[p].value, TRUE))
       ELSE UNCHANGED memory
    /\ secrets' = [secrets EXCEPT ![p] = NoFlight]
    /\ UNCHANGED <<truth, since, shared, resolve, rested>>

SecretsFail(p) ==
    /\ secrets[p].phase \in {"django", "answer"}
    /\ secrets' = [secrets EXCEPT ![p] = NoFlight]
    /\ UNCHANGED <<truth, since, memory, shared, resolve, rested>>

\* storeMemory evicts an entry when it is full of others; a restart loses all.
EvictTenant(p) ==
    /\ memory[p] # NoEntry
    /\ Remember(p, NoEntry)
    /\ rested' = [rested EXCEPT ![p] = NegTTL]
    /\ UNCHANGED <<truth, since, shared, resolve, secrets>>

\* The store is created, changed or taken down.
ChangeTenant ==
    /\ truth' \in Answer \ {truth}
    /\ since' = 0
    /\ UNCHANGED <<memory, shared, resolve, secrets, rested>>

Less(n) == IF n > 0 THEN n - 1 ELSE 0
UpTo(n, m) == IF n < m THEN n + 1 ELSE m
Older(f) == IF f = NoFlight THEN f ELSE [f EXCEPT !.age = @ + 1]

TenantsTick ==
    /\ \A p \in Pod : resolve[p].phase # "none" => resolve[p].age < CallTicks
    /\ \A p \in Pod : secrets[p].phase # "none" => secrets[p].age < CallTicks
    /\ since' = UpTo(since, Horizon)
    /\ memory' = [p \in Pod |-> [memory[p] EXCEPT !.left = Less(@)]]
    /\ shared' = [shared EXCEPT !.left = Less(@)]
    /\ resolve' = [p \in Pod |-> Older(resolve[p])]
    /\ secrets' = [p \in Pod |-> Older(secrets[p])]
    /\ rested' = [p \in Pod |-> UpTo(rested[p], NegTTL)]
    /\ UNCHANGED truth

TenantsNext ==
    \/ \E p \in Pod :
          \/ StartResolve(p) \/ FindInRedis(p) \/ MissInRedis(p) \/ DjangoReads(p) \/ Learn(p)
          \/ ShareInRedis(p) \/ DjangoDown(p) \/ StartSecrets(p) \/ SecretsRead(p) \/ SecretsLoaded(p)
          \/ SecretsFail(p) \/ EvictTenant(p)
    \/ ChangeTenant
    \/ TenantsTick

TenantsSpec == TenantsInit /\ [][TenantsNext]_tenantVars

-----------------------------------------------------------------------------
\* Entries, flights and times of resolver.go have their types.
TenantsTypeOK ==
    /\ truth \in Answer
    /\ since \in 0..Horizon
    /\ memory \in [Pod -> [value : Answer \cup {Nothing}, left : 0..TTL, secret : BOOLEAN, stale : BOOLEAN]]
    /\ shared \in [value : Answer \cup {Nothing}, left : 0..TTL]
    /\ \A f \in {resolve, secrets} :
          f \in [Pod -> [phase : {"none", "redis", "django", "answer", "write"},
                         value : Answer \cup {Nothing}, age : 0..CallTicks]]
    /\ rested \in [Pod -> 0..NegTTL]

\* What a pod answers from memory, unless marked stale, was true not long ago:
\* the lifetimes of the two layers add up, with the call that brought the
\* answer, and nothing adds a third (resolveSlow, fromRedis, EnsureSecrets).
AnswersAreRecent ==
    \A p \in Pod :
        LET e == memory[p] IN
        (Live(e) /\ ~e.stale /\ e.value # truth) => since <= 2 * Lifetime(e.value) + CallTicks

\* "Negative results get a short TTL and new tenants therefore resolve within
\* NegativeTTL of creation" (Resolver), and within the call that was under way.  A
\* pod that finds the old answer in Redis breaks it: there it begins a second
\* lifetime.
NewTenantsResolve ==
    \A p \in Pod :
        Live(memory[p]) /\ memory[p].value = Unknown /\ truth \in Config => since < NegTTL + CallTicks

\* A pod that resolved the domain, or that keeps a stale configuration while
\* Django is down, looks it up again only after the negative lifetime, unless it
\* dropped the entry.  Where there was nothing to keep, nothing is promised, nor
\* for the credentials that EnsureSecrets asks for (resolveSlow).
ProbesRest == \A p \in Pod : resolve[p].phase = "redis" => rested[p] >= NegTTL
=============================================================================
