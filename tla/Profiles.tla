------------------------------ MODULE Profiles ------------------------------
(***************************************************************************)
(* The resolver of platform profiles in one pod: a cache of fixed size,    *)
(* one fetch per address at a time, and a budget of fetches that all       *)
(* tenants share.  Documents are left out: what matters here is for how    *)
(* long an answer, a profile or a failure of the origin, spares a fetch.   *)
(***************************************************************************)
EXTENDS Naturals, FiniteSets

CONSTANTS
    Address,      \* the addresses of profiles that callers send
    MaxProfiles,  \* the size of the cache
    ProfileFloor, ProfileCeiling, FailureBackoff   \* lifetimes, in ticks

ASSUME ProfilesAssumption ==
    /\ MaxProfiles \in Nat \ {0}
    /\ ProfileFloor \in Nat \ {0} /\ FailureBackoff \in Nat \ {0}
    /\ ProfileCeiling \in Nat /\ ProfileFloor <= ProfileCeiling

VARIABLES
    entry,      \* what is cached: the lifetime left of each entry, 0 once expired
    newer,      \* by their times of use: the entries used later than each entry
    missed,     \* addresses a caller has looked up in vain and not yet asked for
    fetching,   \* the addresses that are being fetched
    promised,   \* history: the lifetime left of the last answer of each address
    after       \* history: the addresses that had an answer since each one had its last

profileVars == <<entry, newer, missed, fetching, promised, after>>

Cached == DOMAIN entry

\* u is used: everything else in S was used before it.
UsedLast(order, S, u) == [v \in S |-> IF v = u THEN {} ELSE (order[v] \cap S) \cup {u}]

ProfilesInit ==
    /\ entry = [u \in {} |-> 0]
    /\ newer = [u \in {} |-> {}]
    /\ missed = {} /\ fetching = {}
    /\ promised = [u \in Address |-> 0]
    /\ after = [u \in Address |-> {}]

-----------------------------------------------------------------------------
\* Mutant: a hit does not count as a use.
MarkNothing(u) == newer' = newer

MarkUsed(u) == newer' = UsedLast(newer, Cached, u)

\* cached: a live entry answers.
ProfileHit(u) ==
    /\ u \in Cached /\ entry[u] > 0
    /\ MarkUsed(u)
    /\ after' = UsedLast(after, Address, u)
    /\ UNCHANGED <<entry, missed, fetching, promised>>

ProfileMiss(u) ==
    /\ u \in Cached => entry[u] = 0
    /\ missed' = missed \cup {u}
    /\ UNCHANGED <<entry, newer, fetching, promised, after>>

\* DoChan: the caller joins the fetch that runs, or starts one; since it looked,
\* another fetch may have come and gone.
AskForProfile(u) ==
    /\ u \in missed
    /\ missed' = missed \ {u}
    /\ fetching' = fetching \cup {u}
    /\ UNCHANGED <<entry, newer, promised, after>>

\* evictLocked: one that has expired, else the least recently used.
Victims ==
    LET expired == {u \in Cached : entry[u] = 0} IN
    IF expired # {} THEN expired ELSE {u \in Cached : newer[u] = Cached \ {u}}

\* remember: into a cache with room, or in the place of a victim.
RememberAnswer(u, lifetime) ==
    /\ \E out \in IF u \notin Cached /\ Cardinality(Cached) >= MaxProfiles THEN {{v} : v \in Victims} ELSE {{}} :
          /\ entry' = [v \in (Cached \ out) \cup {u} |-> IF v = u THEN lifetime ELSE entry[v]]
          /\ newer' = UsedLast(newer, DOMAIN entry', u)
    /\ promised' = [promised EXCEPT ![u] = lifetime]
    /\ after' = UsedLast(after, Address, u)

\* The fetch ends with a profile, whose max-age is kept within its bounds, or
\* with a failure of the origin, which is backed off.
FetchProfile(u) ==
    /\ u \in fetching
    /\ \E lifetime \in ProfileFloor..ProfileCeiling \cup {FailureBackoff} : RememberAnswer(u, lifetime)
    /\ fetching' = fetching \ {u}
    /\ UNCHANGED missed

\* ErrDiscoveryBusy: the budget is spent, which says nothing about the address.
DiscoveryBusy(u) ==
    /\ u \in fetching
    /\ fetching' = fetching \ {u}
    /\ UNCHANGED <<entry, newer, missed, promised, after>>

Sooner(n) == IF n = 0 THEN 0 ELSE n - 1

ProfilesTick ==
    /\ \E u \in Address : promised[u] > 0
    /\ entry' = [u \in Cached |-> Sooner(entry[u])]
    /\ promised' = [u \in Address |-> Sooner(promised[u])]
    /\ UNCHANGED <<newer, missed, fetching, after>>

ProfilesNext ==
    \/ \E u \in Address :
          ProfileHit(u) \/ ProfileMiss(u) \/ AskForProfile(u) \/ FetchProfile(u) \/ DiscoveryBusy(u)
    \/ ProfilesTick

ProfilesSpec == ProfilesInit /\ [][ProfilesNext]_profileVars

-----------------------------------------------------------------------------
ProfilesTypeOK ==
    /\ Cached \subseteq Address /\ Cardinality(Cached) <= MaxProfiles
    /\ \A u \in Cached : entry[u] \in 0..ProfileCeiling \cup 0..FailureBackoff
    /\ newer \in [Cached -> SUBSET Cached]
    /\ \A u, v \in Cached : IF u = v THEN u \notin newer[v] ELSE u \in newer[v] <=> v \notin newer[u]
    /\ missed \subseteq Address /\ fetching \subseteq Address

\* "a flood of one-off profile URLs must not push out the platforms that
\* actually call": an address with a promise that has not run out is answered
\* from the cache, as long as fewer than MaxProfiles others were used since
\* (cached, remember, evictLocked).
CallersStay ==
    \A u \in Address :
        Cardinality(after[u]) < MaxProfiles /\ promised[u] > 0 => u \in Cached /\ entry[u] = promised[u]
=============================================================================
