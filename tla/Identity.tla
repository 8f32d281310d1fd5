------------------------------ MODULE Identity ------------------------------
(***************************************************************************)
(* Linked accounts in one pod: the verifier of bearer tokens with its      *)
(* cache, and the gate in front of the account tools.  A token is known to *)
(* one store or to several; Django decides.  Requests with the same token  *)
(* may ask Django at the same time, and the last to be answered leaves its *)
(* verdict in the cache.  Lifetimes are in ticks, and a call takes at most *)
(* ProbeTicks of them.                                                     *)
(***************************************************************************)
EXTENDS Naturals, FiniteSets

CONSTANTS
    Store, Token,
    Caller,      \* the requests that are verified at the same time
    CacheTTL, ProbeTicks,
    CacheMax     \* entries of the cache

ASSUME IdentityAssumption ==
    /\ CacheTTL \in Nat \ {0} /\ ProbeTicks \in Nat /\ CacheMax \in Nat \ {0}

VARIABLES
    grants,    \* Django: what each store makes of each token
    revoked,   \* history: the ticks since a token was last good at a store (capped)
    verdicts,  \* the cache
    probes,    \* per request: its call of /agent/me, if one is under way
    replied    \* of the request that was just answered

identityVars == <<grants, revoked, verdicts, probes, replied>>

Credential == Store \X Token
Verdict == {"profile", "bare", "unauth"}
LongAgo == CacheTTL + ProbeTicks + 1
NoProbe == [at |-> "none", who |-> <<>>, verdict |-> "unauth", age |-> 0]
NoOutcome == [who |-> <<>>, answer |-> "none"]

\* Tokens are good from the start and may be revoked; "bare" is one without the
\* scope of its profile, and "unauth" one the store does not know.
IdentityInit ==
    /\ grants \in [Credential -> Verdict]
    /\ revoked = [c \in Credential |-> LongAgo]
    /\ verdicts = [k \in {} |-> [verdict |-> "unauth", left |-> 0]]
    /\ probes = [q \in Caller |-> NoProbe]
    /\ replied = NoOutcome

-----------------------------------------------------------------------------
\* Mutant: a verdict is cached for the token alone.
CacheKeyToken(c) == <<c[2]>>

\* A verdict is only valid for the store it was obtained for.
CacheKey(c) == c

Hit(c) == CacheKey(c) \in DOMAIN verdicts /\ verdicts[CacheKey(c)].left > 0

\* Middleware and RequireLinkedAccount: an account tool is for a linked account,
\* the rest is open to anonymous callers too, but not to a bad token.
Outcome(c, v) == [who |-> c, answer |-> IF v = "unauth" THEN "challenge" ELSE "linked"]

Anonymous ==
    /\ \E tool \in {"open", "account", "notOffered"} :
          replied' = [who |-> <<>>, answer |-> IF tool = "account" THEN "challenge" ELSE "open"]
    /\ UNCHANGED <<grants, revoked, verdicts, probes>>

VerifyCached(c) ==
    /\ Hit(c)
    /\ replied' = Outcome(c, verdicts[CacheKey(c)].verdict)
    /\ UNCHANGED <<grants, revoked, verdicts, probes>>

\* Whether another request is asking the same, the verifier does not look.
StartProbe(q, c) ==
    /\ ~Hit(c) /\ probes[q].at = "none"
    /\ probes' = [probes EXCEPT ![q] = [at |-> "sent", who |-> c, verdict |-> "unauth", age |-> 0]]
    /\ replied' = NoOutcome
    /\ UNCHANGED <<grants, revoked, verdicts>>

DjangoVerifies(q) ==
    /\ probes[q].at = "sent"
    /\ probes' = [probes EXCEPT ![q].at = "answered", ![q].verdict = grants[probes[q].who]]
    /\ replied' = NoOutcome
    /\ UNCHANGED <<grants, revoked, verdicts>>

KeptVerdict(v) == [verdict |-> v, left |-> CacheTTL]

\* Any verdict is cached; a cache at its cap is emptied first.
ProbeEnds(q) ==
    LET c == probes[q].who
        k == CacheKey(c)
        others == IF Cardinality(DOMAIN verdicts) >= CacheMax THEN {} ELSE DOMAIN verdicts
        v == probes[q].verdict
    IN
    /\ probes[q].at = "answered"
    /\ verdicts' = [x \in others \cup {k} |-> IF x = k THEN KeptVerdict(v) ELSE verdicts[x]]
    /\ replied' = Outcome(c, v)
    /\ probes' = [probes EXCEPT ![q] = NoProbe]
    /\ UNCHANGED <<grants, revoked>>

\* Django does not answer: 503, and nothing is cached.
ProbeFails(q) ==
    /\ probes[q].at # "none"
    /\ probes' = [probes EXCEPT ![q] = NoProbe]
    /\ replied' = [who |-> probes[q].who, answer |-> "unavailable"]
    /\ UNCHANGED <<grants, revoked, verdicts>>

RevokeGrant(c) ==
    /\ grants[c] # "unauth"
    /\ grants' = [grants EXCEPT ![c] = "unauth"]
    /\ revoked' = [revoked EXCEPT ![c] = 0]
    /\ replied' = NoOutcome
    /\ UNCHANGED <<verdicts, probes>>

IdentityTick ==
    /\ \A q \in Caller : probes[q].at # "none" => probes[q].age < ProbeTicks
    /\ revoked' = [c \in Credential |-> IF revoked[c] < LongAgo THEN revoked[c] + 1 ELSE LongAgo]
    /\ verdicts' = [k \in DOMAIN verdicts |-> [verdicts[k] EXCEPT !.left = IF @ = 0 THEN 0 ELSE @ - 1]]
    /\ probes' = [q \in Caller |-> IF probes[q].at = "none" THEN NoProbe ELSE [probes[q] EXCEPT !.age = @ + 1]]
    /\ replied' = NoOutcome
    /\ UNCHANGED grants

IdentityNext ==
    \/ Anonymous \/ IdentityTick
    \/ \E c \in Credential : VerifyCached(c) \/ RevokeGrant(c) \/ \E q \in Caller : StartProbe(q, c)
    \/ \E q \in Caller : DjangoVerifies(q) \/ ProbeEnds(q) \/ ProbeFails(q)

IdentitySpec == IdentityInit /\ [][IdentityNext]_identityVars

-----------------------------------------------------------------------------
IdentityTypeOK ==
    /\ grants \in [Credential -> Verdict]
    /\ revoked \in [Credential -> 0..LongAgo]
    /\ Cardinality(DOMAIN verdicts) <= CacheMax
    /\ \A k \in DOMAIN verdicts : verdicts[k].verdict \in Verdict /\ verdicts[k].left \in 0..CacheTTL
    /\ \A q \in Caller : probes[q] # NoProbe => probes[q].who \in Credential /\ probes[q].age \in 0..ProbeTicks

\* "short enough that token revocation propagates quickly": a request is linked
\* only with a token that this very store honours, or did so no longer ago than
\* the cache keeps a verdict and a call takes, also when an old answer comes late
\* and takes the place of a newer one (Verifier.Verify).
RevocationSpreads ==
    replied.answer = "linked" =>
        grants[replied.who] # "unauth" \/ revoked[replied.who] <= CacheTTL + ProbeTicks
=============================================================================
