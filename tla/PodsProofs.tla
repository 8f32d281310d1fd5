----------------------------- MODULE PodsProofs -----------------------------
(***************************************************************************)
(* What pods keep of a tenant and of its callers, for any number of pods,  *)
(* tenants, keys, clients and tokens and for every lifetime: the resolver  *)
(* of tenants, the signing keys, the cache of profiles, the negotiation,   *)
(* the rate limiter and the verifier of tokens.  Each part has its         *)
(* inductive invariant before its lemmas.                                  *)
(***************************************************************************)
EXTENDS Pods, FiniteSetTheorems, TLAPS

-----------------------------------------------------------------------------
(* SigningKeys.  PodsAgree is not inductive: a key must also have been     *)
(* stored before any call returned it, and a pod that remembers a key      *)
(* remembers the stored one.  A key about to be stored has been minted.    *)
KeysInv ==
    /\ KeysTypeOK /\ PodsAgree
    /\ storedKey = Unminted => usedKeys = {}
    /\ storedKey # Unminted => storedKey \in minted
    /\ \A p \in KeyPod :
        /\ keyMemory[p] \in {Unminted, storedKey}
        /\ keyCall[p].at = "setnx" => keyCall[p].key \in minted

(* At first there is no key, and nobody used one.                          *)
LEMMA KeysInitially == KeysInit => KeysInv
<1> SUFFICES ASSUME KeysInit PROVE KeysInv
    OBVIOUS
<1>1. KeysTypeOK /\ PodsAgree
    BY DEF KeysInit, KeysTypeOK, PodsAgree, NoKeyCall
<1>2. \A p \in KeyPod : keyMemory[p] = Unminted /\ keyCall[p].at = "idle"
    BY DEF KeysInit, NoKeyCall
<1> QED
    BY <1>1, <1>2 DEF KeysInit, KeysInv

(* A call that returns the stored key keeps the invariant.                 *)
LEMMA ReturnsStored ==
    ASSUME KeysInv, NEW p \in KeyPod, NEW k \in KeyPair,
           ReturnKey(p, k), storedKey' = k, storedKey \in {Unminted, k},
           k \in minted, UNCHANGED minted
    PROVE  KeysInv'
<1> USE SigningKeysAssumption DEF KeysInv, KeysTypeOK, PodsAgree, ReturnKey
<1>1. KeysTypeOK' /\ PodsAgree'
    BY DEF KeyCallEnds, NoKeyCall
<1>2. \A q \in KeyPod : keyMemory'[q] \in {Unminted, storedKey'}
    OBVIOUS
<1>3. \A q \in KeyPod : keyCall'[q].at = "setnx" => keyCall'[q].key \in minted'
    BY DEF KeyCallEnds, NoKeyCall
<1> QED
    BY <1>1, <1>2, <1>3

(* Every step of a call keeps it, also where Redis fails after storing.    *)
LEMMA KeysStep == KeysInv /\ [KeysNext]_keyVars => KeysInv'
<1> SUFFICES ASSUME KeysInv, [KeysNext]_keyVars PROVE KeysInv'
    OBVIOUS
<1>0. KeysTypeOK /\ PodsAgree
    BY DEF KeysInv
<1>1. ASSUME NEW p \in KeyPod, ForSchema(p) PROVE KeysInv'
    <2>1. CASE keyMemory[p] # Unminted
        <3>1. ReturnKey(p, storedKey) /\ storedKey \in KeyPair
            BY <1>1, <2>1, <1>0 DEF ForSchema, KeysInv, KeysTypeOK
        <3> QED
            BY <1>1, <2>1, <3>1, ReturnsStored, SigningKeysAssumption
               DEF ForSchema, KeysInv
    <2>2. CASE keyMemory[p] = Unminted
        BY <1>1, <2>2 DEF ForSchema, KeyCallAt, KeysInv, KeysTypeOK, PodsAgree
    <2> QED
        BY <2>1, <2>2
<1>2. ASSUME NEW p \in KeyPod, GetKey(p) PROVE KeysInv'
    <2>1. CASE storedKey # Unminted
        <3>1. storedKey \in KeyPair
            BY <2>1, <1>0 DEF KeysTypeOK
        <3> QED
            BY <1>2, <2>1, <3>1, ReturnsStored DEF GetKey, KeysInv
    <2>2. CASE storedKey = Unminted
        BY <1>2, <2>2 DEF GetKey, KeyCallAt, KeysInv, KeysTypeOK, PodsAgree
    <2> QED
        BY <2>1, <2>2
<1>3. ASSUME NEW p \in KeyPod, StoreKey(p) PROVE KeysInv'
    <2>1. CASE storedKey = Unminted
        <3>1. keyCall[p].key \in minted /\ keyCall[p].key \in KeyPair
            BY <1>3 DEF StoreKey, KeysInv, KeysTypeOK
        <3> QED
            BY <1>3, <2>1, <3>1, ReturnsStored DEF StoreKey
    <2>2. CASE storedKey # Unminted
        BY <1>3, <2>2 DEF StoreKey, KeyCallAt, KeysInv, KeysTypeOK, PodsAgree
    <2> QED
        BY <2>1, <2>2
<1>4. ASSUME NEW p \in KeyPod, KeyCallFails(p) PROVE KeysInv'
    BY <1>4, SigningKeysAssumption
       DEF KeyCallFails, KeyCallEnds, NoKeyCall, KeysInv, KeysTypeOK, PodsAgree
<1>5. ASSUME NEW p \in KeyPod, ForgetKey(p) PROVE KeysInv'
    BY <1>5 DEF ForgetKey, KeysInv, KeysTypeOK, PodsAgree
<1>6. CASE UNCHANGED keyVars
    BY <1>6 DEF keyVars, KeysInv, KeysTypeOK, PodsAgree
<1> QED
    BY <1>1, <1>2, <1>3, <1>4, <1>5, <1>6 DEF KeysNext

(* Whatever pods mint at once, fail to store or forget: a tenant signs with *)
(* one key ever, the one that every pod publishes.                         *)
THEOREM KeysPodsAgree == KeysSpec => []PodsAgree
<1>1. KeysInv => PodsAgree
    BY DEF KeysInv
<1> QED
    BY <1>1, KeysInitially, KeysStep, PTL DEF KeysSpec

-----------------------------------------------------------------------------
(* Identity.  A verdict that outlived its grant is as old as the call that *)
(* carries it, and in the cache its age and what is left of it add up.     *)
ProbesAreRecent ==
    \A q \in Caller :
        /\ probes[q].at = "answered" /\ probes[q].verdict # "unauth"
        /\ grants[probes[q].who] = "unauth"
        => revoked[probes[q].who] <= probes[q].age

VerdictsAreRecent ==
    \A c \in DOMAIN verdicts :
        /\ verdicts[c].left > 0 /\ verdicts[c].verdict # "unauth"
        /\ grants[c] = "unauth"
        => revoked[c] + verdicts[c].left <= CacheTTL + ProbeTicks

ProbeType ==
    {NoProbe} \cup [at : {"sent", "answered"}, who : Credential, verdict : Verdict, age : 0..ProbeTicks]
VerdictType == [verdict : Verdict, left : 0..CacheTTL]

IdentityType ==
    /\ grants \in [Credential -> Verdict]
    /\ revoked \in [Credential -> 0..LongAgo]
    /\ probes \in [Caller -> ProbeType]
    /\ DOMAIN verdicts \subseteq Credential
    /\ verdicts \in [DOMAIN verdicts -> VerdictType]
    /\ IsFiniteSet(DOMAIN verdicts) /\ Cardinality(DOMAIN verdicts) <= CacheMax

IdentityInv ==
    /\ IdentityType /\ ProbesAreRecent /\ VerdictsAreRecent
    /\ replied.answer = "linked" => replied.who \in Credential
    /\ RevocationSpreads

(* Nothing is under way, cached or revoked at the start.                   *)
LEMMA IdentityInitially == IdentityInit => IdentityInv
<1> SUFFICES ASSUME IdentityInit PROVE IdentityInv
    OBVIOUS
<1> USE IdentityAssumption
<1>1. IsFiniteSet({}) /\ Cardinality({}) = 0
    BY FS_EmptySet
<1>2. DOMAIN verdicts = {}
    BY DEF IdentityInit
<1>3. IdentityType
    BY <1>1, <1>2 DEF IdentityInit, IdentityType, ProbeType, Verdict, LongAgo
<1>4. \A q \in Caller : probes[q].at = "none"
    BY DEF IdentityInit, NoProbe
<1>5. replied.answer = "none"
    BY DEF IdentityInit, NoOutcome
<1> QED
    BY <1>2, <1>3, <1>4, <1>5
       DEF IdentityInv, ProbesAreRecent, VerdictsAreRecent, RevocationSpreads

(* A request is linked with a verdict of its own credential.               *)
LEMMA LinkedBy ==
    ASSUME NEW c \in Credential, NEW v \in Verdict, replied' = Outcome(c, v),
           replied'.answer = "linked"
    PROVE  replied'.who = c /\ v # "unauth"
BY DEF Outcome

(* What is kept of a verdict, with the entries that were not dropped, stays *)
(* within the cache.                                                       *)
LEMMA CacheStaysSmall ==
    ASSUME NEW S, IsFiniteSet(S), Cardinality(S) <= CacheMax, NEW k,
           NEW T, T = IF Cardinality(S) >= CacheMax THEN {} ELSE S
    PROVE  IsFiniteSet(T \cup {k}) /\ Cardinality(T \cup {k}) <= CacheMax
<1>1. IsFiniteSet({}) /\ Cardinality({}) = 0
    BY FS_EmptySet
<1>2. IsFiniteSet(T) /\ Cardinality(T) + 1 <= CacheMax /\ Cardinality(T) \in Nat
    BY <1>1, FS_CardinalityType, IdentityAssumption
<1>3. /\ IsFiniteSet(T \cup {k})
      /\ Cardinality(T \cup {k}) \in {Cardinality(T), Cardinality(T) + 1}
    BY <1>2, FS_AddElement
<1> QED
    BY <1>2, <1>3, IdentityAssumption

(* A call that is under way has the credential it asks about.              *)
LEMMA ProbeIs ==
    ASSUME NEW p \in ProbeType
    PROVE  IF p.at = "none" THEN p = NoProbe
           ELSE /\ p.at \in {"sent", "answered"} /\ p.who \in Credential
                /\ p.verdict \in Verdict /\ p.age \in 0..ProbeTicks
BY DEF ProbeType, NoProbe

(* The answer of Django is cached, and answered with.                      *)
LEMMA ProbeEndsStep ==
    ASSUME IdentityInv, NEW q \in Caller, ProbeEnds(q)
    PROVE  IdentityInv'
<1> USE IdentityAssumption
<1> DEFINE c == probes[q].who
           v == probes[q].verdict
           others == IF Cardinality(DOMAIN verdicts) >= CacheMax THEN {} ELSE DOMAIN verdicts
<1>0. probes[q] \in ProbeType /\ probes[q].at = "answered"
    BY DEF ProbeEnds, IdentityInv, IdentityType
<1>1. /\ c \in Credential /\ v \in Verdict /\ probes[q].age \in 0..ProbeTicks
      /\ verdicts' = [x \in others \cup {c} |-> IF x = c THEN KeptVerdict(v) ELSE verdicts[x]]
      /\ replied' = Outcome(c, v) /\ probes' = [probes EXCEPT ![q] = NoProbe]
      /\ UNCHANGED <<grants, revoked>>
    BY <1>0, ProbeIs DEF ProbeEnds, CacheKey
<1>2. DOMAIN verdicts' = others \cup {c}
    BY <1>1
<1>3. IsFiniteSet(others \cup {c}) /\ Cardinality(others \cup {c}) <= CacheMax
    BY CacheStaysSmall DEF IdentityInv, IdentityType
<1>4. KeptVerdict(v) \in VerdictType
    BY <1>1 DEF KeptVerdict, VerdictType
<1>a. probes' \in [Caller -> ProbeType]
    BY <1>1 DEF IdentityInv, IdentityType, ProbeType
<1>5. IdentityType'
    BY <1>1, <1>2, <1>3, <1>4, <1>a DEF IdentityInv, IdentityType
<1>6. ProbesAreRecent'
    <2>1. \A x \in Caller : probes'[x] = IF x = q THEN NoProbe ELSE probes[x]
        BY <1>1 DEF IdentityInv, IdentityType
    <2>2. NoProbe.at # "answered"
        BY DEF NoProbe
    <2> QED
        BY <1>1, <2>1, <2>2 DEF IdentityInv, ProbesAreRecent
<1>b. revoked[c] \in 0..LongAgo
    BY <1>1 DEF IdentityInv, IdentityType
<1>7. revoked[c] <= ProbeTicks \/ v = "unauth" \/ grants[c] # "unauth"
    <2>1. v # "unauth" /\ grants[c] = "unauth" => revoked[c] <= probes[q].age
        BY <1>0 DEF IdentityInv, ProbesAreRecent
    <2> QED
        BY <1>1, <1>b, <2>1 DEF LongAgo
<1> HIDE DEF c, v
<1>8. VerdictsAreRecent'
    BY <1>1, <1>2, <1>b, <1>7 DEF IdentityInv, IdentityType, VerdictsAreRecent,
       KeptVerdict, LongAgo
<1>9. (replied.answer = "linked" => replied.who \in Credential)' /\ RevocationSpreads'
    BY <1>1, <1>b, <1>7, LinkedBy DEF RevocationSpreads, IdentityInv, IdentityType, LongAgo
<1> QED
    BY <1>5, <1>6, <1>8, <1>9 DEF IdentityInv

(* Time passes for grants, calls and verdicts alike.                       *)
LEMMA IdentityTickStep ==
    ASSUME IdentityInv, IdentityTick
    PROVE  IdentityInv'
<1> USE IdentityAssumption DEF IdentityInv
<1>1. /\ \A c \in Credential :
            /\ revoked[c] \in 0..LongAgo /\ revoked'[c] \in 0..LongAgo
            /\ revoked'[c] <= revoked[c] + 1
      /\ revoked' \in [Credential -> 0..LongAgo]
    BY DEF IdentityTick, IdentityType, LongAgo
<1>2. /\ probes' \in [Caller -> ProbeType]
      /\ \A q \in Caller :
            /\ probes'[q].at = probes[q].at /\ probes'[q].verdict = probes[q].verdict
            /\ probes'[q].who = probes[q].who
            /\ probes[q].at # "none" => probes'[q].age = probes[q].age + 1
    <2> DEFINE Aged(p) == IF p.at = "none" THEN NoProbe ELSE [p EXCEPT !.age = @ + 1]
    <2>1. probes' = [q \in Caller |-> Aged(probes[q])]
        BY DEF IdentityTick
    <2>2. \A q \in Caller :
              /\ probes[q] \in ProbeType
              /\ probes[q].at # "none" => probes[q].age < ProbeTicks
        BY DEF IdentityTick, IdentityType
    <2>3. \A p \in ProbeType : (p.at # "none" => p.age < ProbeTicks) =>
              /\ Aged(p) \in ProbeType /\ Aged(p).at = p.at /\ Aged(p).verdict = p.verdict /\ Aged(p).who = p.who
              /\ p.at # "none" => Aged(p).age = p.age + 1
        BY DEF ProbeType, NoProbe
    <2> HIDE DEF Aged
    <2> QED
        BY <2>1, <2>2, <2>3
<1>3. /\ DOMAIN verdicts' = DOMAIN verdicts
      /\ verdicts' \in [DOMAIN verdicts -> VerdictType]
      /\ \A c \in DOMAIN verdicts :
            /\ verdicts'[c].verdict = verdicts[c].verdict
            /\ verdicts'[c].left > 0 => verdicts'[c].left = verdicts[c].left - 1
    <2> DEFINE Aged(v) == [v EXCEPT !.left = IF @ = 0 THEN 0 ELSE @ - 1]
    <2>1. verdicts' = [c \in DOMAIN verdicts |-> Aged(verdicts[c])]
        BY DEF IdentityTick
    <2>2. \A v \in VerdictType :
              /\ Aged(v) \in VerdictType /\ Aged(v).verdict = v.verdict
              /\ Aged(v).left > 0 => Aged(v).left = v.left - 1
        BY DEF VerdictType
    <2>3. \A c \in DOMAIN verdicts : verdicts[c] \in VerdictType
        BY DEF IdentityType
    <2> HIDE DEF Aged
    <2> QED
        BY <2>1, <2>2, <2>3
<1>4. IdentityType'
    BY <1>1, <1>2, <1>3 DEF IdentityTick, IdentityType
<1>5. ProbesAreRecent'
    <2> SUFFICES ASSUME NEW q \in Caller, probes'[q].at = "answered",
                        probes'[q].verdict # "unauth", grants'[probes'[q].who] = "unauth"
                 PROVE  revoked'[probes'[q].who] <= probes'[q].age
        BY DEF ProbesAreRecent
    <2> DEFINE c == probes[q].who
    <2>1. /\ probes[q].at = "answered" /\ probes[q].verdict # "unauth"
          /\ grants[c] = "unauth" /\ probes'[q].who = c /\ probes'[q].age = probes[q].age + 1
        BY <1>2 DEF IdentityTick
    <2>2. c \in Credential /\ probes[q].age \in Int
        BY <2>1, ProbeIs DEF IdentityType
    <2>3. revoked[c] <= probes[q].age
        BY <2>1 DEF ProbesAreRecent
    <2> HIDE DEF c
    <2>4. revoked[c] \in Int /\ revoked'[c] \in Int /\ revoked'[c] <= revoked[c] + 1
        BY <1>1, <2>2
    <2> QED
        BY <2>1, <2>2, <2>3, <2>4
<1>6. VerdictsAreRecent'
    <2> SUFFICES ASSUME NEW c \in DOMAIN verdicts, verdicts'[c].left > 0,
                        verdicts'[c].verdict # "unauth", grants[c] = "unauth"
                 PROVE  revoked'[c] + verdicts'[c].left <= CacheTTL + ProbeTicks
        BY <1>3 DEF IdentityTick, VerdictsAreRecent
    <2>1. c \in Credential /\ verdicts[c].left \in 0..CacheTTL
        BY DEF IdentityType, VerdictType
    <2>2. verdicts'[c].left = verdicts[c].left - 1 /\ verdicts[c].verdict # "unauth"
        BY <1>3
    <2>3. revoked[c] + verdicts[c].left <= CacheTTL + ProbeTicks
        BY <2>1, <2>2 DEF VerdictsAreRecent
    <2>4. /\ revoked[c] \in Int /\ revoked'[c] \in Int /\ verdicts[c].left \in Int
          /\ revoked'[c] <= revoked[c] + 1
        BY <1>1, <2>1
    <2> QED
        BY <2>2, <2>3, <2>4
<1>7. replied'.answer = "none"
    BY DEF IdentityTick, NoOutcome
<1> QED
    BY <1>4, <1>5, <1>6, <1>7 DEF RevocationSpreads

(* Every step of the verifier, of Django and of time keeps the invariant.  *)
LEMMA IdentityStep == IdentityInv /\ [IdentityNext]_identityVars => IdentityInv'
<1> SUFFICES ASSUME IdentityInv, [IdentityNext]_identityVars PROVE IdentityInv'
    OBVIOUS
<1> USE IdentityAssumption
<1>1. CASE Anonymous
    <2>1. replied'.answer # "linked"
        BY <1>1 DEF Anonymous
    <2> QED
        BY <1>1, <2>1 DEF Anonymous, IdentityInv, IdentityType, ProbesAreRecent,
           VerdictsAreRecent, RevocationSpreads
<1>2. ASSUME NEW c \in Credential, VerifyCached(c) PROVE IdentityInv'
    <2>1. /\ c \in DOMAIN verdicts /\ verdicts[c].left > 0
          /\ verdicts[c].verdict \in Verdict /\ verdicts[c].left \in 0..CacheTTL
          /\ replied' = Outcome(c, verdicts[c].verdict)
          /\ UNCHANGED <<grants, revoked, verdicts, probes>>
        BY <1>2 DEF VerifyCached, Hit, CacheKey, IdentityInv, IdentityType, VerdictType
    <2>2. (replied.answer = "linked" => replied.who \in Credential)' /\ RevocationSpreads'
        BY <2>1, LinkedBy DEF RevocationSpreads, IdentityInv, IdentityType,
           VerdictsAreRecent, LongAgo
    <2> QED
        BY <2>1, <2>2 DEF IdentityInv, IdentityType, ProbesAreRecent, VerdictsAreRecent
<1>0. \A p \in ProbeType, q \in Caller :
          /\ probes' = [probes EXCEPT ![q] = p] /\ p.at # "answered"
          /\ replied'.answer \notin {"linked"} /\ UNCHANGED <<grants, revoked, verdicts>>
          => IdentityInv'
    <2> SUFFICES ASSUME NEW p \in ProbeType, NEW q \in Caller,
                        probes' = [probes EXCEPT ![q] = p], p.at # "answered",
                        replied'.answer # "linked", UNCHANGED <<grants, revoked, verdicts>>
                 PROVE  IdentityInv'
        OBVIOUS
    <2>1. \A x \in Caller : probes'[x] = IF x = q THEN p ELSE probes[x]
        BY DEF IdentityInv, IdentityType
    <2>2. ProbesAreRecent'
        BY <2>1 DEF IdentityInv, ProbesAreRecent
    <2> QED
        BY <2>2 DEF IdentityInv, IdentityType, VerdictsAreRecent, RevocationSpreads
<1>3. ASSUME NEW c \in Credential, NEW q \in Caller, StartProbe(q, c) PROVE IdentityInv'
    <2> DEFINE p == [at |-> "sent", who |-> c, verdict |-> "unauth", age |-> 0]
    <2>1. p \in ProbeType /\ p.at # "answered"
        BY DEF ProbeType, Verdict
    <2>2. /\ probes' = [probes EXCEPT ![q] = p] /\ replied'.answer # "linked"
          /\ UNCHANGED <<grants, revoked, verdicts>>
        BY <1>3 DEF StartProbe, NoOutcome
    <2> HIDE DEF p
    <2> QED
        BY <1>0, <2>1, <2>2
<1>4. ASSUME NEW q \in Caller, DjangoVerifies(q) PROVE IdentityInv'
    <2> DEFINE c == probes[q].who
    <2>1. /\ probes[q] \in ProbeType /\ probes[q].at = "sent" /\ replied'.answer # "linked"
          /\ probes' = [probes EXCEPT ![q].at = "answered", ![q].verdict = grants[c]]
          /\ UNCHANGED <<grants, revoked, verdicts>>
        BY <1>4 DEF DjangoVerifies, NoOutcome, IdentityInv, IdentityType
    <2>2. c \in Credential /\ probes[q].verdict \in Verdict /\ probes[q].age \in 0..ProbeTicks
        BY <2>1, ProbeIs
    <2> HIDE DEF c
    <2>3. grants[c] \in Verdict
        BY <2>2 DEF IdentityInv, IdentityType
    <2>4. /\ probes'[q] = [probes[q] EXCEPT !.at = "answered", !.verdict = grants[c]]
          /\ \A x \in Caller : x # q => probes'[x] = probes[x]
          /\ probes' \in [Caller -> ProbeType]
        <3> DEFINE Open == [at : {"sent", "answered"}, who : Credential, verdict : Verdict, age : 0..ProbeTicks]
        <3>1. probes[q] \in Open
            BY <2>1 DEF ProbeType, NoProbe
        <3>2. [probes[q] EXCEPT !.at = "answered", !.verdict = grants[c]] \in Open
            BY <2>3, <3>1
        <3>3. [probes[q] EXCEPT !.at = "answered", !.verdict = grants[c]] \in ProbeType
            BY <3>2 DEF ProbeType
        <3> QED
            BY <2>1, <3>3 DEF IdentityInv, IdentityType
    <2>5. probes'[q].who = c /\ probes'[q].verdict = grants[c]
        BY <2>1, <2>4 DEF ProbeType, NoProbe, c
    <2>6. ProbesAreRecent'
        BY <2>1, <2>4, <2>5 DEF IdentityInv, ProbesAreRecent
    <2> QED
        BY <2>1, <2>4, <2>6 DEF IdentityInv, IdentityType, VerdictsAreRecent, RevocationSpreads
<1>5. ASSUME NEW q \in Caller, ProbeFails(q) PROVE IdentityInv'
    <2>1. NoProbe \in ProbeType /\ NoProbe.at # "answered"
        BY DEF ProbeType, NoProbe
    <2> QED
        <3>1. /\ probes' = [probes EXCEPT ![q] = NoProbe] /\ UNCHANGED <<grants, revoked, verdicts>>
              /\ replied'.answer # "linked"
            BY <1>5 DEF ProbeFails
        <3> QED
            BY <1>0, <2>1, <3>1
<1>6. ASSUME NEW c \in Credential, RevokeGrant(c) PROVE IdentityInv'
    <2>a. \A q \in Caller : probes[q].at = "answered" => probes[q].who \in Credential /\ probes[q].age \in Nat
        BY ProbeIs DEF IdentityInv, IdentityType
    <2>b. /\ grants' = [grants EXCEPT ![c] = "unauth"] /\ revoked' = [revoked EXCEPT ![c] = 0]
          /\ grants \in [Credential -> Verdict] /\ revoked \in [Credential -> 0..LongAgo]
          /\ UNCHANGED <<verdicts, probes>>
        BY <1>6 DEF RevokeGrant, IdentityInv, IdentityType
    <2>c. \A x \in Credential : /\ grants'[x] = IF x = c THEN "unauth" ELSE grants[x]
                                /\ revoked'[x] = IF x = c THEN 0 ELSE revoked[x]
        BY <2>b
    <2>d. ProbesAreRecent'
        BY <2>a, <2>b, <2>c DEF IdentityInv, ProbesAreRecent
    <2>1. IdentityType' /\ ProbesAreRecent'
        BY <2>b, <2>d DEF IdentityInv, IdentityType, Verdict, LongAgo
    <2>2. VerdictsAreRecent'
        BY <1>6 DEF RevokeGrant, IdentityInv, IdentityType, VerdictsAreRecent,
           VerdictType, LongAgo
    <2>3. replied'.answer = "none"
        BY <1>6 DEF RevokeGrant, NoOutcome
    <2> QED
        BY <2>1, <2>2, <2>3 DEF IdentityInv, RevocationSpreads
<1>7. CASE UNCHANGED identityVars
    BY <1>7 DEF identityVars, IdentityInv, IdentityType, ProbesAreRecent,
       VerdictsAreRecent, RevocationSpreads
<1> QED
    BY <1>1, <1>2, <1>3, <1>4, <1>5, <1>6, <1>7, ProbeEndsStep, IdentityTickStep
       DEF IdentityNext

(* However many requests ask for one token at the same time, and in        *)
(* whatever order their answers come and replace each other: no request is *)
(* linked with a token its store took back longer ago than the cache keeps *)
(* a verdict and a call takes (Verifier.Verify).                           *)
THEOREM IdentityRevocationSpreads == IdentitySpec => []RevocationSpreads
<1>1. IdentityInv => RevocationSpreads
    BY DEF IdentityInv
<1> QED
    BY <1>1, IdentityInitially, IdentityStep, PTL DEF IdentitySpec

-----------------------------------------------------------------------------
(* Limiter.  What lets an idle bucket go without harm: a bucket that has   *)
(* not been touched for so many ticks has gained the tokens of these ticks *)
(* or is full.                                                             *)
RefilledWhileIdle ==
    \A c \in DOMAIN buckets :
        c \notin pushedOut => due[c] >= Burst \/ due[c] >= Rate * buckets[c].idle

BucketType == [tokens : 0..Burst, idle : 0..(IdleEviction + 1)]

LimiterType ==
    /\ DOMAIN buckets \subseteq Client
    /\ buckets \in [DOMAIN buckets -> BucketType]
    /\ IsFiniteSet(DOMAIN buckets) /\ Cardinality(DOMAIN buckets) <= MaxBuckets
    /\ due \in [Client -> 0..Burst] /\ pushedOut \subseteq Client

LimiterInv == LimiterType /\ RefilledWhileIdle /\ EvictionIsFair

(* No client has a bucket at the start, and all are due a full one.        *)
LEMMA LimiterInitially == LimiterInit => LimiterInv
<1> SUFFICES ASSUME LimiterInit PROVE LimiterInv
    OBVIOUS
<1> USE LimiterAssumption
<1>1. IsFiniteSet({}) /\ Cardinality({}) = 0
    BY FS_EmptySet
<1>2. DOMAIN buckets = {} /\ due = [c \in Client |-> Burst] /\ pushedOut = {}
    BY DEF LimiterInit
<1>3. LimiterType
    BY <1>1, <1>2 DEF LimiterType, BucketType
<1>4. EvictionIsFair
    BY <1>2 DEF EvictionIsFair, Tokens
<1> QED
    BY <1>2, <1>3, <1>4 DEF LimiterInv, RefilledWhileIdle

(* A bucket idle for longer than IdleEviction belongs to a client that is  *)
(* due a full one.                                                         *)
LEMMA IdleIsFull ==
    ASSUME LimiterInv, NEW c \in IdleBuckets
    PROVE  c \in Client /\ (c \notin pushedOut => due[c] = Burst)
<1>1. c \in DOMAIN buckets /\ buckets[c].idle = IdleEviction + 1
    BY LimiterAssumption DEF IdleBuckets, LimiterInv, LimiterType, BucketType
<1>2. c \in Client /\ due[c] \in 0..Burst
    BY <1>1 DEF LimiterInv, LimiterType
<1>3. Rate * (IdleEviction + 1) = Rate * IdleEviction + Rate
    BY LimiterAssumption
<1>4. Rate * IdleEviction \in Nat
    BY LimiterAssumption
<1>5. Rate * (IdleEviction + 1) >= Burst
    BY <1>3, <1>4, LimiterAssumption
<1>6. c \notin pushedOut => due[c] >= Burst \/ due[c] >= Rate * (IdleEviction + 1)
    BY <1>1 DEF LimiterInv, RefilledWhileIdle
<1> QED
    BY <1>2, <1>3, <1>4, <1>5, <1>6, LimiterAssumption

(* A finite set gains at most one by one element, and nothing when it      *)
(* gives one for it.                                                       *)
LEMMA OneMore ==
    ASSUME NEW S, IsFiniteSet(S), NEW x
    PROVE  /\ IsFiniteSet(S \cup {x}) /\ Cardinality(S) \in Nat
           /\ Cardinality(S \cup {x}) \in Nat /\ Cardinality(S \cup {x}) <= Cardinality(S) + 1
<1> DEFINE U == S \cup {x}
<1>1. Cardinality(S) \in Nat
    BY FS_CardinalityType
<1>2. CASE x \in S
    <2>1. U = S
        BY <1>2
    <2> HIDE DEF U
    <2>2. Cardinality(U) = Cardinality(S) /\ IsFiniteSet(U)
        BY <2>1
    <2>3. Cardinality(U) <= Cardinality(S) + 1
        BY <1>1, <2>2
    <2> QED
        BY <1>1, <2>2, <2>3 DEF U
<1>3. CASE x \notin S
    <2>1. IsFiniteSet(U) /\ Cardinality(U) = Cardinality(S) + 1
        BY <1>3, FS_AddElement
    <2> HIDE DEF U
    <2>2. Cardinality(U) \in Nat /\ Cardinality(U) <= Cardinality(S) + 1
        BY <1>1, <2>1
    <2> QED
        BY <1>1, <2>1, <2>2 DEF U
<1> QED
    BY <1>2, <1>3

(* The same with one element given.                                        *)
LEMMA OneForOne ==
    ASSUME NEW S, IsFiniteSet(S), NEW x, NEW d \in S
    PROVE  /\ IsFiniteSet((S \ {d}) \cup {x}) /\ Cardinality(S) \in Nat
           /\ Cardinality((S \ {d}) \cup {x}) <= Cardinality(S)
<1> DEFINE R == S \ {d}
<1>1. IsFiniteSet(R) /\ Cardinality(R) = Cardinality(S) - 1
    BY FS_RemoveElement
<1>2. Cardinality(S) \in Nat
    BY FS_CardinalityType
<1> HIDE DEF R
<1>3. IsFiniteSet(R \cup {x}) /\ Cardinality(R \cup {x}) \in Nat /\ Cardinality(R \cup {x}) <= Cardinality(R) + 1
    BY <1>1, OneMore
<1>4. Cardinality(R \cup {x}) <= Cardinality(S)
    BY <1>1, <1>2, <1>3
<1> QED
    BY <1>2, <1>3, <1>4 DEF R

(* What is evicted for a new bucket keeps the table within its size.       *)
LEMMA TableStaysSmall ==
    ASSUME LimiterInv, NEW c \in Client,
           NEW out \in IF c \in DOMAIN buckets \/ Cardinality(DOMAIN buckets) < MaxBuckets
                       THEN {{}} ELSE Evictions,
           NEW T, T = (DOMAIN buckets \ out) \cup {c}
    PROVE  /\ out \subseteq DOMAIN buckets /\ (c \in DOMAIN buckets => out = {})
           /\ IsFiniteSet(T) /\ Cardinality(T) <= MaxBuckets
<1> DEFINE D == DOMAIN buckets
           busy == D \ IdleBuckets
<1>0. IdleBuckets \subseteq D
    BY DEF IdleBuckets
<1>1. IsFiniteSet(D) /\ Cardinality(D) <= MaxBuckets
    BY DEF LimiterInv, LimiterType
<1>2. out \in IF c \in D \/ Cardinality(D) < MaxBuckets THEN {{}} ELSE Evictions
    OBVIOUS
<1>3. T = (D \ out) \cup {c} /\ busy \in SUBSET D
    OBVIOUS
<1>4. ~(Cardinality(busy) < MaxBuckets) \/ Evictions = {IdleBuckets}
    BY DEF Evictions
<1>5. Cardinality(busy) < MaxBuckets \/ Evictions = {IdleBuckets \cup {d} : d \in busy}
    BY DEF Evictions
<1>6. \A x \in busy : x \in D /\ x \notin IdleBuckets
    OBVIOUS
<1>7. busy = D \ IdleBuckets
    OBVIOUS
<1>8. (out \subseteq D /\ (c \in D => out = {}) /\ IsFiniteSet(T) /\ Cardinality(T) <= MaxBuckets)
      => (out \subseteq DOMAIN buckets /\ (c \in DOMAIN buckets => out = {})
          /\ IsFiniteSet(T) /\ Cardinality(T) <= MaxBuckets)
    OBVIOUS
<1> HIDE DEF D, busy
<1>9. IsFiniteSet(busy) /\ Cardinality(busy) <= Cardinality(D)
    BY <1>1, <1>3, FS_Subset
<1>10. Cardinality(D) \in Nat /\ Cardinality(busy) \in Nat /\ MaxBuckets \in Nat
    BY <1>1, <1>9, FS_CardinalityType, LimiterAssumption
<1>11. CASE c \in D
    <2>1. out = {} /\ T = D
        BY <1>2, <1>3, <1>11
    <2> QED
        BY <1>1, <1>8, <2>1
<1>12. CASE c \notin D /\ Cardinality(D) < MaxBuckets
    <2>1. out = {} /\ T = D \cup {c}
        BY <1>2, <1>3, <1>12
    <2>2. /\ IsFiniteSet(T) /\ Cardinality(T) \in Nat /\ Cardinality(T) <= Cardinality(D) + 1
        BY <1>1, <2>1, OneMore
    <2>3. Cardinality(T) <= MaxBuckets
        BY <1>10, <1>12, <2>2
    <2> QED
        BY <1>8, <1>12, <2>1, <2>2, <2>3
<1>13. CASE c \notin D /\ ~(Cardinality(D) < MaxBuckets) /\ Cardinality(busy) < MaxBuckets
    <2>1. out = IdleBuckets /\ T = busy \cup {c}
        BY <1>2, <1>3, <1>4, <1>7, <1>13
    <2>2. /\ IsFiniteSet(T) /\ Cardinality(T) \in Nat /\ Cardinality(T) <= Cardinality(busy) + 1
        BY <1>9, <2>1, OneMore
    <2>3. Cardinality(T) <= MaxBuckets
        BY <1>10, <1>13, <2>2
    <2> QED
        BY <1>0, <1>8, <1>13, <2>1, <2>2, <2>3 DEF D
<1>14. CASE c \notin D /\ ~(Cardinality(D) < MaxBuckets) /\ ~(Cardinality(busy) < MaxBuckets)
    <2>1. out \in {IdleBuckets \cup {d} : d \in busy}
        BY <1>2, <1>5, <1>14
    <2>2. PICK d \in busy : out = IdleBuckets \cup {d}
        BY <2>1
    <2>3. T = (busy \ {d}) \cup {c}
        BY <1>3, <1>7, <2>2
    <2>4. /\ IsFiniteSet((busy \ {d}) \cup {c})
          /\ Cardinality((busy \ {d}) \cup {c}) <= Cardinality(busy)
        BY <1>9, OneForOne
    <2>5. Cardinality((busy \ {d}) \cup {c}) \in Nat
        BY <2>4, FS_CardinalityType
    <2>6. Cardinality((busy \ {d}) \cup {c}) <= MaxBuckets
        BY <1>1, <1>9, <1>10, <2>4, <2>5
    <2>7. IsFiniteSet(T) /\ Cardinality(T) <= MaxBuckets
        BY <2>3, <2>4, <2>6
    <2>8. out \subseteq D
        BY <1>0, <1>6, <2>2 DEF D
    <2> QED
        BY <1>8, <1>14, <2>7, <2>8
<1> QED
    BY <1>11, <1>12, <1>13, <1>14

(* A request, with the eviction it may cause.                              *)
LEMMA AllowStep ==
    ASSUME LimiterInv, NEW c \in Client, Allow(c)
    PROVE  LimiterInv'
<1> USE LimiterAssumption
<1> DEFINE table == IF c \in DOMAIN buckets \/ Cardinality(DOMAIN buckets) < MaxBuckets
                    THEN {{}} ELSE Evictions
<1>1. PICK out \in table :
        /\ buckets' = [d \in (DOMAIN buckets \ out) \cup {c} |->
                          IF d = c THEN [tokens |-> Spend(Tokens(c)), idle |-> 0] ELSE buckets[d]]
        /\ due' = [due EXCEPT ![c] = Spend(@)]
        /\ pushedOut' = pushedOut \cup (out \ IdleBuckets)
    BY DEF Allow
<1> DEFINE T == (DOMAIN buckets \ out) \cup {c}
<1>2. /\ out \subseteq DOMAIN buckets /\ (c \in DOMAIN buckets => out = {})
      /\ IsFiniteSet(T) /\ Cardinality(T) <= MaxBuckets
    BY TableStaysSmall
<1>3. DOMAIN buckets' = T
    BY <1>1
<1>4. /\ due \in [Client -> 0..Burst] /\ DOMAIN buckets \subseteq Client
      /\ \A d \in DOMAIN buckets : buckets[d] \in BucketType
    BY DEF LimiterInv, LimiterType
<1>5. Tokens(c) \in 0..Burst /\ due[c] \in 0..Burst
    BY <1>4 DEF Tokens, BucketType
<1>6. Spend(Tokens(c)) \in 0..Burst /\ Spend(due[c]) \in 0..Burst
    BY <1>5 DEF Spend
<1>7. LimiterType'
    <2>1. \A d \in T : buckets'[d] \in BucketType
        BY <1>1, <1>4, <1>6 DEF BucketType
    <2>2. buckets' \in [T -> BucketType]
        BY <1>1, <2>1
    <2>3. due' \in [Client -> 0..Burst] /\ pushedOut' \subseteq Client
        BY <1>1, <1>2, <1>4, <1>6 DEF LimiterInv, LimiterType
    <2> QED
        BY <1>2, <1>3, <1>4, <2>2, <2>3 DEF LimiterType
<1>8. RefilledWhileIdle'
    <2> SUFFICES ASSUME NEW d \in T, d \notin pushedOut'
                 PROVE  due'[d] >= Burst \/ due'[d] >= Rate * buckets'[d].idle
        BY <1>3 DEF RefilledWhileIdle
    <2>1. CASE d = c
        <3>1. due'[d] = Spend(due[c]) /\ buckets'[d].idle = 0
            BY <1>1, <1>4, <2>1
        <3> QED
            BY <3>1, <1>6
    <2>2. CASE d # c
        <3>1. /\ d \in DOMAIN buckets /\ d \notin pushedOut
              /\ due'[d] = due[d] /\ buckets'[d] = buckets[d]
            BY <1>1, <1>4, <2>2
        <3> QED
            BY <3>1 DEF LimiterInv, RefilledWhileIdle
    <2> QED
        BY <2>1, <2>2
<1>9. EvictionIsFair'
    <2> SUFFICES ASSUME NEW d \in Client
                 PROVE  /\ Tokens(d)' >= due'[d]
                        /\ d \notin pushedOut' => Tokens(d)' = due'[d]
        BY DEF EvictionIsFair
    <2>1. due[d] \in 0..Burst /\ Tokens(d) >= due[d] /\ (d \notin pushedOut => Tokens(d) = due[d])
        BY <1>4 DEF LimiterInv, EvictionIsFair
    <2>2. CASE d = c
        <3>1. Tokens(d)' = Spend(Tokens(c)) /\ due'[d] = Spend(due[c])
            BY <1>1, <1>3, <1>4, <2>2 DEF Tokens
        <3>2. d \notin pushedOut' => d \notin pushedOut
            BY <1>1
        <3> QED
            BY <2>1, <2>2, <3>1, <3>2, <1>5 DEF Spend
    <2>3. CASE d # c /\ d \in T
        <3>1. Tokens(d)' = Tokens(d) /\ due'[d] = due[d]
            BY <1>1, <1>3, <1>4, <2>3 DEF Tokens
        <3>2. d \notin pushedOut' => d \notin pushedOut
            BY <1>1
        <3> QED
            BY <2>1, <3>1, <3>2
    <2>4. CASE d # c /\ d \notin T /\ d \in DOMAIN buckets
        <3>1. Tokens(d)' = Burst /\ due'[d] = due[d]
            BY <1>1, <1>3, <1>4, <2>4 DEF Tokens
        <3>2. d \notin pushedOut' => d \notin pushedOut /\ d \in IdleBuckets
            BY <1>1, <2>4
        <3> QED
            BY <2>1, <3>1, <3>2, IdleIsFull
    <2>5. CASE d # c /\ d \notin T /\ d \notin DOMAIN buckets
        <3>1. Tokens(d)' = Burst /\ Tokens(d) = Burst /\ due'[d] = due[d]
            BY <1>1, <1>3, <1>4, <2>5 DEF Tokens
        <3>2. d \notin pushedOut' => d \notin pushedOut
            BY <1>1
        <3> QED
            BY <2>1, <3>1, <3>2
    <2> QED
        BY <2>2, <2>3, <2>4, <2>5
<1> QED
    BY <1>7, <1>8, <1>9 DEF LimiterInv

(* A tick refills every bucket, in the table and in the one without limit. *)
LEMMA LimiterTickStep ==
    ASSUME LimiterInv, LimiterTick
    PROVE  LimiterInv'
<1> USE LimiterAssumption
<1>1. /\ due \in [Client -> 0..Burst] /\ DOMAIN buckets \subseteq Client
      /\ \A d \in DOMAIN buckets : buckets[d].tokens \in 0..Burst
                                   /\ buckets[d].idle \in 0..(IdleEviction + 1)
    BY DEF LimiterInv, LimiterType, BucketType
<1>2. /\ DOMAIN buckets' = DOMAIN buckets
      /\ \A d \in DOMAIN buckets :
            /\ buckets'[d].tokens = Capped(buckets[d].tokens + Rate)
            /\ buckets'[d].idle \in {buckets[d].idle, buckets[d].idle + 1}
            /\ buckets'[d] \in BucketType
    BY <1>1 DEF LimiterTick, BucketType, Capped
<1>3. /\ due' \in [Client -> 0..Burst]
      /\ \A d \in Client : due'[d] = Capped(due[d] + Rate)
    BY <1>1 DEF LimiterTick, Capped
<1>4. pushedOut' = {c \in pushedOut : due'[c] < Burst}
    BY DEF LimiterTick
<1>5. LimiterType'
    <2>1. buckets' \in [DOMAIN buckets' -> BucketType]
        BY <1>2 DEF LimiterTick
    <2> QED
        BY <1>2, <1>3, <1>4, <2>1 DEF LimiterInv, LimiterType
<1>6. EvictionIsFair'
    <2> SUFFICES ASSUME NEW d \in Client
                 PROVE  /\ Tokens(d)' >= due'[d]
                        /\ d \notin pushedOut' => Tokens(d)' = due'[d]
        BY DEF EvictionIsFair
    <2>1. due[d] \in 0..Burst /\ Tokens(d) >= due[d] /\ (d \notin pushedOut => Tokens(d) = due[d])
        BY <1>1 DEF LimiterInv, EvictionIsFair
    <2>2. Tokens(d) \in 0..Burst /\ Tokens(d)' = Capped(Tokens(d) + Rate)
        BY <1>1, <1>2 DEF Tokens, Capped
    <2>3. due'[d] = Capped(due[d] + Rate)
        BY <1>3
    <2>4. d \notin pushedOut' => d \notin pushedOut \/ ~(due'[d] < Burst)
        BY <1>4
    <2> QED
        BY <2>1, <2>2, <2>3, <2>4 DEF Capped
<1>7. RefilledWhileIdle'
    <2> SUFFICES ASSUME NEW d \in DOMAIN buckets, d \notin pushedOut'
                 PROVE  due'[d] >= Burst \/ due'[d] >= Rate * buckets'[d].idle
        BY <1>2 DEF RefilledWhileIdle
    <2>1. /\ due[d] \in 0..Burst /\ due'[d] = Capped(due[d] + Rate)
          /\ buckets[d].idle \in Nat
        BY <1>1, <1>3
    <2>2. CASE due'[d] >= Burst
        BY <2>2
    <2>3. CASE ~(due'[d] >= Burst)
        <3>1. d \notin pushedOut
            BY <1>1, <1>3, <1>4, <2>3
        <3>2. due'[d] = due[d] + Rate /\ due[d] < Burst
            BY <2>1, <2>3 DEF Capped
        <3>3. due[d] >= Rate * buckets[d].idle
            BY <3>1, <3>2, <2>1 DEF LimiterInv, RefilledWhileIdle
        <3>4. Rate * (buckets[d].idle + 1) = Rate * buckets[d].idle + Rate
            BY <2>1
        <3>5. Rate * buckets[d].idle \in Nat
            BY <2>1
        <3>6. CASE buckets'[d].idle = buckets[d].idle
            BY <2>1, <3>2, <3>3, <3>5, <3>6
        <3>7. CASE buckets'[d].idle = buckets[d].idle + 1
            BY <2>1, <3>2, <3>3, <3>4, <3>5, <3>7
        <3> QED
            BY <1>2, <3>6, <3>7
    <2> QED
        BY <2>2, <2>3
<1> QED
    BY <1>5, <1>6, <1>7 DEF LimiterInv

(* Allow and the sweep keep what lets idle buckets go.                      *)
LEMMA LimiterStep == LimiterInv /\ [LimiterNext]_limiterVars => LimiterInv'
<1>1. ASSUME LimiterInv, UNCHANGED limiterVars PROVE LimiterInv'
    BY <1>1 DEF limiterVars, LimiterInv, LimiterType, RefilledWhileIdle, EvictionIsFair, Tokens
<1> QED
    BY <1>1, AllowStep, LimiterTickStep DEF LimiterNext

(* With a table of any size, an eviction costs no client a request it is   *)
(* due, and one for idleness gives none away either.  The client whose     *)
(* bucket is dropped in use, at the cap, does come back to a full one: it  *)
(* is left out of the second half until it would be full anyway            *)
(* (evictLocked).                                                          *)
THEOREM LimiterEvictionIsFair == LimiterSpec => []EvictionIsFair
<1>1. LimiterInv => EvictionIsFair
    BY DEF LimiterInv
<1> QED
    BY <1>1, LimiterStep, LimiterInitially, PTL DEF LimiterSpec

-----------------------------------------------------------------------------
(* Negotiation.  A finite set of versions has a highest one: among the     *)
(* sets of versions above some version, a smallest is empty.               *)
LEMMA HighestVersion ==
    ASSUME NEW S, S \subseteq Nat, IsFiniteSet(S), S # {}
    PROVE  Highest(S) \in S /\ \A w \in S : w <= Highest(S)
<1> DEFINE Above(v) == {w \in S : v < w}
           sets == {Above(v) : v \in S}
<1>1. IsWellFoundedOn(StrictSubsetOrdering(S), SUBSET S)
    BY FS_StrictSubsetOrderingWellFounded, FS_FiniteSubsetsOfFinite
<1>2. sets \subseteq SUBSET S /\ sets # {}
    OBVIOUS
<1>3. \E X \in sets : \A Y \in sets : ~(<<Y, X>> \in StrictSubsetOrdering(S))
    <2> HIDE DEF sets
    <2> QED
        BY <1>1, <1>2, WFMin
<1>4. PICK v \in S : \A Y \in sets : ~(<<Y, Above(v)>> \in StrictSubsetOrdering(S))
    BY <1>3
<1>5. ASSUME NEW w \in S, v < w PROVE FALSE
    <2>0. \A x \in S : x \in Nat
        OBVIOUS
    <2>1. Above(w) \subseteq Above(v) /\ w \in Above(v) /\ w \notin Above(w)
        <3>1. \A x \in S : w < x => v < x
            BY <1>5, <2>0
        <3>2. ~(w < w)
            BY <2>0
        <3> QED
            BY <1>5, <3>1, <3>2
    <2>2. Above(w) \in SUBSET S /\ Above(v) \in SUBSET S /\ Above(w) # Above(v)
        BY <2>1
    <2>3. <<Above(w), Above(v)>> \in StrictSubsetOrdering(S)
        BY <2>1, <2>2 DEF StrictSubsetOrdering
    <2> QED
        BY <1>4, <2>3
<1>6. \A w \in S : w <= v
    BY <1>5
<1> QED
    BY <1>6 DEF Highest

(* What holds while the intersection is pruned: it has only mutual         *)
(* capabilities, at their highest mutual versions, and loses nothing that  *)
(* belongs to a set in which no extension lacks its parent.                *)
PicksMutual ==
    stage \in {"prune", "hook", "negotiated"} =>
        /\ DOMAIN picked \subseteq {n \in Business : Mutual(n) # {}}
        /\ \A n \in DOMAIN picked : picked[n] = Highest(Mutual(n))

LosesNothing ==
    stage \in {"prune", "hook", "negotiated"} => \A S \in Rooted : S \subseteq DOMAIN picked

NegotiationInv ==
    /\ NegotiationTypeOK /\ PicksMutual /\ LosesNothing
    /\ stage \in {"hook", "negotiated"} => Orphans = {}
    /\ stage = "negotiated" => Hook # "uncallable"

(* Nothing is picked before the profile is resolved.                       *)
LEMMA NegotiationInitially == NegotiationInit => NegotiationInv
<1> SUFFICES ASSUME NegotiationInit PROVE NegotiationInv
    OBVIOUS
<1>1. stage = "resolve" /\ DOMAIN picked = {} /\ gateOn \in BOOLEAN
    BY DEF NegotiationInit
<1>2. profile.resolved \in Resolution /\ profile.hook \in {"none", "good", "uncallable"}
    BY DEF NegotiationInit
<1> QED
    BY <1>1, <1>2 DEF NegotiationInv, NegotiationTypeOK, PicksMutual, LosesNothing

(* Every step of the negotiation keeps the invariant.                      *)
LEMMA NegotiationStep == NegotiationInv /\ [NegotiationNext]_negotiationVars => NegotiationInv'
<1> SUFFICES ASSUME NegotiationInv, [NegotiationNext]_negotiationVars PROVE NegotiationInv'
    OBVIOUS
<1>0. ASSUME UNCHANGED <<gateOn, profile>>
      PROVE  /\ Business' = Business /\ Rooted' = Rooted
             /\ \A n \in Capability : Mutual(n)' = Mutual(n)
    BY <1>0 DEF Business, Rooted, Mutual
<1>1. CASE ResolveProfile
    <2>1. UNCHANGED <<gateOn, profile>>
        BY <1>1 DEF ResolveProfile
    <2>2. CASE profile.resolved = "ok"
        <3>1. stage' = "prune" /\ DOMAIN picked' = {n \in Business : Mutual(n) # {}}
              /\ \A n \in DOMAIN picked' : picked'[n] = Highest(Mutual(n))
            BY <1>1, <2>2 DEF ResolveProfile
        <3>2. \A S \in Rooted' : S \subseteq DOMAIN picked'
            BY <1>0, <2>1, <3>1 DEF Rooted
        <3>3. Business \subseteq Capability
            BY DEF Business
        <3> QED
            BY <1>0, <2>1, <3>1, <3>2, <3>3
               DEF NegotiationInv, NegotiationTypeOK, PicksMutual, LosesNothing
    <2>3. CASE profile.resolved # "ok"
        BY <1>1, <2>1, <2>3
           DEF ResolveProfile, NegotiationInv, NegotiationTypeOK, PicksMutual, LosesNothing,
               Business
    <2> QED
        BY <2>2, <2>3
<1>2. CASE Prune
    <2>1. UNCHANGED <<gateOn, profile>> /\ stage = "prune"
        BY <1>2 DEF Prune
    <2>2. CASE Orphans = {}
        BY <1>0, <1>2, <2>1, <2>2
           DEF Prune, NegotiationInv, NegotiationTypeOK, PicksMutual, LosesNothing, Orphans,
               Business
    <2>3. CASE Orphans # {}
        <3>1. PICK n \in Orphans : picked' = [m \in DOMAIN picked \ {n} |-> picked[m]]
            BY <1>2, <2>3 DEF Prune
        <3>2. stage' = "prune" /\ DOMAIN picked' = DOMAIN picked \ {n}
            BY <1>2, <2>1, <2>3, <3>1 DEF Prune
        <3>3. n \in DOMAIN Parent /\ Parent[n] \notin DOMAIN picked
            BY DEF Orphans
        <3>4. ASSUME NEW S \in Rooted PROVE S \subseteq DOMAIN picked'
            <4>1. S \subseteq DOMAIN picked
                BY <2>1 DEF NegotiationInv, LosesNothing
            <4>2. n \notin S
                BY <3>3, <4>1 DEF Rooted
            <4> QED
                BY <3>2, <4>1, <4>2
        <3> QED
            BY <1>0, <2>1, <3>1, <3>2, <3>4
               DEF NegotiationInv, NegotiationTypeOK, PicksMutual, LosesNothing, Business
    <2> QED
        BY <2>2, <2>3
<1>3. CASE CheckHook
    BY <1>0, <1>3
       DEF CheckHook, NegotiationInv, NegotiationTypeOK, PicksMutual, LosesNothing, Orphans,
           Business, Hook
<1>4. CASE UNCHANGED negotiationVars
    BY <1>0, <1>4
       DEF negotiationVars, NegotiationInv, NegotiationTypeOK, PicksMutual, LosesNothing,
           Orphans, Business, Hook
<1> QED
    BY <1>1, <1>2, <1>3, <1>4 DEF NegotiationNext, NegotiationEnd

(* Pruned to the end, the result is itself a set without orphans, so it is *)
(* the largest one.                                                        *)
LEMMA PrunedIsLargest == NegotiationInv => LargestIntersection
<1> SUFFICES ASSUME NegotiationInv, stage = "negotiated"
             PROVE  /\ DOMAIN picked = UNION Rooted
                    /\ \A n \in DOMAIN picked : \E e \in profile.declares[n] :
                          e.bound /\ e.version = picked[n] /\ \A f \in profile.declares[n] :
                              f.bound /\ f.version \in Offer[n] => f.version <= e.version
                    /\ Hook # "uncallable"
    BY DEF LargestIntersection
<1>1. DOMAIN picked \in Rooted
    BY DEF NegotiationInv, PicksMutual, Orphans, Rooted
<1>2. DOMAIN picked = UNION Rooted
    BY <1>1 DEF NegotiationInv, LosesNothing
<1>3. ASSUME NEW n \in DOMAIN picked
      PROVE  \E e \in profile.declares[n] :
                e.bound /\ e.version = picked[n] /\ \A f \in profile.declares[n] :
                    f.bound /\ f.version \in Offer[n] => f.version <= e.version
    <2>1. n \in Capability /\ Mutual(n) # {} /\ picked[n] = Highest(Mutual(n))
        BY DEF NegotiationInv, PicksMutual, Business
    <2>2. Mutual(n) \subseteq Offer[n] /\ Offer[n] \subseteq Nat /\ IsFiniteSet(Offer[n])
        BY <2>1, NegotiationAssumption DEF Mutual
    <2>3. Mutual(n) \subseteq Nat /\ IsFiniteSet(Mutual(n))
        BY <2>2, FS_Subset
    <2>4. picked[n] \in Mutual(n) /\ \A w \in Mutual(n) : w <= picked[n]
        BY <2>1, <2>3, HighestVersion
    <2>5. PICK e \in profile.declares[n] : e.bound /\ e.version = picked[n]
        BY <2>4 DEF Mutual
    <2>6. \A f \in profile.declares[n] :
            f.bound /\ f.version \in Offer[n] => f.version <= e.version
        BY <2>4, <2>5 DEF Mutual
    <2> QED
        BY <2>5, <2>6
<1> QED
    BY <1>2, <1>3 DEF NegotiationInv

(* Whatever a platform declares, and in whatever order the capabilities    *)
(* are visited, the result is the largest intersection at the highest      *)
(* mutual versions.                                                        *)
THEOREM NegotiationLargestIntersection == NegotiationSpec => []LargestIntersection
BY NegotiationInitially, NegotiationStep, PrunedIsLargest, PTL DEF NegotiationSpec

-----------------------------------------------------------------------------
(* Tenants.  With the store being t for n ticks now: a wrong answer is as  *)
(* old as the call that brings it, and in Redis and in memory its age and  *)
(* what is left of it add up to one lifetime and to two, with that call.   *)
MemoryType == [value : Answer \cup {Nothing}, left : 0..TTL, secret : BOOLEAN, stale : BOOLEAN]
SharedType == [value : Answer \cup {Nothing}, left : 0..TTL]
FlightType == [phase : {"none", "redis", "django", "answer", "write"},
               value : Answer \cup {Nothing}, age : 0..CallTicks]

FlightOk(f, t, n) ==
    /\ f \in FlightType
    /\ f.phase = "none" => f = NoFlight
    /\ f.phase \in {"answer", "write"} /\ f.value # t => n <= f.age

SharedOk(e, t, n) ==
    /\ e \in SharedType
    /\ e.left <= Lifetime(e.value)
    /\ e.left > 0 /\ e.value # t => n + e.left <= Lifetime(e.value) + CallTicks

MemoryOk(e, t, n) ==
    /\ e \in MemoryType
    /\ e.left <= Lifetime(e.value)
    /\ e.left > 0 /\ ~e.stale /\ e.value # t => n + e.left <= 2 * Lifetime(e.value) + CallTicks

(* What is left of an entry keeps its pod from Django for the time that    *)
(* has not passed since the pod last asked.                                *)
Shields(e, r, f) ==
    /\ r \in 0..NegTTL
    /\ e.left + r >= NegTTL
    /\ f.phase = "redis" => r >= NegTTL

PodInv(p) ==
    /\ MemoryOk(memory[p], truth, since)
    /\ FlightOk(resolve[p], truth, since) /\ FlightOk(secrets[p], truth, since)
    /\ Shields(memory[p], rested[p], resolve[p])

TenantsInv ==
    /\ memory \in [Pod -> MemoryType] /\ resolve \in [Pod -> FlightType]
    /\ secrets \in [Pod -> FlightType] /\ rested \in [Pod -> 0..NegTTL]
    /\ truth \in Answer /\ since \in 0..Horizon
    /\ SharedOk(shared, truth, since) /\ \A p \in Pod : PodInv(p)

(* Lifetimes, and the capped counters.                                     *)
LEMMA LifetimeBounds ==
    /\ \A v \in Answer \cup {Nothing} :
          Lifetime(v) \in Nat /\ NegTTL <= Lifetime(v) /\ Lifetime(v) <= TTL
    /\ Horizon \in Nat /\ CallTicks < Horizon
    /\ NegTTL \in Nat \ {0} /\ TTL \in Nat /\ CallTicks \in Nat /\ NegTTL <= TTL
BY TenantsAssumption DEF Lifetime, Horizon

(* The counters go down to 0 and up to their cap, one at a time.           *)
LEMMA Counters ==
    /\ \A n \in Nat : /\ Less(n) \in 0..n /\ (Less(n) > 0 => Less(n) = n - 1)
                      /\ Less(n) + 1 >= n
    /\ \A m \in Nat : \A n \in 0..m :
          UpTo(n, m) \in 0..m /\ UpTo(n, m) <= n + 1 /\ (UpTo(n, m) = m \/ UpTo(n, m) = n + 1)
BY DEF Less, UpTo

(* No flight and no entry are as good as any.                              *)
LEMMA NothingIsOk ==
    ASSUME NEW t, NEW n \in Nat
    PROVE  /\ FlightOk(NoFlight, t, n) /\ NoFlight \in FlightType /\ NoFlight.phase = "none"
           /\ MemoryOk(NoEntry, t, n) /\ NoEntry \in MemoryType /\ NoEntry.left = 0
<1>1. NoFlight \in FlightType /\ NoFlight.phase = "none"
    BY LifetimeBounds DEF NoFlight, FlightType
<1>2. NoEntry \in MemoryType /\ NoEntry.left = 0 /\ NoEntry.value = Nothing
    BY LifetimeBounds DEF NoEntry, MemoryType
<1>3. Lifetime(NoEntry.value) \in Nat
    BY <1>2, LifetimeBounds
<1>4. FlightOk(NoFlight, t, n)
    BY <1>1 DEF FlightOk
<1>5. MemoryOk(NoEntry, t, n)
    BY <1>2, <1>3 DEF MemoryOk
<1> QED
    BY <1>1, <1>2, <1>4, <1>5

(* An entry that is cached for its lifetime may be wrong already, but then *)
(* not for longer than the layer before kept it.                           *)
LEMMA CachedIsOk ==
    ASSUME NEW t, NEW n \in Nat, NEW v \in Answer \cup {Nothing}, NEW s \in BOOLEAN,
           v # t => n <= Lifetime(v) + CallTicks
    PROVE  /\ MemoryOk(CachedFor(v, s), t, n) /\ CachedFor(v, s) \in MemoryType
           /\ CachedFor(v, s).left >= NegTTL
<1>1. /\ CachedFor(v, s) \in MemoryType /\ CachedFor(v, s).value = v
      /\ CachedFor(v, s).left = Lifetime(v)
    BY LifetimeBounds DEF CachedFor, MemoryType
<1>2. Lifetime(v) \in Nat /\ NegTTL <= Lifetime(v) /\ CallTicks \in Nat
    BY LifetimeBounds
<1>3. v # t => n + Lifetime(v) <= 2 * Lifetime(v) + CallTicks
    BY <1>2
<1> QED
    BY <1>1, <1>2, <1>3 DEF MemoryOk

(* An answer that Redis keeps for its lifetime came by a call just now.    *)
LEMMA SharingIsOk ==
    ASSUME NEW t, NEW n \in Nat, NEW v \in Answer \cup {Nothing},
           v # t => n <= CallTicks
    PROVE  SharedOk([value |-> v, left |-> Lifetime(v)], t, n)
<1>1. Lifetime(v) \in 0..TTL /\ CallTicks \in Nat
    BY LifetimeBounds
<1> QED
    BY <1>1 DEF SharedOk, SharedType

(* An entry kept while Django is down says that it is stale.               *)
LEMMA StaleIsOk ==
    ASSUME NEW t, NEW n \in Nat, NEW e \in MemoryType
    PROVE  /\ MemoryOk(StaleEntry(e), t, n) /\ StaleEntry(e) \in MemoryType
           /\ StaleEntry(e).left = NegTTL
<1>1. NegTTL \in 0..TTL
    BY LifetimeBounds
<1> DEFINE marked == [e EXCEPT !.stale = TRUE]
<1>2. marked \in MemoryType /\ marked.stale = TRUE
    BY DEF MemoryType
<1>3. StaleEntry(e) = [marked EXCEPT !.left = NegTTL]
    BY DEF StaleEntry
<1> HIDE DEF marked
<1>4. /\ StaleEntry(e) \in MemoryType /\ StaleEntry(e).stale = TRUE
      /\ StaleEntry(e).left = NegTTL
    BY <1>1, <1>2, <1>3 DEF MemoryType
<1>5. StaleEntry(e).value \in Answer \cup {Nothing}
    BY <1>4 DEF MemoryType
<1>6. NegTTL <= Lifetime(StaleEntry(e).value)
    BY <1>5, LifetimeBounds
<1> QED
    BY <1>4, <1>6 DEF MemoryOk

(* How a flight goes on: to Redis, to Django, with what Django reads.      *)
WithPhase(f, ph) == [f EXCEPT !.phase = ph]
Answered(f, v) == [f EXCEPT !.phase = "answer", !.value = v]

(* A flight that goes on, or has its answer, is still a flight whose value *)
(* is as recent as the calls it made.                                      *)
LEMMA FlightGoesOn ==
    ASSUME NEW t \in Answer, NEW n \in Nat, NEW f, FlightOk(f, t, n)
    PROVE  /\ \A ph \in {"redis", "django"} :
                FlightOk(WithPhase(f, ph), t, n) /\ WithPhase(f, ph).phase = ph
           /\ FlightOk(Answered(f, t), t, n) /\ Answered(f, t).phase = "answer"
           /\ f.phase = "answer" => FlightOk(WithPhase(f, "write"), t, n)
           /\ WithPhase(f, "write").phase = "write"
<1>1. ASSUME NEW ph \in {"redis", "django", "answer", "write"}
      PROVE  /\ WithPhase(f, ph) \in FlightType /\ WithPhase(f, ph).phase = ph
             /\ WithPhase(f, ph).value = f.value /\ WithPhase(f, ph).age = f.age
    BY DEF FlightOk, FlightType, WithPhase
<1> DEFINE g == WithPhase(f, "answer")
<1>2. /\ Answered(f, t) \in FlightType /\ Answered(f, t).phase = "answer"
      /\ Answered(f, t).value = t
    <2>1. g \in FlightType /\ g.phase = "answer"
        BY <1>1
    <2>2. Answered(f, t) = [g EXCEPT !.value = t]
        BY DEF Answered, WithPhase
    <2> HIDE DEF g
    <2> QED
        BY <2>1, <2>2 DEF FlightType
<1>3. FlightOk(Answered(f, t), t, n)
    BY <1>2 DEF FlightOk
<1>4. \A ph \in {"redis", "django"} : FlightOk(WithPhase(f, ph), t, n)
    BY <1>1 DEF FlightOk
<1>5. f.phase = "answer" => FlightOk(WithPhase(f, "write"), t, n)
    BY <1>1 DEF FlightOk
<1> QED
    BY <1>1, <1>2, <1>3, <1>4, <1>5

(* What a flight brings home is not older than a call.                     *)
LEMMA AnswerIsRecent ==
    ASSUME NEW t, NEW n \in Nat, NEW f, FlightOk(f, t, n), f.phase \in {"answer", "write"}
    PROVE  f.value \in Answer \cup {Nothing} /\ (f.value # t => n <= CallTicks)
<1>1. f.value \in Answer \cup {Nothing} /\ f.age \in 0..CallTicks /\ CallTicks \in Nat
    BY LifetimeBounds DEF FlightOk, FlightType
<1> QED
    BY <1>1 DEF FlightOk

(* Nothing is cached or under way at the start, and all pods may ask.      *)
LEMMA TenantsInitially == TenantsInit => TenantsInv
<1> SUFFICES ASSUME TenantsInit PROVE TenantsInv
    OBVIOUS
<1>1. Horizon \in Nat /\ NegTTL \in Nat /\ TTL \in Nat
    BY LifetimeBounds
<1>2. since \in Nat /\ since \in 0..Horizon /\ truth \in Answer
    BY <1>1 DEF TenantsInit
<1>3. /\ memory = [p \in Pod |-> NoEntry] /\ rested = [p \in Pod |-> NegTTL]
      /\ resolve = [p \in Pod |-> NoFlight] /\ secrets = [p \in Pod |-> NoFlight]
    BY DEF TenantsInit
<1>4. ASSUME NEW p \in Pod PROVE PodInv(p)
    <2>1. Shields(NoEntry, NegTTL, NoFlight)
        BY <1>1, <1>2, NothingIsOk DEF Shields
    <2> QED
        BY <1>2, <1>3, <2>1, NothingIsOk DEF PodInv
<1>5. SharedOk(shared, truth, since)
    <2>1. shared.left = 0 /\ shared.value = Nothing /\ shared \in SharedType
        BY <1>1 DEF TenantsInit, SharedType
    <2>2. Lifetime(Nothing) \in Nat
        BY LifetimeBounds
    <2> QED
        BY <2>1, <2>2 DEF SharedOk
<1> QED
    BY <1>1, <1>2, <1>3, <1>4, <1>5, NothingIsOk DEF TenantsInv

(* A step of one pod changes nothing of the others.                        *)
OfPod(p) ==
    /\ memory' = [memory EXCEPT ![p] = memory'[p]]
    /\ resolve' = [resolve EXCEPT ![p] = resolve'[p]]
    /\ secrets' = [secrets EXCEPT ![p] = secrets'[p]]
    /\ rested' = [rested EXCEPT ![p] = rested'[p]]
    /\ UNCHANGED <<truth, since>>

(* So it keeps the invariant if it keeps it for that pod and for Redis.    *)
LEMMA PodStep ==
    ASSUME TenantsInv, NEW p \in Pod, OfPod(p), SharedOk(shared', truth, since),
           MemoryOk(memory'[p], truth, since), FlightOk(resolve'[p], truth, since),
           FlightOk(secrets'[p], truth, since), Shields(memory'[p], rested'[p], resolve'[p])
    PROVE  TenantsInv'
<1>1. ASSUME NEW q \in Pod, q # p PROVE PodInv(q)'
    <2>1. /\ memory'[q] = memory[q] /\ resolve'[q] = resolve[q]
          /\ secrets'[q] = secrets[q] /\ rested'[q] = rested[q]
          /\ truth' = truth /\ since' = since
        BY <1>1 DEF OfPod, TenantsInv
    <2> QED
        BY <2>1 DEF PodInv, TenantsInv
<1>2. PodInv(p)'
    BY DEF PodInv, OfPod
<1>3. /\ memory'[p] \in MemoryType /\ resolve'[p] \in FlightType
      /\ secrets'[p] \in FlightType /\ rested'[p] \in 0..NegTTL
    BY DEF MemoryOk, FlightOk, Shields
<1>4. /\ memory' \in [Pod -> MemoryType] /\ resolve' \in [Pod -> FlightType]
      /\ secrets' \in [Pod -> FlightType] /\ rested' \in [Pod -> 0..NegTTL]
    BY <1>3 DEF OfPod, TenantsInv
<1> QED
    BY <1>1, <1>2, <1>4 DEF TenantsInv, OfPod

(* What shields a pod: an entry that is there for NegTTL, however short    *)
(* ago it asked; and what did before, unless it asks Redis now.            *)
LEMMA StillShields ==
    ASSUME NEW e, NEW r, NEW f
    PROVE  /\ e.left \in Nat /\ e.left >= NegTTL /\ f.phase # "redis" => Shields(e, 0, f)
           /\ \A g : Shields(e, r, g) /\ f.phase # "redis" => Shields(e, r, f)
           /\ \A g : Shields(e, r, g) /\ e.left = 0 => Shields(e, r, f)
<1>1. NegTTL \in Nat
    BY LifetimeBounds
<1>2. ASSUME e.left \in Nat, e.left >= NegTTL, f.phase # "redis" PROVE Shields(e, 0, f)
    BY <1>1, <1>2 DEF Shields
<1>3. ASSUME NEW g, Shields(e, r, g), e.left = 0 PROVE Shields(e, r, f)
    <2>1. r \in Nat /\ r >= NegTTL
        BY <1>1, <1>3 DEF Shields
    <2> QED
        BY <1>3, <2>1 DEF Shields
<1>4. ASSUME NEW g, Shields(e, r, g), f.phase # "redis" PROVE Shields(e, r, f)
    BY <1>4 DEF Shields
<1> QED
    BY <1>2, <1>3, <1>4

(* What the invariant says of one pod and of Redis.                        *)
LEMMA TenantsFacts ==
    ASSUME TenantsInv, NEW p \in Pod
    PROVE  /\ memory \in [Pod -> MemoryType] /\ resolve \in [Pod -> FlightType]
           /\ secrets \in [Pod -> FlightType] /\ rested \in [Pod -> 0..NegTTL]
           /\ truth \in Answer /\ since \in Nat
           /\ MemoryOk(memory[p], truth, since) /\ FlightOk(resolve[p], truth, since)
           /\ FlightOk(secrets[p], truth, since) /\ Shields(memory[p], rested[p], resolve[p])
           /\ SharedOk(shared, truth, since)
           /\ memory[p].left \in Nat /\ memory[p] \in MemoryType
BY LifetimeBounds DEF TenantsInv, PodInv, MemoryOk, MemoryType

(* The steps of a resolution that find nothing yet.                        *)
LEMMA AskSteps ==
    ASSUME TenantsInv, NEW p \in Pod,
           StartResolve(p) \/ MissInRedis(p) \/ DjangoReads(p)
    PROVE  TenantsInv'
<1> DEFINE f == resolve[p]
<1>0. /\ memory \in [Pod -> MemoryType] /\ resolve \in [Pod -> FlightType]
      /\ secrets \in [Pod -> FlightType] /\ rested \in [Pod -> 0..NegTTL]
      /\ truth \in Answer /\ since \in Nat
      /\ MemoryOk(memory[p], truth, since) /\ FlightOk(f, truth, since)
      /\ FlightOk(secrets[p], truth, since) /\ Shields(memory[p], rested[p], f)
      /\ SharedOk(shared, truth, since)
      /\ memory[p].left \in Nat /\ memory[p] \in MemoryType
    BY TenantsFacts
<1>1. CASE StartResolve(p)
    <2> DEFINE g == WithPhase(f, "redis")
    <2>1. /\ OfPod(p) /\ UNCHANGED shared /\ resolve'[p] = g /\ memory'[p] = memory[p]
          /\ secrets'[p] = secrets[p] /\ rested'[p] = rested[p] /\ memory[p].left = 0
        BY <1>1, <1>0 DEF StartResolve, Flies, WithPhase, OfPod, Live
    <2>2. FlightOk(g, truth, since)
        BY <1>0, FlightGoesOn
    <2>3. Shields(memory[p], rested[p], g)
        BY <2>1, <1>0, StillShields
    <2> HIDE DEF g
    <2> QED
        BY <2>1, <2>2, <2>3, <1>0, PodStep
<1>2. CASE MissInRedis(p)
    <2> DEFINE g == WithPhase(f, "django")
    <2>1. /\ OfPod(p) /\ UNCHANGED shared /\ resolve'[p] = g /\ memory'[p] = memory[p]
          /\ secrets'[p] = secrets[p] /\ rested'[p] = rested[p]
        BY <1>2, <1>0 DEF MissInRedis, Flies, WithPhase, OfPod
    <2>2. FlightOk(g, truth, since) /\ g.phase = "django"
        BY <1>0, FlightGoesOn
    <2> HIDE DEF g
    <2>3. Shields(memory[p], rested[p], g)
        BY <2>2, <1>0, StillShields
    <2> QED
        BY <2>1, <2>2, <2>3, <1>0, PodStep
<1>3. CASE DjangoReads(p)
    <2> DEFINE g == Answered(f, truth)
    <2>1. /\ OfPod(p) /\ UNCHANGED shared /\ resolve'[p] = g /\ memory'[p] = memory[p]
          /\ secrets'[p] = secrets[p] /\ rested'[p] = rested[p]
        BY <1>3, <1>0 DEF DjangoReads, Answered, OfPod
    <2>2. FlightOk(g, truth, since) /\ g.phase = "answer"
        BY <1>0, FlightGoesOn
    <2> HIDE DEF g
    <2>3. Shields(memory[p], rested[p], g)
        BY <2>2, <1>0, StillShields
    <2> QED
        BY <2>1, <2>2, <2>3, <1>0, PodStep
<1> QED
    BY <1>1, <1>2, <1>3

(* The steps that cache what they found.                                   *)
LEMMA LearnSteps ==
    ASSUME TenantsInv, NEW p \in Pod,
           FindInRedis(p) \/ Learn(p) \/ ShareInRedis(p) \/ DjangoDown(p)
    PROVE  TenantsInv'
<1> DEFINE f == resolve[p]
<1>0. /\ memory \in [Pod -> MemoryType] /\ resolve \in [Pod -> FlightType]
      /\ secrets \in [Pod -> FlightType] /\ rested \in [Pod -> 0..NegTTL]
      /\ truth \in Answer /\ since \in Nat
      /\ MemoryOk(memory[p], truth, since) /\ FlightOk(f, truth, since)
      /\ FlightOk(secrets[p], truth, since) /\ Shields(memory[p], rested[p], f)
      /\ SharedOk(shared, truth, since)
      /\ memory[p].left \in Nat /\ memory[p] \in MemoryType
    BY TenantsFacts
<1>1. CASE FindInRedis(p)
    <2> DEFINE v == shared.value
               e == CachedFor(v, FALSE)
    <2>1. /\ OfPod(p) /\ UNCHANGED shared /\ memory'[p] = e /\ resolve'[p] = NoFlight
          /\ secrets'[p] = secrets[p] /\ rested'[p] = 0 /\ shared.left > 0
        BY <1>1, <1>0 DEF FindInRedis, Remember, Lands, Rests, OfPod, RedisEntry, Live
    <2>2. v \in Answer \cup {Nothing} /\ shared.left \in Nat
        BY <1>0, LifetimeBounds DEF SharedOk, SharedType
    <2>3. v # truth => since <= Lifetime(v) + CallTicks
        BY <2>1, <2>2, <1>0, LifetimeBounds DEF SharedOk
    <2>4. MemoryOk(e, truth, since) /\ e \in MemoryType /\ e.left >= NegTTL
        BY <2>2, <2>3, <1>0, CachedIsOk
    <2> HIDE DEF e
    <2>5. e.left \in Nat
        BY <2>4, LifetimeBounds DEF MemoryType
    <2>6. FlightOk(NoFlight, truth, since) /\ Shields(e, 0, NoFlight)
        BY <2>4, <2>5, <1>0, NothingIsOk, StillShields
    <2> QED
        BY <2>1, <2>4, <2>6, <1>0, PodStep
<1>2. CASE Learn(p)
    <2> DEFINE v == f.value
               e == CachedFor(v, v # Unknown)
               g == WithPhase(f, "write")
    <2>1. /\ OfPod(p) /\ UNCHANGED shared /\ memory'[p] = e /\ resolve'[p] = g
          /\ secrets'[p] = secrets[p] /\ rested'[p] = 0 /\ f.phase = "answer"
        BY <1>2, <1>0 DEF Learn, Remember, Flies, WithPhase, Rests, OfPod
    <2>2. v \in Answer \cup {Nothing} /\ (v # truth => since <= CallTicks)
        BY <2>1, <1>0, AnswerIsRecent
    <2>3. v # truth => since <= Lifetime(v) + CallTicks
        BY <2>2, <1>0, LifetimeBounds
    <2>4. (v # Unknown) \in BOOLEAN
        OBVIOUS
    <2>5. MemoryOk(e, truth, since) /\ e \in MemoryType /\ e.left >= NegTTL
        BY <2>2, <2>3, <2>4, <1>0, CachedIsOk
    <2>6. FlightOk(g, truth, since) /\ g.phase = "write"
        BY <2>1, <1>0, FlightGoesOn
    <2> HIDE DEF e, g
    <2>7. e.left \in Nat
        BY <2>5, LifetimeBounds DEF MemoryType
    <2>8. Shields(e, 0, g)
        BY <2>5, <2>6, <2>7, StillShields
    <2> QED
        BY <2>1, <2>5, <2>6, <2>8, <1>0, PodStep
<1>3. CASE ShareInRedis(p)
    <2> DEFINE v == f.value
               e == [value |-> v, left |-> Lifetime(v)]
    <2>1. /\ OfPod(p) /\ (shared' = e \/ shared' = shared) /\ memory'[p] = memory[p]
          /\ resolve'[p] = NoFlight /\ secrets'[p] = secrets[p] /\ rested'[p] = rested[p]
          /\ f.phase = "write"
        BY <1>3, <1>0 DEF ShareInRedis, Lands, OfPod
    <2>2. v \in Answer \cup {Nothing} /\ (v # truth => since <= CallTicks)
        BY <2>1, <1>0, AnswerIsRecent
    <2>3. SharedOk(e, truth, since)
        BY <2>2, <1>0, SharingIsOk
    <2> HIDE DEF e
    <2>4. FlightOk(NoFlight, truth, since) /\ Shields(memory[p], rested[p], NoFlight)
        BY <1>0, NothingIsOk, StillShields
    <2> QED
        BY <2>1, <2>3, <2>4, <1>0, PodStep
<1>4. CASE DjangoDown(p)
    <2> DEFINE e == StaleEntry(memory[p])
    <2>1. /\ OfPod(p) /\ UNCHANGED shared /\ resolve'[p] = NoFlight /\ secrets'[p] = secrets[p]
          /\ \/ memory'[p] = e /\ rested'[p] = 0
             \/ memory'[p] = memory[p] /\ rested'[p] = rested[p]
        BY <1>4, <1>0 DEF DjangoDown, Remember, Lands, Rests, OfPod
    <2>2. MemoryOk(e, truth, since) /\ e.left = NegTTL
        BY <1>0, StaleIsOk
    <2> HIDE DEF e
    <2>3. /\ FlightOk(NoFlight, truth, since) /\ NoFlight.phase = "none"
          /\ e.left \in Nat /\ e.left >= NegTTL
        BY <2>2, <1>0, NothingIsOk, LifetimeBounds
    <2>4. Shields(memory[p], rested[p], NoFlight) /\ Shields(e, 0, NoFlight)
        BY <2>3, <1>0, StillShields
    <2> QED
        BY <2>1, <2>2, <2>3, <2>4, <1>0, PodStep
<1> QED
    BY <1>1, <1>2, <1>3, <1>4

(* The steps that load a store's credentials, and an eviction.             *)
LEMMA SecretsSteps ==
    ASSUME TenantsInv, NEW p \in Pod,
           StartSecrets(p) \/ SecretsRead(p) \/ SecretsLoaded(p) \/ SecretsFail(p) \/ EvictTenant(p)
    PROVE  TenantsInv'
<1> DEFINE f == secrets[p]
<1>0. /\ memory \in [Pod -> MemoryType] /\ resolve \in [Pod -> FlightType]
      /\ secrets \in [Pod -> FlightType] /\ rested \in [Pod -> 0..NegTTL]
      /\ truth \in Answer /\ since \in Nat
      /\ MemoryOk(memory[p], truth, since) /\ FlightOk(resolve[p], truth, since)
      /\ FlightOk(f, truth, since) /\ Shields(memory[p], rested[p], resolve[p])
      /\ SharedOk(shared, truth, since)
    BY TenantsFacts
<1>1. CASE StartSecrets(p)
    <2> DEFINE g == WithPhase(f, "django")
    <2>1. /\ OfPod(p) /\ UNCHANGED shared /\ secrets'[p] = g /\ memory'[p] = memory[p]
          /\ resolve'[p] = resolve[p] /\ rested'[p] = rested[p]
        BY <1>1, <1>0 DEF StartSecrets, WithPhase, OfPod
    <2>2. FlightOk(g, truth, since)
        BY <1>0, FlightGoesOn
    <2> HIDE DEF g
    <2> QED
        BY <2>1, <2>2, <1>0, PodStep
<1>2. CASE SecretsRead(p)
    <2> DEFINE g == Answered(f, truth)
    <2>1. /\ OfPod(p) /\ UNCHANGED shared /\ secrets'[p] = g /\ memory'[p] = memory[p]
          /\ resolve'[p] = resolve[p] /\ rested'[p] = rested[p]
        BY <1>2, <1>0 DEF SecretsRead, Answered, OfPod
    <2>2. FlightOk(g, truth, since)
        BY <1>0, FlightGoesOn
    <2> HIDE DEF g
    <2> QED
        BY <2>1, <2>2, <1>0, PodStep
<1>3. CASE SecretsLoaded(p)
    <2> DEFINE v == f.value
               e == CachedFor(v, TRUE)
    <2>1. /\ OfPod(p) /\ UNCHANGED shared /\ secrets'[p] = NoFlight
          /\ (memory'[p] = e \/ memory'[p] = memory[p])
          /\ resolve'[p] = resolve[p] /\ rested'[p] = rested[p] /\ f.phase = "answer"
        BY <1>3, <1>0 DEF SecretsLoaded, Remember, OfPod
    <2>2. v \in Answer \cup {Nothing} /\ (v # truth => since <= CallTicks)
        BY <2>1, <1>0, AnswerIsRecent
    <2>3. v # truth => since <= Lifetime(v) + CallTicks
        BY <2>2, <1>0, LifetimeBounds
    <2>4. MemoryOk(e, truth, since) /\ e \in MemoryType /\ e.left >= NegTTL
        BY <2>2, <2>3, <1>0, CachedIsOk
    <2> HIDE DEF e
    <2>5. e.left \in Nat /\ NegTTL \in Nat
        BY <2>4, LifetimeBounds DEF MemoryType
    <2>6. Shields(e, rested[p], resolve[p])
        BY <2>4, <2>5, <1>0 DEF Shields
    <2>7. FlightOk(NoFlight, truth, since)
        BY <1>0, NothingIsOk
    <2> QED
        BY <2>1, <2>4, <2>6, <2>7, <1>0, PodStep
<1>4. CASE SecretsFail(p)
    <2>1. /\ OfPod(p) /\ UNCHANGED shared /\ secrets'[p] = NoFlight /\ memory'[p] = memory[p]
          /\ resolve'[p] = resolve[p] /\ rested'[p] = rested[p]
        BY <1>4, <1>0 DEF SecretsFail, OfPod
    <2>2. FlightOk(NoFlight, truth, since)
        BY <1>0, NothingIsOk
    <2> QED
        BY <2>1, <2>2, <1>0, PodStep
<1>5. CASE EvictTenant(p)
    <2>1. /\ OfPod(p) /\ UNCHANGED shared /\ memory'[p] = NoEntry /\ secrets'[p] = secrets[p]
          /\ resolve'[p] = resolve[p] /\ rested'[p] = NegTTL
        BY <1>5, <1>0 DEF EvictTenant, Remember, OfPod
    <2>2. MemoryOk(NoEntry, truth, since) /\ NoEntry.left = 0 /\ NegTTL \in Nat
        BY <1>0, NothingIsOk, LifetimeBounds
    <2>3. Shields(NoEntry, NegTTL, resolve[p])
        BY <2>2 DEF Shields
    <2> QED
        BY <2>1, <2>2, <2>3, <1>0, PodStep
<1> QED
    BY <1>1, <1>2, <1>3, <1>4, <1>5

(* A change of the store makes what is cached and under way wrong, as of   *)
(* now: then it is as old as nothing that ticks.                           *)
LEMMA ChangeStep == TenantsInv /\ ChangeTenant => TenantsInv'
<1> SUFFICES ASSUME TenantsInv, ChangeTenant PROVE TenantsInv'
    OBVIOUS
<1>0. /\ truth' \in Answer /\ since' = 0
      /\ memory' = memory /\ shared' = shared /\ resolve' = resolve /\ secrets' = secrets
      /\ rested' = rested
    BY DEF ChangeTenant
<1>1. ASSUME NEW e, NEW t, NEW u, NEW n, MemoryOk(e, t, n) PROVE MemoryOk(e, u, 0)
    <2>1. /\ e.left \in Nat /\ e.value \in Answer \cup {Nothing} /\ e.left <= Lifetime(e.value)
          /\ e \in MemoryType
        BY <1>1, LifetimeBounds DEF MemoryOk, MemoryType
    <2>2. Lifetime(e.value) \in Nat /\ CallTicks \in Nat
        BY <2>1, LifetimeBounds
    <2>3. 0 + e.left <= 2 * Lifetime(e.value) + CallTicks
        BY <2>1, <2>2
    <2> QED
        BY <2>1, <2>3 DEF MemoryOk
<1>2. ASSUME NEW e, NEW t, NEW u, NEW n, SharedOk(e, t, n) PROVE SharedOk(e, u, 0)
    <2>1. /\ e.left \in Nat /\ e.value \in Answer \cup {Nothing} /\ e.left <= Lifetime(e.value)
          /\ e \in SharedType
        BY <1>2, LifetimeBounds DEF SharedOk, SharedType
    <2>2. Lifetime(e.value) \in Nat /\ CallTicks \in Nat
        BY <2>1, LifetimeBounds
    <2>3. 0 + e.left <= Lifetime(e.value) + CallTicks
        BY <2>1, <2>2
    <2> QED
        BY <2>1, <2>3 DEF SharedOk
<1>3. ASSUME NEW f, NEW t, NEW u, NEW n, FlightOk(f, t, n) PROVE FlightOk(f, u, 0)
    <2>1. f.age \in Nat
        BY <1>3, LifetimeBounds DEF FlightOk, FlightType
    <2> QED
        BY <1>3, <2>1 DEF FlightOk
<1>4. ASSUME NEW p \in Pod PROVE PodInv(p)'
    <2>1. PodInv(p)
        BY DEF TenantsInv
    <2>2. MemoryOk(memory[p], truth', 0)
        BY <2>1, <1>1 DEF PodInv
    <2>3. FlightOk(resolve[p], truth', 0) /\ FlightOk(secrets[p], truth', 0)
        BY <2>1, <1>3 DEF PodInv
    <2> QED
        BY <1>0, <2>1, <2>2, <2>3 DEF PodInv
<1>5. SharedOk(shared, truth', 0)
    BY <1>2 DEF TenantsInv
<1>6. 0 \in 0..Horizon
    BY LifetimeBounds
<1> QED
    BY <1>0, <1>4, <1>5, <1>6 DEF TenantsInv

(* A tick takes one from what is left of an entry when it adds one to the  *)
(* time since the change, so that their sum stays, and adds one to the age *)
(* of a call, which is not at its limit yet.                               *)
Aged(e) == [e EXCEPT !.left = Less(@)]

(* What was in order before a tick is so after it.                         *)
LEMMA AgedEntries ==
    ASSUME NEW t, NEW n \in 0..Horizon, NEW e
    PROVE  /\ MemoryOk(e, t, n) => MemoryOk(Aged(e), t, UpTo(n, Horizon))
           /\ SharedOk(e, t, n) => SharedOk(Aged(e), t, UpTo(n, Horizon))
<1> DEFINE g == Aged(e)
           m == UpTo(n, Horizon)
<1>0. m \in Nat /\ m <= n + 1 /\ n \in Nat
    BY Counters, LifetimeBounds
<1>1. ASSUME MemoryOk(e, t, n) PROVE MemoryOk(g, t, m)
    <2>1. /\ e.left \in Nat /\ e.left <= TTL /\ e.value \in Answer \cup {Nothing}
          /\ e.left <= Lifetime(e.value)
        BY <1>1, LifetimeBounds DEF MemoryOk, MemoryType
    <2>2. Less(e.left) \in 0..e.left /\ (Less(e.left) > 0 => Less(e.left) = e.left - 1)
        BY <2>1, Counters
    <2>3. Less(e.left) \in 0..TTL
        BY <2>1, <2>2, LifetimeBounds
    <2>4. /\ g \in MemoryType /\ g.left = Less(e.left) /\ g.value = e.value
          /\ g.stale = e.stale
        BY <1>1, <2>3 DEF Aged, MemoryOk, MemoryType
    <2>5. Lifetime(e.value) \in Nat /\ CallTicks \in Nat
        BY <2>1, LifetimeBounds
    <2> HIDE DEF g, m
    <2>6. g.left <= Lifetime(g.value)
        BY <2>1, <2>2, <2>4, <2>5
    <2>7. ASSUME g.left > 0, ~g.stale, g.value # t
          PROVE  m + g.left <= 2 * Lifetime(g.value) + CallTicks
        <3>1. n + e.left <= 2 * Lifetime(e.value) + CallTicks
            BY <1>1, <2>1, <2>2, <2>4, <2>7 DEF MemoryOk
        <3>2. m + g.left <= n + e.left
            BY <1>0, <2>1, <2>2, <2>4, <2>7
        <3> QED
            BY <3>1, <3>2, <1>0, <2>1, <2>2, <2>4, <2>5
    <2> QED
        BY <2>4, <2>6, <2>7 DEF MemoryOk
<1>2. ASSUME SharedOk(e, t, n) PROVE SharedOk(g, t, m)
    <2>1. /\ e.left \in Nat /\ e.left <= TTL /\ e.value \in Answer \cup {Nothing}
          /\ e.left <= Lifetime(e.value)
        BY <1>2, LifetimeBounds DEF SharedOk, SharedType
    <2>2. Less(e.left) \in 0..e.left /\ (Less(e.left) > 0 => Less(e.left) = e.left - 1)
        BY <2>1, Counters
    <2>3. Less(e.left) \in 0..TTL
        BY <2>1, <2>2, LifetimeBounds
    <2>4. g \in SharedType /\ g.left = Less(e.left) /\ g.value = e.value
        BY <1>2, <2>3 DEF Aged, SharedOk, SharedType
    <2>5. Lifetime(e.value) \in Nat /\ CallTicks \in Nat
        BY <2>1, LifetimeBounds
    <2> HIDE DEF g, m
    <2>6. g.left <= Lifetime(g.value)
        BY <2>1, <2>2, <2>4, <2>5
    <2>7. ASSUME g.left > 0, g.value # t
          PROVE  m + g.left <= Lifetime(g.value) + CallTicks
        <3>1. n + e.left <= Lifetime(e.value) + CallTicks
            BY <1>2, <2>1, <2>2, <2>4, <2>7 DEF SharedOk
        <3>2. m + g.left <= n + e.left
            BY <1>0, <2>1, <2>2, <2>4, <2>7
        <3> QED
            BY <3>1, <3>2, <1>0, <2>1, <2>2, <2>4, <2>5
    <2> QED
        BY <2>4, <2>6, <2>7 DEF SharedOk
<1> QED
    BY <1>1, <1>2

(* A flight is one tick older, and its answer as well.                     *)
LEMMA OlderFlights ==
    ASSUME NEW t, NEW n \in 0..Horizon, NEW f, FlightOk(f, t, n),
           f.phase # "none" => f.age < CallTicks
    PROVE  FlightOk(Older(f), t, UpTo(n, Horizon)) /\ Older(f).phase = f.phase
<1> DEFINE m == UpTo(n, Horizon)
<1>0. m \in Nat /\ m <= n + 1 /\ n \in Nat
    BY LifetimeBounds DEF UpTo
<1>1. CASE f = NoFlight
    BY <1>0, <1>1, NothingIsOk DEF Older
<1>2. CASE f # NoFlight
    <2>1. f \in FlightType /\ f.age \in Nat /\ f.age < CallTicks /\ CallTicks \in Nat
        BY <1>2, LifetimeBounds DEF FlightOk, FlightType
    <2>2. f.age + 1 \in 0..CallTicks
        BY <2>1
    <2> DEFINE g == [f EXCEPT !.age = @ + 1]
    <2>3. /\ g \in FlightType /\ g.age = f.age + 1 /\ g.phase = f.phase
          /\ g.value = f.value
        BY <2>1, <2>2 DEF FlightType
    <2>4. Older(f) = g
        BY <1>2 DEF Older
    <2>5. f.phase # "none"
        BY <1>2 DEF FlightOk
    <2> HIDE DEF g, m
    <2>6. FlightOk(g, t, m)
        BY <1>0, <2>1, <2>3, <2>5 DEF FlightOk
    <2> QED
        BY <2>3, <2>4, <2>6 DEF m
<1> QED
    BY <1>1, <1>2

(* What an entry has less to live, its pod has rested more.                *)
LEMMA ShieldsTick ==
    ASSUME NEW e \in MemoryType, NEW r, NEW f, NEW g, Shields(e, r, f), g.phase = f.phase
    PROVE  Shields(Aged(e), UpTo(r, NegTTL), g) /\ UpTo(r, NegTTL) \in 0..NegTTL
<1>1. NegTTL \in Nat /\ r \in 0..NegTTL /\ e.left \in Nat
    BY LifetimeBounds DEF Shields, MemoryType
<1>2. /\ UpTo(r, NegTTL) \in 0..NegTTL /\ (UpTo(r, NegTTL) = NegTTL \/ UpTo(r, NegTTL) = r + 1)
      /\ Less(e.left) \in Nat /\ Less(e.left) + 1 >= e.left
    BY <1>1 DEF UpTo, Less
<1>3. Aged(e).left = Less(e.left)
    BY DEF Aged, MemoryType
<1>4. Less(e.left) + UpTo(r, NegTTL) >= NegTTL
    BY <1>1, <1>2 DEF Shields
<1>5. r >= NegTTL => UpTo(r, NegTTL) >= NegTTL
    BY <1>1, <1>2
<1> QED
    BY <1>2, <1>3, <1>4, <1>5 DEF Shields

(* So a tick keeps the invariant, when no call is at its limit.            *)
LEMMA TickStep == TenantsInv /\ TenantsTick => TenantsInv'
<1> SUFFICES ASSUME TenantsInv, TenantsTick PROVE TenantsInv'
    OBVIOUS
<1> DEFINE m == UpTo(since, Horizon)
<1>0. /\ since' = m /\ truth' = truth
      /\ memory' = [p \in Pod |-> Aged(memory[p])] /\ shared' = Aged(shared)
      /\ resolve' = [p \in Pod |-> Older(resolve[p])]
      /\ secrets' = [p \in Pod |-> Older(secrets[p])]
      /\ rested' = [p \in Pod |-> UpTo(rested[p], NegTTL)]
    BY DEF TenantsTick, Aged
<1>1. since \in 0..Horizon /\ m \in 0..Horizon
    BY Counters, LifetimeBounds DEF TenantsInv
<1> HIDE DEF m
<1>2. SharedOk(shared', truth, m)
    BY <1>0, <1>1, AgedEntries DEF TenantsInv, m
<1>3. ASSUME NEW p \in Pod
      PROVE  /\ MemoryOk(memory'[p], truth, m) /\ FlightOk(resolve'[p], truth, m)
             /\ FlightOk(secrets'[p], truth, m) /\ Shields(memory'[p], rested'[p], resolve'[p])
    <2>1. /\ MemoryOk(memory[p], truth, since) /\ FlightOk(resolve[p], truth, since)
          /\ FlightOk(secrets[p], truth, since) /\ Shields(memory[p], rested[p], resolve[p])
          /\ memory[p] \in MemoryType
        BY TenantsFacts
    <2>2. /\ resolve[p].phase # "none" => resolve[p].age < CallTicks
          /\ secrets[p].phase # "none" => secrets[p].age < CallTicks
        BY DEF TenantsTick
    <2>3. MemoryOk(Aged(memory[p]), truth, m)
        BY <1>1, <2>1, AgedEntries DEF m
    <2>4. /\ FlightOk(Older(resolve[p]), truth, m) /\ FlightOk(Older(secrets[p]), truth, m)
          /\ Older(resolve[p]).phase = resolve[p].phase
        BY <1>1, <2>1, <2>2, OlderFlights DEF m
    <2>5. Shields(Aged(memory[p]), UpTo(rested[p], NegTTL), Older(resolve[p]))
        BY <2>1, <2>4, ShieldsTick
    <2> QED
        BY <1>0, <2>3, <2>4, <2>5
<1>4. ASSUME NEW p \in Pod
      PROVE  /\ memory'[p] \in MemoryType /\ resolve'[p] \in FlightType
             /\ secrets'[p] \in FlightType /\ rested'[p] \in 0..NegTTL
    BY <1>3 DEF MemoryOk, FlightOk, Shields
<1>5. /\ memory' \in [Pod -> MemoryType] /\ resolve' \in [Pod -> FlightType]
      /\ secrets' \in [Pod -> FlightType] /\ rested' \in [Pod -> 0..NegTTL]
    BY <1>0, <1>4
<1>6. \A p \in Pod : PodInv(p)'
    BY <1>0, <1>3 DEF PodInv
<1> QED
    BY <1>0, <1>1, <1>2, <1>5, <1>6 DEF TenantsInv

(* Every step of the resolver keeps the invariant.                         *)
LEMMA TenantsStep == TenantsInv /\ [TenantsNext]_tenantVars => TenantsInv'
<1> SUFFICES ASSUME TenantsInv, [TenantsNext]_tenantVars PROVE TenantsInv'
    OBVIOUS
<1>1. ASSUME NEW p \in Pod,
             \/ StartResolve(p) \/ FindInRedis(p) \/ MissInRedis(p) \/ DjangoReads(p) \/ Learn(p)
             \/ ShareInRedis(p) \/ DjangoDown(p) \/ StartSecrets(p) \/ SecretsRead(p)
             \/ SecretsLoaded(p) \/ SecretsFail(p) \/ EvictTenant(p)
      PROVE  TenantsInv'
    BY <1>1, AskSteps, LearnSteps, SecretsSteps
<1>2. CASE UNCHANGED tenantVars
    BY <1>2 DEF tenantVars, TenantsInv, PodInv
<1> QED
    BY <1>1, <1>2, ChangeStep, TickStep DEF TenantsNext

(* What any pod answers from memory, if not marked stale, was true at most *)
(* two lifetimes and a call ago, however Redis, Django, the loading of     *)
(* credentials, evictions and changes of the store interleave.             *)
THEOREM TenantsAnswersAreRecent == TenantsSpec => []AnswersAreRecent
<1>1. TenantsInv => AnswersAreRecent
    <2> SUFFICES ASSUME TenantsInv, NEW p \in Pod,
                        Live(memory[p]), ~memory[p].stale, memory[p].value # truth
                 PROVE  since <= 2 * Lifetime(memory[p].value) + CallTicks
        BY DEF AnswersAreRecent
    <2>1. /\ since \in Nat /\ memory[p].left \in Nat /\ memory[p] \in MemoryType
          /\ MemoryOk(memory[p], truth, since)
        BY TenantsFacts
    <2>2. Lifetime(memory[p].value) \in Nat /\ CallTicks \in Nat
        BY <2>1, LifetimeBounds DEF MemoryType
    <2>3. since + memory[p].left <= 2 * Lifetime(memory[p].value) + CallTicks
        BY <2>1 DEF MemoryOk, Live
    <2> QED
        BY <2>1, <2>2, <2>3
<1> QED
    BY <1>1, TenantsInitially, TenantsStep, PTL DEF TenantsSpec

(* A pod that has an answer, or keeps an old configuration while Django is *)
(* down, does not look the domain up again within a negative lifetime.     *)
(* Where nothing was kept, or for the credentials of EnsureSecrets, no     *)
(* such rest is promised (resolveSlow).                                    *)
THEOREM TenantsProbesRest == TenantsSpec => []ProbesRest
<1>1. TenantsInv => ProbesRest
    BY DEF TenantsInv, PodInv, Shields, ProbesRest
<1> QED
    BY <1>1, TenantsInitially, TenantsStep, PTL DEF TenantsSpec


-----------------------------------------------------------------------------
(* Profiles.  What is cached is what was promised; the entries used later  *)
(* than one are among the addresses that had an answer since; and of an    *)
(* address that is missed in spite of a promise, MaxProfiles others had.   *)
Order ==
    /\ newer \in [Cached -> SUBSET Cached]
    /\ \A u, v \in Cached : IF u = v THEN u \notin newer[v] ELSE u \in newer[v] <=> v \notin newer[u]

Outlived == \A u \in Address \ Cached : promised[u] > 0 => Cardinality(after[u]) >= MaxProfiles

ProfilesInv ==
    /\ Cached \in SUBSET Address /\ IsFiniteSet(Cached) /\ Cardinality(Cached) <= MaxProfiles
    /\ missed \in SUBSET Address /\ fetching \in SUBSET Address
    /\ promised \in [Address -> 0..ProfileCeiling \cup 0..FailureBackoff]
    /\ \A u \in Cached : entry[u] = promised[u]
    /\ after \in [Address -> SUBSET Address] /\ \A u \in Address : IsFiniteSet(after[u])
    /\ Order /\ \A u \in Cached : newer[u] \in SUBSET after[u]
    /\ Outlived

(* At first nothing is cached and nothing promised.                        *)
LEMMA ProfilesInitially == ProfilesInit => ProfilesInv
<1> SUFFICES ASSUME ProfilesInit PROVE ProfilesInv
    OBVIOUS
<1>1. Cached = {} /\ newer \in [{} -> SUBSET {}]
    BY DEF ProfilesInit, Cached
<1>2. IsFiniteSet({}) /\ Cardinality({}) = 0
    BY FS_EmptySet
<1>3. /\ promised = [u \in Address |-> 0] /\ after = [u \in Address |-> {}]
      /\ missed = {} /\ fetching = {} /\ 0 \in 0..ProfileCeiling /\ 0 <= MaxProfiles
    BY ProfilesAssumption DEF ProfilesInit
<1>4. Order
    BY <1>1 DEF Order
<1> QED
    BY <1>1, <1>2, <1>3, <1>4 DEF ProfilesInv, Outlived

(* One use of an address, of those in S, keeps the order.                  *)
LEMMA UseKeepsOrder ==
    ASSUME ProfilesInv, NEW u \in Address, NEW S \in SUBSET (Cached \cup {u}), u \in S,
           newer' = UsedLast(newer, S, u), after' = UsedLast(after, Address, u)
    PROVE  /\ newer' \in [S -> SUBSET S]
           /\ \A v, w \in S : IF v = w THEN v \notin newer'[w] ELSE v \in newer'[w] <=> w \notin newer'[v]
           /\ after' \in [Address -> SUBSET Address] /\ \A v \in Address : IsFiniteSet(after'[v])
           /\ \A v \in S : newer'[v] \in SUBSET after'[v]
           /\ \A v \in Address \ {u} : after'[v] = after[v] \cup {u}
           /\ \A v \in Address \ {u} : Cardinality(after[v]) >= MaxProfiles => Cardinality(after'[v]) >= MaxProfiles
<1>1. /\ newer \in [Cached -> SUBSET Cached] /\ after \in [Address -> SUBSET Address]
      /\ \A v \in Address : IsFiniteSet(after[v]) /\ S \subseteq Address
      /\ \A v \in Cached : newer[v] \subseteq after[v] /\ v \in Address
    BY DEF ProfilesInv, Order
<1>2. /\ newer' = [v \in S |-> IF v = u THEN {} ELSE (newer[v] \cap S) \cup {u}]
      /\ after' = [v \in Address |-> IF v = u THEN {} ELSE (after[v] \cap Address) \cup {u}]
    BY DEF UsedLast
<1>3. \A v \in S : v # u => v \in Cached
    OBVIOUS
<1>4. /\ \A v \in S : newer'[v] = IF v = u THEN {} ELSE (newer[v] \cap S) \cup {u}
      /\ after'[u] = {} /\ \A v \in Address : v # u => after'[v] = after[v] \cup {u}
    BY <1>1, <1>2
<1>5. newer' \in [S -> SUBSET S] /\ after' \in [Address -> SUBSET Address]
    BY <1>2
<1>6. \A v, w \in S : IF v = w THEN v \notin newer'[w] ELSE v \in newer'[w] <=> w \notin newer'[v]
    <2>1. \A v, w \in Cached : IF v = w THEN v \notin newer[w] ELSE v \in newer[w] <=> w \notin newer[v]
        BY DEF ProfilesInv, Order
    <2> SUFFICES ASSUME NEW v \in S, NEW w \in S
                 PROVE  IF v = w THEN v \notin newer'[w] ELSE v \in newer'[w] <=> w \notin newer'[v]
        OBVIOUS
    <2>2. CASE v = u /\ w = u
        BY <1>4, <2>2
    <2>3. CASE v = u /\ w # u
        <3>1. newer'[v] = {} /\ u \in newer'[w]
            BY <1>4, <2>3
        <3> QED
            BY <2>3, <3>1
    <2>4. CASE v # u /\ w = u
        <3>1. newer'[w] = {} /\ u \in newer'[v]
            BY <1>4, <2>4
        <3> QED
            BY <2>4, <3>1
    <2>5. CASE v # u /\ w # u
        <3>1. v \in Cached /\ w \in Cached
            BY <1>3, <2>5
        <3>2. /\ newer'[w] = (newer[w] \cap S) \cup {u}
              /\ newer'[v] = (newer[v] \cap S) \cup {u}
            BY <1>4, <2>5
        <3>3. (v \in newer'[w] <=> v \in newer[w]) /\ (w \in newer'[v] <=> w \in newer[v])
            BY <2>5, <3>2
        <3> QED
            BY <2>1, <3>1, <3>3
    <2> QED
        BY <2>2, <2>3, <2>4, <2>5
<1>7. \A v \in S : newer'[v] \in SUBSET after'[v]
    BY <1>1, <1>3, <1>4
<1>8. ASSUME NEW v \in Address, v # u
      PROVE  /\ IsFiniteSet(after'[v])
             /\ Cardinality(after[v]) >= MaxProfiles => Cardinality(after'[v]) >= MaxProfiles
    <2>1. IsFiniteSet(after[v] \cup {u}) /\ after'[v] = after[v] \cup {u}
        BY <1>1, <1>4, <1>8, FS_AddElement
    <2>2. Cardinality(after[v]) <= Cardinality(after[v] \cup {u})
        BY <2>1, FS_Subset
    <2>3. Cardinality(after[v]) \in Nat /\ Cardinality(after[v] \cup {u}) \in Nat
        BY <1>1, <2>1, FS_CardinalityType
    <2> QED
        BY <2>1, <2>2, <2>3, ProfilesAssumption
<1>9. IsFiniteSet(after'[u])
    BY <1>4, FS_EmptySet
<1> QED
    BY <1>4, <1>5, <1>6, <1>7, <1>8, <1>9

(* A hit is a use.                                                         *)
LEMMA ProfileHitStep ==
    ASSUME ProfilesInv, NEW u \in Address, ProfileHit(u)
    PROVE  ProfilesInv'
<1>1. /\ u \in Cached /\ UNCHANGED <<entry, missed, fetching, promised>>
      /\ newer' = UsedLast(newer, Cached, u) /\ after' = UsedLast(after, Address, u)
    BY DEF ProfileHit, MarkUsed
<1>2. Cached' = Cached /\ Cached \in SUBSET (Cached \cup {u})
    BY <1>1 DEF Cached
<1>3. /\ newer' \in [Cached -> SUBSET Cached]
      /\ \A v, w \in Cached : IF v = w THEN v \notin newer'[w] ELSE v \in newer'[w] <=> w \notin newer'[v]
      /\ after' \in [Address -> SUBSET Address] /\ \A v \in Address : IsFiniteSet(after'[v])
      /\ \A v \in Cached : newer'[v] \in SUBSET after'[v]
      /\ \A v \in Address \ {u} : Cardinality(after[v]) >= MaxProfiles => Cardinality(after'[v]) >= MaxProfiles
    BY <1>1, <1>2, UseKeepsOrder
<1>4. Order'
    BY <1>2, <1>3 DEF Order
<1>5. Outlived'
    BY <1>1, <1>2, <1>3 DEF Outlived, ProfilesInv
<1> QED
    BY <1>1, <1>2, <1>3, <1>4, <1>5 DEF ProfilesInv

(* An answer is remembered, if need be in the place of a victim: if that   *)
(* has not expired, all other entries were used since, and now u too.      *)
LEMMA FetchProfileStep ==
    ASSUME ProfilesInv, NEW u \in Address, FetchProfile(u)
    PROVE  ProfilesInv'
<1>0. /\ Cached \in SUBSET Address /\ IsFiniteSet(Cached) /\ Cardinality(Cached) <= MaxProfiles
      /\ promised \in [Address -> 0..ProfileCeiling \cup 0..FailureBackoff]
      /\ \A v \in Cached : entry[v] = promised[v] /\ newer[v] \subseteq after[v]
      /\ Cardinality(Cached) \in Nat /\ MaxProfiles \in Nat \ {0}
    BY FS_CardinalityType, ProfilesAssumption DEF ProfilesInv
<1>1. PICK lifetime \in ProfileFloor..ProfileCeiling \cup {FailureBackoff} : RememberAnswer(u, lifetime)
    BY DEF FetchProfile
<1>2. PICK out \in IF u \notin Cached /\ Cardinality(Cached) >= MaxProfiles THEN {{v} : v \in Victims} ELSE {{}} :
          /\ entry' = [v \in (Cached \ out) \cup {u} |-> IF v = u THEN lifetime ELSE entry[v]]
          /\ newer' = UsedLast(newer, DOMAIN entry', u)
    BY <1>1 DEF RememberAnswer
<1>3. /\ promised' = [promised EXCEPT ![u] = lifetime]
      /\ after' = UsedLast(after, Address, u)
      /\ missed' = missed /\ fetching' = fetching \ {u}
    BY <1>1 DEF RememberAnswer, FetchProfile
<1> DEFINE C == (Cached \ out) \cup {u}
<1>4. Cached' = C /\ C \in SUBSET (Cached \cup {u}) /\ u \in C /\ C \in SUBSET Address
    BY <1>0, <1>2 DEF Cached
<1>5. \/ out = {} /\ (u \in Cached \/ Cardinality(Cached) < MaxProfiles)
      \/ u \notin Cached /\ Cardinality(Cached) >= MaxProfiles /\ \E v \in Victims : out = {v}
    BY <1>0, <1>2
<1>6. IsFiniteSet(C) /\ Cardinality(C) <= MaxProfiles
    <2>1. CASE out = {} /\ u \in Cached
        <3>1. C = Cached
            BY <2>1
        <3> QED
            BY <1>0, <3>1
    <2>2. CASE out = {} /\ u \notin Cached /\ Cardinality(Cached) < MaxProfiles
        <3>1. C = Cached \cup {u}
            BY <2>2
        <3>2. IsFiniteSet(C) /\ Cardinality(C) = Cardinality(Cached) + 1
            BY <1>0, <2>2, <3>1, FS_AddElement
        <3> HIDE DEF C
        <3> QED
            BY <1>0, <2>2, <3>2
    <2>3. CASE u \notin Cached /\ \E v \in Victims : out = {v}
        <3>1. PICK v \in Victims : out = {v}
            BY <2>3
        <3>2. v \in Cached
            BY DEF Victims
        <3>3. IsFiniteSet(Cached \ {v}) /\ Cardinality(Cached \ {v}) = Cardinality(Cached) - 1
            BY <1>0, <3>2, FS_RemoveElement
        <3>4. IsFiniteSet((Cached \ {v}) \cup {u}) /\ Cardinality((Cached \ {v}) \cup {u}) = Cardinality(Cached \ {v}) + 1
            BY <2>3, <3>3, FS_AddElement
        <3>5. C = (Cached \ {v}) \cup {u}
            BY <3>1
        <3> HIDE DEF C
        <3> QED
            BY <1>0, <3>3, <3>4, <3>5
    <2> QED
        BY <1>5, <2>1, <2>2, <2>3
<1>7. /\ newer' \in [C -> SUBSET C]
      /\ \A v, w \in C : IF v = w THEN v \notin newer'[w] ELSE v \in newer'[w] <=> w \notin newer'[v]
      /\ after' \in [Address -> SUBSET Address] /\ \A v \in Address : IsFiniteSet(after'[v])
      /\ \A v \in C : newer'[v] \in SUBSET after'[v]
      /\ \A v \in Address \ {u} : after'[v] = after[v] \cup {u}
      /\ \A v \in Address \ {u} : Cardinality(after[v]) >= MaxProfiles => Cardinality(after'[v]) >= MaxProfiles
    <2>1. newer' = UsedLast(newer, C, u)
        BY <1>2
    <2> HIDE DEF C
    <2> QED
        BY <1>3, <1>4, <2>1, UseKeepsOrder
<1>8. /\ promised' \in [Address -> 0..ProfileCeiling \cup 0..FailureBackoff]
      /\ promised'[u] = lifetime /\ \A v \in Address \ {u} : promised'[v] = promised[v]
    <2>1. lifetime \in 0..ProfileCeiling \cup 0..FailureBackoff
        BY <1>1, ProfilesAssumption
    <2> QED
        BY <1>0, <1>3, <2>1
<1>9. \A v \in C : entry'[v] = promised'[v]
    BY <1>0, <1>2, <1>8
<1>10. ASSUME NEW w \in Address \ C, promised'[w] > 0 PROVE Cardinality(after'[w]) >= MaxProfiles
    <2>1. w # u /\ promised[w] > 0
        BY <1>8, <1>10
    <2>2. CASE w \notin Cached
        <3>1. Cardinality(after[w]) >= MaxProfiles
            BY <2>1, <2>2 DEF ProfilesInv, Outlived
        <3> QED
            BY <1>7, <2>1, <3>1
    <2>3. CASE w \in Cached
        <3>1. w \in out /\ w \in Victims /\ u \notin Cached /\ Cardinality(Cached) >= MaxProfiles
            BY <1>5, <1>10, <2>3
        <3>2. entry[w] > 0 /\ entry[w] # 0
            BY <1>0, <2>1, <2>3
        <3>3. newer[w] = Cached \ {w}
            BY <3>1, <3>2 DEF Victims
        <3>4. (Cached \ {w}) \cup {u} \subseteq after'[w]
            BY <1>0, <1>7, <2>1, <2>3, <3>3
        <3>5. IsFiniteSet(Cached \ {w}) /\ Cardinality(Cached \ {w}) = Cardinality(Cached) - 1
            BY <1>0, <2>3, FS_RemoveElement
        <3>6. Cardinality((Cached \ {w}) \cup {u}) = Cardinality(Cached \ {w}) + 1
            BY <3>1, <3>5, FS_AddElement
        <3>7. IsFiniteSet(after'[w])
            BY <1>7
        <3>8. Cardinality((Cached \ {w}) \cup {u}) <= Cardinality(after'[w]) /\ Cardinality(after'[w]) \in Nat
            BY <3>4, <3>7, FS_Subset, FS_CardinalityType
        <3> QED
            BY <1>0, <3>1, <3>5, <3>6, <3>8
    <2> QED
        BY <2>2, <2>3
<1>11. missed' \in SUBSET Address /\ fetching' \in SUBSET Address
    BY <1>3 DEF ProfilesInv
<1> HIDE DEF C
<1>12. Order' /\ Outlived'
    BY <1>4, <1>7, <1>10 DEF Order, Outlived
<1> QED
    BY <1>4, <1>6, <1>7, <1>8, <1>9, <1>11, <1>12 DEF ProfilesInv

(* Time takes as much from an entry as from the promise.                   *)
LEMMA ProfilesTickStep ==
    ASSUME ProfilesInv, ProfilesTick
    PROVE  ProfilesInv'
<1>1. /\ entry' = [u \in Cached |-> Sooner(entry[u])]
      /\ promised' = [u \in Address |-> Sooner(promised[u])]
      /\ UNCHANGED <<newer, missed, fetching, after>>
    BY DEF ProfilesTick
<1>2. Cached' = Cached
    BY <1>1 DEF Cached
<1>3. \A n \in 0..ProfileCeiling \cup 0..FailureBackoff :
        Sooner(n) \in 0..ProfileCeiling \cup 0..FailureBackoff /\ (Sooner(n) > 0 => n > 0)
    BY ProfilesAssumption DEF Sooner
<1>4. promised \in [Address -> 0..ProfileCeiling \cup 0..FailureBackoff]
    BY DEF ProfilesInv
<1>5. promised' \in [Address -> 0..ProfileCeiling \cup 0..FailureBackoff]
    BY <1>1, <1>3, <1>4
<1>6. \A u \in Address : promised'[u] > 0 => promised[u] > 0
    BY <1>1, <1>3, <1>4
<1>7. \A u \in Cached : entry'[u] = promised'[u]
    BY <1>1 DEF ProfilesInv
<1>8. Order' /\ Outlived'
    BY <1>1, <1>2, <1>6 DEF Order, Outlived, ProfilesInv
<1> QED
    BY <1>1, <1>2, <1>5, <1>7, <1>8 DEF ProfilesInv

(* Every step of the resolver.                                             *)
LEMMA ProfilesStep == ProfilesInv /\ [ProfilesNext]_profileVars => ProfilesInv'
<1> SUFFICES ASSUME ProfilesInv, [ProfilesNext]_profileVars PROVE ProfilesInv'
    OBVIOUS
<1>1. ASSUME NEW u \in Address, ProfileMiss(u) \/ AskForProfile(u) \/ DiscoveryBusy(u) PROVE ProfilesInv'
    BY <1>1 DEF ProfileMiss, AskForProfile, DiscoveryBusy, ProfilesInv, Order, Outlived, Cached
<1>2. CASE UNCHANGED profileVars
    BY <1>2 DEF profileVars, ProfilesInv, Order, Outlived, Cached
<1> QED
    BY <1>1, <1>2, ProfileHitStep, FetchProfileStep, ProfilesTickStep DEF ProfilesNext

(* A flood of addresses, through a cache of any size, pushes no caller out *)
(* that has a promise and comes back before as many others as the cache    *)
(* holds.                                                                  *)
THEOREM ProfilesCallersStay == ProfilesSpec => []CallersStay
<1>1. ProfilesInv => CallersStay
    <2>1. ASSUME ProfilesInv, NEW u \in Address, Cardinality(after[u]) < MaxProfiles, promised[u] > 0
          PROVE  u \in Cached /\ entry[u] = promised[u]
        <3>1. Cardinality(after[u]) \in Nat
            BY <2>1, FS_CardinalityType DEF ProfilesInv
        <3> QED
            BY <2>1, <3>1, ProfilesAssumption DEF ProfilesInv, Outlived
    <2> QED
        BY <2>1 DEF CallersStay
<1> QED
    BY <1>1, ProfilesInitially, ProfilesStep, PTL DEF ProfilesSpec

-----------------------------------------------------------------------------
(* The types.  Each part's inductive invariant has its type; that of the   *)
(* tables includes their size, which no part of it could do without: an    *)
(* entry more, and an eviction would not bring the table back.             *)
LEMMA PartsHaveTheirTypes ==
    /\ KeysInv => KeysTypeOK
    /\ NegotiationInv => NegotiationTypeOK
    /\ LimiterInv => LimiterTypeOK
    /\ IdentityInv => IdentityTypeOK
    /\ ProfilesInv => ProfilesTypeOK
    /\ TenantsInv => TenantsTypeOK
<1>1. KeysInv => KeysTypeOK
    BY DEF KeysInv
<1>2. NegotiationInv => NegotiationTypeOK
    BY DEF NegotiationInv
<1>3. LimiterInv => LimiterTypeOK
    BY DEF LimiterInv, LimiterType, LimiterTypeOK, BucketType
<1>4. IdentityInv => IdentityTypeOK
    BY DEF IdentityInv, IdentityType, IdentityTypeOK, ProbeType, VerdictType
<1>5. ProfilesInv => ProfilesTypeOK
    BY DEF ProfilesInv, Order, ProfilesTypeOK
<1>6. TenantsInv => TenantsTypeOK
    BY DEF TenantsInv, TenantsTypeOK, MemoryType, FlightType, SharedOk, SharedType
<1> QED
    BY <1>1, <1>2, <1>3, <1>4, <1>5, <1>6

(* Whichever callers come at once, of whatever number of clients, tokens   *)
(* and platforms: what pods keep has its type, and no table or cache ever  *)
(* holds more entries than its limit (allow, storeVerdict, fetch).         *)
THEOREM PodsTypes == PodsSpec => []PodsTypeOK
<1>1. TenantsSpec => []TenantsTypeOK
    BY PartsHaveTheirTypes, TenantsInitially, TenantsStep, PTL DEF TenantsSpec
<1>2. KeysSpec => []KeysTypeOK
    BY PartsHaveTheirTypes, KeysInitially, KeysStep, PTL DEF KeysSpec
<1>3. ProfilesSpec => []ProfilesTypeOK
    BY PartsHaveTheirTypes, ProfilesInitially, ProfilesStep, PTL DEF ProfilesSpec
<1>4. NegotiationSpec => []NegotiationTypeOK
    BY PartsHaveTheirTypes, NegotiationInitially, NegotiationStep, PTL DEF NegotiationSpec
<1>5. LimiterSpec => []LimiterTypeOK
    BY PartsHaveTheirTypes, LimiterInitially, LimiterStep, PTL DEF LimiterSpec
<1>6. IdentitySpec => []IdentityTypeOK
    BY PartsHaveTheirTypes, IdentityInitially, IdentityStep, PTL DEF IdentitySpec
<1> QED
    BY <1>1, <1>2, <1>3, <1>4, <1>5, <1>6, PTL DEF PodsSpec, PodsTypeOK
=============================================================================
