----------------------------- MODULE Negotiation -----------------------------
(***************************************************************************)
(* The capability negotiation of one request of a platform, from the       *)
(* resolution of its profile to what the tool works with.  Dates of        *)
(* versions are numbers; whether an entry's schema is served by the        *)
(* authority of its name is a flag of the entry.                           *)
(***************************************************************************)
EXTENDS Naturals, FiniteSets

CONSTANTS
    Capability,   \* names
    Parent,       \* extension -> the capability it extends
    OrderCap,     \* the capability whose config names a webhook
    Gated,        \* capabilities a store declares only with its gate on
    Offer,        \* name -> versions the business offers
    Entries       \* lists of entries a platform may have under a name, as sets

ASSUME NegotiationAssumption ==
    /\ DOMAIN Parent \subseteq Capability /\ \A e \in DOMAIN Parent : Parent[e] \in Capability
    /\ OrderCap \in Capability /\ Gated \subseteq Capability
    /\ Offer \in [Capability -> SUBSET (Nat \ {0})]
    /\ \A n \in Capability : IsFiniteSet(Offer[n])

VARIABLES
    gateOn,      \* does the store declare the gated capabilities?
    profile,     \* how the profile resolved, and what it declares
    picked,      \* the result so far: the version of each capability in it
    stage

negotiationVars == <<gateOn, profile, picked, stage>>

Resolution == {"ok", "busy", "failed", "otherVersion"}

NegotiationInit ==
    /\ gateOn \in BOOLEAN
    /\ \E r \in Resolution, c \in [Capability -> Entries], h \in {"none", "good", "uncallable"} :
          profile = [resolved |-> r, declares |-> IF r = "ok" THEN c ELSE [n \in Capability |-> {}],
                     hook |-> IF r = "ok" THEN h ELSE "none"]
    /\ picked = [n \in {} |-> 0]
    /\ stage = "resolve"

-----------------------------------------------------------------------------
Business == {n \in Capability : n \in Gated => gateOn}

\* Versions both sides list, of entries that are bound to their authority.
Mutual(n) == Offer[n] \cap {e.version : e \in {x \in profile.declares[n] : x.bound}}

Highest(S) == CHOOSE v \in S : \A w \in S : w <= v

\* A profile that cannot be had, or of another protocol version, is an error of
\* the transport; a spent budget is a retryable one.
ResolveProfile ==
    /\ stage = "resolve"
    /\ stage' = CASE profile.resolved = "ok"   -> "prune"
                  [] profile.resolved = "busy" -> "retryLater"
                  [] OTHER                     -> "discoveryFailed"
    /\ picked' = IF profile.resolved = "ok"
                 THEN [n \in {m \in Business : Mutual(m) # {}} |-> Highest(Mutual(n))]
                 ELSE picked
    /\ UNCHANGED <<gateOn, profile>>

Orphans == {n \in DOMAIN picked : n \in DOMAIN Parent /\ Parent[n] \notin DOMAIN picked}

\* Mutant: one pass over the extensions, in whatever order.
PruneOnce ==
    /\ stage = "prune"
    /\ \E gone \in SUBSET Orphans :
          /\ Orphans # {} => gone # {}
          /\ picked' = [n \in DOMAIN picked \ gone |-> picked[n]]
    /\ stage' = "hook"
    /\ UNCHANGED <<gateOn, profile>>

\* The loop over a map, in no order: an extension without its parent goes, until
\* a pass finds none.
Prune ==
    /\ stage = "prune"
    /\ IF Orphans = {} THEN stage' = "hook" /\ UNCHANGED picked
       ELSE stage' = stage /\ \E n \in Orphans : picked' = [m \in DOMAIN picked \ {n} |-> picked[m]]
    /\ UNCHANGED <<gateOn, profile>>

\* OrderWebhookURL: only an active order capability has one.
Hook == IF OrderCap \in DOMAIN picked THEN profile.hook ELSE "none"

CheckHook ==
    /\ stage = "hook"
    /\ stage' = IF Hook = "uncallable" THEN "discoveryFailed" ELSE "negotiated"
    /\ UNCHANGED <<gateOn, profile, picked>>

NegotiationEnd == stage \in {"negotiated", "retryLater", "discoveryFailed"} /\ UNCHANGED negotiationVars

NegotiationNext == ResolveProfile \/ Prune \/ CheckHook \/ NegotiationEnd

NegotiationSpec == NegotiationInit /\ [][NegotiationNext]_negotiationVars

-----------------------------------------------------------------------------
NegotiationTypeOK ==
    /\ gateOn \in BOOLEAN
    /\ profile.resolved \in Resolution /\ profile.hook \in {"none", "good", "uncallable"}
    /\ DOMAIN picked \subseteq Business
    /\ stage \in {"resolve", "prune", "hook", "negotiated", "retryLater", "discoveryFailed"}

\* Sets of mutual capabilities in which no extension lacks its parent.
Rooted ==
    {S \in SUBSET {n \in Business : Mutual(n) # {}} : \A n \in S \cap DOMAIN Parent : Parent[n] \in S}

\* The result is the largest such set, at the highest mutual versions, in
\* whatever order the capabilities were visited; and a webhook that is kept is
\* callable and belongs to it (Negotiate, handlers.negotiate).
LargestIntersection ==
    stage = "negotiated" =>
        /\ DOMAIN picked = UNION Rooted
        /\ \A n \in DOMAIN picked : \E e \in profile.declares[n] :
              e.bound /\ e.version = picked[n] /\ \A f \in profile.declares[n] :
                  f.bound /\ f.version \in Offer[n] => f.version <= e.version
        /\ Hook # "uncallable"
=============================================================================
