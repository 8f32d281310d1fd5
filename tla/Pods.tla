------------------------------- MODULE Pods --------------------------------
(***************************************************************************)
(* What the pods of the gateway share and keep, side by side: tenants,     *)
(* signing keys, profiles of platforms, negotiations, buckets of clients,  *)
(* and verdicts on tokens.  The parts share no state in the code.          *)
(***************************************************************************)
EXTENDS Tenants, SigningKeys, Profiles, Negotiation, Limiter, Identity

PodsSpec ==
    TenantsSpec /\ KeysSpec /\ ProfilesSpec /\ NegotiationSpec /\ LimiterSpec /\ IdentitySpec

\* Entries of the caches and tables have the types of their modules, and caches
\* and tables, whichever of their callers come at once, stay within their size.
PodsTypeOK ==
    /\ TenantsTypeOK /\ KeysTypeOK /\ ProfilesTypeOK /\ NegotiationTypeOK /\ LimiterTypeOK /\ IdentityTypeOK
=============================================================================
