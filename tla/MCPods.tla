------------------------------- MODULE MCPods -------------------------------
(***************************************************************************)
(* What the pods of the gateway share and keep, in one run: tenants,       *)
(* signing keys, profiles of platforms, buckets of clients, verdicts on    *)
(* tokens, and the queue of order webhooks.  Each behaviour is one of      *)
(* these, chosen at the start, and the others do not move.                 *)
(***************************************************************************)
EXTENDS Pods, WebhookDispatcher, TLC

CONSTANT Explored    \* the parts that a run explores

VARIABLE on

\* A chain of two extensions, and versions of which the platform may have more.
Extends == [n \in {"hosted", "sub"} |-> IF n = "hosted" THEN "checkout" ELSE "hosted"]
Offered == [n \in {"checkout", "order", "hosted", "sub"} |-> IF n = "checkout" THEN {1, 2} ELSE {1}]
Version(v, bound) == [version |-> v, bound |-> bound]
Declared == {{}, {Version(1, TRUE)}, {Version(1, FALSE)}, {Version(1, TRUE), Version(2, TRUE)},
             {Version(1, TRUE), Version(2, FALSE)}}

\* Pods are alike, and so are callers.
Alike == Permutations(Pod) \cup Permutations(Caller)

\* The first states of a part that does not move count once.
At(part, first, one) == first /\ (on # part => one)

MCInit ==
    /\ on \in Explored
    /\ At("tenants", TenantsInit, truth = Unknown)
    /\ KeysInit /\ ProfilesInit /\ LimiterInit /\ DispatchInit
    /\ IF on = "negotiation" THEN NegotiationInit
       ELSE /\ gateOn = FALSE /\ picked = [n \in {} |-> 0] /\ stage = "resolve"
            /\ profile = [resolved |-> "failed", declares |-> [n \in Capability |-> {}], hook |-> "none"]
    /\ At("identity", IdentityInit, \A c \in Credential : grants[c] = "unauth")

MCNext ==
    /\ on' = on
    /\ \/ /\ on = "tenants" /\ TenantsNext
          /\ UNCHANGED <<keyVars, profileVars, negotiationVars, limiterVars, identityVars, dispatchVars>>
       \/ /\ on = "keys" /\ KeysNext
          /\ UNCHANGED <<tenantVars, profileVars, negotiationVars, limiterVars, identityVars, dispatchVars>>
       \/ /\ on = "profiles" /\ ProfilesNext
          /\ UNCHANGED <<tenantVars, keyVars, negotiationVars, limiterVars, identityVars, dispatchVars>>
       \/ /\ on = "negotiation" /\ NegotiationNext
          /\ UNCHANGED <<tenantVars, keyVars, profileVars, limiterVars, identityVars, dispatchVars>>
       \/ /\ on = "limiter" /\ LimiterNext
          /\ UNCHANGED <<tenantVars, keyVars, profileVars, negotiationVars, identityVars, dispatchVars>>
       \/ /\ on = "identity" /\ IdentityNext
          /\ UNCHANGED <<tenantVars, keyVars, profileVars, negotiationVars, limiterVars, dispatchVars>>
       \/ /\ on = "queue" /\ DispatchNext
          /\ UNCHANGED <<tenantVars, keyVars, profileVars, negotiationVars, limiterVars, identityVars>>

MCSpec ==
    MCInit /\ [][MCNext]_<<on, tenantVars, keyVars, profileVars, negotiationVars, limiterVars, identityVars,
                           dispatchVars>>
=============================================================================
