---------------------------- MODULE FeedPromise ----------------------------
(***************************************************************************)
(* What the feed cache promises the crawlers of a tenant, with no pod,     *)
(* epoch or WATCH in sight: a publication shows a version the catalogue    *)
(* had, and is fresh only if it holds every announced change; an           *)
(* announcement takes the feed away; and what is stale becomes fresh by a  *)
(* publication only.  A stale publication may be older than what it        *)
(* replaces.                                                               *)
(***************************************************************************)
EXTENDS Naturals

VARIABLES
    catalog,    \* the version of the catalogue
    announced,  \* the last version the store has announced
    shown       \* the feed there is to show, if any

Feeds == [data: Nat, fresh: BOOLEAN]

TypeOK ==
    /\ catalog \in Nat /\ announced \in 0..catalog
    /\ shown = {} \/ \E f \in Feeds : shown = {f}

Init ==
    /\ catalog = 0 /\ announced = 0
    /\ shown \in {{}, {[data |-> 0, fresh |-> TRUE]}}

Edit == catalog' = catalog + 1 /\ UNCHANGED <<announced, shown>>

Announce == announced' = catalog /\ shown' = {} /\ UNCHANGED catalog

Publish ==
    \E version \in 0..catalog, fresh \in BOOLEAN :
        /\ fresh => version >= announced
        /\ shown' = {[data |-> version, fresh |-> fresh]}
        /\ UNCHANGED <<catalog, announced>>

Age ==
    \E f \in shown :
        /\ shown' = {[data |-> f.data, fresh |-> FALSE]}
        /\ UNCHANGED <<catalog, announced>>

Drop == shown' = {} /\ UNCHANGED <<catalog, announced>>

Next == Edit \/ Announce \/ Publish \/ Age \/ Drop

Spec == Init /\ [][Next]_<<catalog, announced, shown>>
=============================================================================
