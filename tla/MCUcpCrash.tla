----------------------------- MODULE MCUcpCrash -----------------------------
(* MCUcpCheckout with a history: whether a pod has died holding the lock.  *)
EXTENDS MCUcpCheckout

VARIABLE crashed

CrashInit == crashed = FALSE /\ Init

CrashNext == Next /\ crashed' = (crashed \/ lock' = Orphan)

CrashSpec == CrashInit /\ [][CrashNext]_<<crashed, vars>> /\ Fairness

(* Until a pod dies holding the lock, the locked, snapshot-based handlers  *)
(* of ucp_checkout.go and flow.go implement the lock-free lifecycle of a   *)
(* checkout, in which a terminal session does not change.                  *)
ImplementsUntilCrash ==
    /\ Lifecycle!Init
    /\ [][crashed' \/ [Lifecycle!Next]_<<stored.status, orders>>]_<<crashed, vars>>
=============================================================================
