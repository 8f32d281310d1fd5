--------------------------- MODULE MCAcpCheckout ---------------------------
(* AcpCheckout on small sets, with the symmetries of its parameters. *)
EXTENDS AcpCheckout, CheckoutInvariant, TLC

CONSTANTS w1, w2, k1, k2

Workers == {w1, w2}
Keys == {k1, k2}
OneKey == {k1}
Symmetry == Permutations(Workers) \cup Permutations(Keys)
=============================================================================
