------------------------------ MODULE MCBilling ------------------------------
(* Instances of Billing for TLC. *)
EXTENDS Billing

CONSTANTS k1, h1, h2, g1

OneCheckout == {k1}
TwoHooks == {h1, h2}
OneGuard == {g1}
=============================================================================
