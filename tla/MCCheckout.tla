----------------------------- MODULE MCCheckout -----------------------------
(* Instances of Checkout for TLC.  Submissions and keys are handed out in  *)
(* a fixed order, so that no symmetry is needed.                           *)
EXTENDS Checkout
=============================================================================
