----------------------------- MODULE MCCheckout -----------------------------
(***************************************************************************)
(* The instances of Checkout that TLC checks.                              *)
(***************************************************************************)
EXTENDS Checkout

\* One plan is sold and the other is configured to cost nothing.
MCPrice == [plan \in Plans \ {"free"} |-> IF plan = "verified_route" THEN 0 ELSE 29]
=============================================================================
