------------------------------ MODULE Rounding ------------------------------
(***************************************************************************)
(* round() of a quotient, in integers: halves are rounded up.              *)
(***************************************************************************)
EXTENDS Integers

\* round(a / b)
Rounded(a, b) == (2 * a + b) \div (2 * b)
=============================================================================
