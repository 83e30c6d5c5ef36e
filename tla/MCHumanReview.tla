--------------------------- MODULE MCHumanReview ---------------------------
(***************************************************************************)
(* The instances of HumanReview that TLC checks.                           *)
(***************************************************************************)
EXTENDS HumanReview, TLC

CONSTANTS r1, r2

\* Requests are interchangeable in the safety runs.
Symmetry == Permutations(Requests)
=============================================================================
