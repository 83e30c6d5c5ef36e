--------------------------- MODULE MCTripMemory ---------------------------
(***************************************************************************)
(* The instances of TripMemory that TLC checks.                            *)
(***************************************************************************)
EXTENDS TripMemory, TLC

CONSTANTS r1, r2, a1

\* Regions and requests are interchangeable.
Symmetry == Permutations(Regions) \cup Permutations(Requests)
=============================================================================
