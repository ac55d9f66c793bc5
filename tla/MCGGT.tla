------------------------------- MODULE MCGGT -------------------------------
(***************************************************************************)
(* The distributed gcd with a few processes and small values.              *)
(***************************************************************************)
EXTENDS GGT, TLC
CONSTANTS p1, p2, p3
MCTwo == {p1, p2}
MCThree == {p1, p2, p3}
MCFactor == {2, 6, 9}
MCFew == {1, 3}
ProcessSymmetry == Permutations(Process)
=============================================================================
