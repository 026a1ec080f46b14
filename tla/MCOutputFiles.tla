--------------------------- MODULE MCOutputFiles ---------------------------
(***************************************************************************)
(* OutputFiles with two resources and two names.                           *)
(***************************************************************************)
EXTENDS OutputFiles, TLC

CONSTANTS p1, p2, n1, n2

MCVirt == {n1, n2}
MCPhys == {p1, p2}
Symmetry == Permutations(MCVirt) \cup Permutations(MCPhys)
=============================================================================
