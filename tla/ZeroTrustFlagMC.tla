--------------------------- MODULE ZeroTrustFlagMC ---------------------------
(***************************************************************************)
(* Instances of ZeroTrustFlag for TLC.                                     *)
(***************************************************************************)
EXTENDS ZeroTrustFlag, TLC

CONSTANTS k1, k2, p1

Symmetry == Permutations(Calls)
=============================================================================
