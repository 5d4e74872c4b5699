-------------------------- MODULE IncidentEventsMC --------------------------
(***************************************************************************)
(* Instances of IncidentEvents for TLC.                                    *)
(***************************************************************************)
EXTENDS IncidentEvents, TLC

CONSTANTS r1, r2, r3, r4, i1, i2

Symmetry == Permutations(Requests) \cup Permutations(Ids)
=============================================================================
