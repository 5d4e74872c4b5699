------------------------------ MODULE FanOutMC ------------------------------
(***************************************************************************)
(* Instances of FanOut for TLC.                                            *)
(***************************************************************************)
EXTENDS FanOut

CONSTANTS c1, s1
=============================================================================
