----------------------------- MODULE Restarting -----------------------------
(***************************************************************************)
(* A process that may be ended at any moment and started again.            *)
(***************************************************************************)
EXTENDS Naturals

CONSTANT MaxCrashes  \* bound: how often it is ended

ASSUME CrashAssumption == MaxCrashes \in Nat

VARIABLE crashes

Crash == crashes < MaxCrashes /\ crashes' = crashes + 1
=============================================================================
