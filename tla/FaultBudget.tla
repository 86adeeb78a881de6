----------------------------- MODULE FaultBudget -----------------------------
(***************************************************************************)
(* The faults of a behaviour, which its model takes from one budget.       *)
(***************************************************************************)
EXTENDS Naturals

CONSTANT Faults         \* how many faults may happen

ASSUME FaultsAssumption == Faults \in Nat

VARIABLE left           \* the faults that may still happen

Fault == left > 0 /\ left' = left - 1
=============================================================================
