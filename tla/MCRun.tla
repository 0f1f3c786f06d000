-------------------------------- MODULE MCRun --------------------------------
(* Instances of the run model for TLC. *)
EXTENDS RunSafety, TLC

Spawns == [id |-> "spawns", cmd |-> "spec"]
Unspecified == [id |-> "unspecified", cmd |-> "none"]
Vacant == [id |-> "vacant", cmd |-> "empty"]

MCStep == {Spawns, Unspecified, Vacant}

PlanText(approved, blocked, steps, verifications) ==
  [ok |-> TRUE, approved |-> approved, blocked |-> blocked, steps |-> steps,
   verifications |-> verifications]

Unreadable == NoPlan
Draft == PlanText(FALSE, FALSE, {Spawns, Unspecified}, 0)
Signed == PlanText(TRUE, FALSE, {Spawns}, 2)
Gated == PlanText(TRUE, TRUE, {Spawns}, 0)
Hollow == PlanText(FALSE, FALSE, {Vacant, Spawns}, 1)

AllPlans == {Unreadable, Draft, Signed, Gated, Hollow}
TwoPlans == {Draft, Signed}
OnePlan == {Draft}
ShortPlan == {PlanText(FALSE, FALSE, {Spawns}, 1)}

(* The ledger as a set of lines with its last line: all that the steps and *)
(* the properties of the concurrent runs depend on, because the lines of   *)
(* one process are ordered by their sequence numbers.                      *)
LedgerAsSet ==
  <<{ledger[i] : i \in Lines},
    IF ledger = <<>> THEN <<>> ELSE <<ledger[Len(ledger)]>>,
    tail, checkpoint, seq, pc, procVars, envVars>>

Permutation == Permutations(Proc)

=============================================================================
