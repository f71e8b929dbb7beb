------------------------------ MODULE StubLoop ------------------------------
(***************************************************************************)
(* StubTrainer.train (trainers/stub.py): a flat loop over total steps that *)
(* reports each of them and stops when on_progress returns False.  It is   *)
(* also the reference for the loops of the real trainers (TrainLoop).      *)
(***************************************************************************)
EXTENDS Integers

VARIABLES
    total,      \* total_steps, fixed when training starts
    perEpoch,   \* steps_per_epoch
    step,       \* the last step reported, 0 before the first
    epoch,      \* the epoch reported with it
    phase       \* "loop", "report" (in on_progress), "saved", "cancelled", "failed"

vars == <<total, perEpoch, step, epoch, phase>>

Fixed == UNCHANGED <<total, perEpoch>>

Init == /\ total \in Nat /\ perEpoch \in Nat
        /\ step = 0 /\ epoch = 0
        /\ phase = "loop"

Report == /\ phase = "loop"
          /\ step < total
          /\ step' = step + 1
          /\ epoch' = (step \div perEpoch) + 1
          /\ phase' = "report"
          /\ Fixed

GoOn == /\ phase = "report"
        /\ phase' = "loop"
        /\ Fixed /\ UNCHANGED <<step, epoch>>

Cancel == /\ phase = "report"
          /\ phase' = "cancelled"
          /\ Fixed /\ UNCHANGED <<step, epoch>>

Save == /\ phase = "loop"
        /\ step = total
        /\ phase' = "saved"
        /\ Fixed /\ UNCHANGED <<step, epoch>>

Fail == /\ phase = "loop"
        /\ phase' = "failed"
        /\ Fixed /\ UNCHANGED <<step, epoch>>

Next == Report \/ GoOn \/ Cancel \/ Save \/ Fail

SafeSpec == Init /\ [][Next]_vars

Spec == SafeSpec /\ WF_vars(Next)
=============================================================================
