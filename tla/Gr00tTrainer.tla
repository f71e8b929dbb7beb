---------------------------- MODULE Gr00tTrainer ----------------------------
(***************************************************************************)
(* Gr00tTrainer.train (trainers/gr00t_n1.py): the dataset is prepared      *)
(* (Gr00tDataset), then the fine-tuning is launched on it, followed and    *)
(* packaged (Gr00tStream).                                                 *)
(***************************************************************************)
EXTENDS Gr00tDataset, Gr00tStream

trainVars == <<prepVars, vars>>

TrainInit == PrepInit /\ Init

\* An exception of the preparation leaves train without a launch.
TrainStep == \/ PrepStep /\ UNCHANGED vars
             \/ prepPc = "ready" /\ MainStep /\ UNCHANGED prepVars

OtherStep == (ChildStep \/ ReaderStep) /\ UNCHANGED prepVars

TrainNext == TrainStep \/ OtherStep

TrainSpec == /\ TrainInit /\ [][TrainNext]_trainVars
             /\ WF_trainVars(TrainStep) /\ WF_trainVars(ParseLine /\ UNCHANGED prepVars)

-----------------------------------------------------------------------------
\* What the job runner is promised: a cancelled run leaves no training behind, no other
\* outcome leaves a child or hides a cancellation, and a run that is told to stop does
\* (gr00t_n1.py:604-628, base.py:71-79 and 105-117).
Contract == INSTANCE TrainerContract WITH
    told <- pc \in {"term", "kill", "reap"} \/ error \in {"CancelledError", "TimeoutExpired"},
    busy <- child = "running",
    outcome <- IF prepPc = "raised" THEN "failed"
               ELSE IF pc = "returned" THEN "result"
               ELSE IF pc # "raised" THEN "none"
               ELSE IF error = "CancelledError" THEN "cancelled" ELSE "failed"

IsTrainer == Contract!Spec
IsTrainerSafely == Contract!SafeSpec

\* The two parts run one after the other; the second has raised what it names (part of
\* the inductive invariant).
PartsInOrder ==
    /\ prepPc # "ready" => pc = "launch"
    /\ pc # "raised" => error = "none"
    /\ pc = "raised" /\ child = "running" => error = "TimeoutExpired"
=============================================================================
