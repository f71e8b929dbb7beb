----------------------------- MODULE TrainLoop -----------------------------
(***************************************************************************)
(* The train methods of smolvla_lora.py and gr00t_lerobot.py.  The dataset *)
(* is downloaded and loaded twice, the second time with the action chunks  *)
(* the policy wants; then come epochs over a DataLoader, capped by the     *)
(* hyperparameter max_steps (0 = no cap), with one on_progress for each    *)
(* optimizer step; then the policy is saved.                               *)
(*                                                                         *)
(* LeRobotDataset is external: with a root that has no meta/info.json it   *)
(* turns to the Hub, which refuses a local repo id.  So is DataLoader: it  *)
(* raises for a dataset without frames, so a loader has a batch.           *)
(***************************************************************************)
EXTENDS DatasetRoot

CONSTANTS EpochChoices, BatchChoices, CapChoices    \* bounds of the hyperparameters

ASSUME ChoicesAssumption ==
    EpochChoices \subseteq Nat /\ BatchChoices \subseteq Nat \ {0} /\ CapChoices \subseteq Nat

VARIABLES
    trainer,                \* "smolvla_lora" or "gr00t_lerobot": fixed
    info,                   \* the directories with a meta/info.json: fixed
    first, second,          \* the roots the two loads read, NoRoot before
    error,                  \* what was raised, "none" before
    epochs, batches, cap,   \* epochs, len(loader), max_steps: fixed
    epoch,      \* the epoch under way, 0 before the first
    batch,      \* batches drawn from the loader in this epoch
    stepIdx,    \* step_idx
    trained,    \* history: optimizer steps taken
    event,      \* history: the last ProgressEvent, as [step, epoch]
    pc

hyper == <<epochs, batches, cap>>
loadVars == <<trainer, info, first, second>>
loopVars == <<epoch, batch, stepIdx, trained, event>>
vars == <<loadVars, error, hyper, loopVars, pc>>

NoRoot == -1

TotalSteps == IF cap > 0 /\ cap < epochs * batches THEN cap ELSE epochs * batches

Init == /\ trainer \in {"smolvla_lora", "gr00t_lerobot"}
        /\ info \in SUBSET Dirs
        /\ first = NoRoot /\ second = NoRoot /\ error = "none"
        /\ epochs \in EpochChoices /\ batches \in BatchChoices /\ cap \in CapChoices
        /\ epoch = 0 /\ batch = 0 /\ stepIdx = 0 /\ trained = 0
        /\ event = [step |-> 0, epoch |-> 0]
        /\ pc = "download"

-----------------------------------------------------------------------------
(* The dataset and the policy. *)

Fail(what) == /\ pc' = "failed"
              /\ error' = what

\* smolvla_lora has no defaults for the address of the store: KeyError without them.
Download == /\ pc = "download"
            /\ \/ pc' = "load" /\ UNCHANGED error
               \/ Fail("DownloadFailed")
               \/ trainer = "smolvla_lora" /\ Fail("KeyError")
            /\ UNCHANGED <<loadVars, hyper, loopVars>>

Located == IF trainer = "smolvla_lora" THEN DirectRoot(info) ELSE SortedRoot(info)

\* LeRobotDataset(root=...)
Loads(root, next) == \/ root \in info /\ pc' = next /\ UNCHANGED error
                     \/ root \in info /\ Fail("LoadError")
                     \/ root \notin info /\ Fail("HubLookup")

\* _load_lerobot_dataset
Load == /\ pc = "load"
        /\ \/ \E root \in Located : first' = root /\ Loads(root, "reload")
           \/ Located = {} /\ Fail("FileNotFoundError") /\ UNCHANGED first
        /\ UNCHANGED <<trainer, info, second, hyper, loopVars>>

\* Mutant: the second load takes any directory with a dataset.
Reload_AnyRoot == /\ pc = "reload"
                  /\ \E root \in info : second' = root /\ Loads(root, "policy")
                  /\ UNCHANGED <<trainer, info, first, hyper, loopVars>>

\* _reload_with_deltas: gr00t_lerobot locates the root again, smolvla_lora passes the
\* download directory, whatever the first load found.
Reload == /\ pc = "reload"
          /\ \E root \in IF trainer = "smolvla_lora" THEN {Base} ELSE Located :
                second' = root /\ Loads(root, "policy")
          /\ UNCHANGED <<trainer, info, first, hyper, loopVars>>

\* The policy, its preprocessor and the optimizer; out of memory, no access to the base
\* model, nothing trainable.
MakePolicy == /\ pc = "policy"
              /\ \/ pc' = "epochs" /\ UNCHANGED error
                 \/ Fail("PolicyError")
              /\ UNCHANGED <<loadVars, hyper, loopVars>>

-----------------------------------------------------------------------------
(* The loop. *)

\* for epoch in range(1, epochs + 1)
NextEpoch == /\ pc = "epochs" /\ epoch < epochs
             /\ epoch' = epoch + 1
             /\ batch' = 0
             /\ pc' = "batches"
             /\ UNCHANGED <<loadVars, error, hyper, stepIdx, trained, event>>

\* Mutants: the cap is compared one too early; the step counter restarts with the epoch.
DrawBatch_CapEarly == /\ pc = "batches" /\ batch < batches
                      /\ batch' = batch + 1
                      /\ stepIdx' = stepIdx + 1
                      /\ pc' = IF cap > 0 /\ stepIdx + 1 >= cap THEN "epochEnd" ELSE "train"
                      /\ UNCHANGED <<loadVars, error, hyper, epoch, trained, event>>
DrawBatch_Restarts == /\ pc = "batches" /\ batch < batches
                      /\ batch' = batch + 1
                      /\ stepIdx' = batch + 1
                      /\ pc' = IF cap > 0 /\ batch + 1 > cap THEN "epochEnd" ELSE "train"
                      /\ UNCHANGED <<loadVars, error, hyper, epoch, trained, event>>

\* for batch in loader: the counter moves before the cap is looked at.
DrawBatch == /\ pc = "batches" /\ batch < batches
             /\ batch' = batch + 1
             /\ stepIdx' = stepIdx + 1
             /\ pc' = IF cap > 0 /\ stepIdx + 1 > cap THEN "epochEnd" ELSE "train"
             /\ UNCHANGED <<loadVars, error, hyper, epoch, trained, event>>

LoaderExhausted == /\ pc = "batches" /\ batch = batches
                   /\ pc' = "epochEnd"
                   /\ UNCHANGED <<loadVars, error, hyper, loopVars>>

\* Forward, backward, optimizer.step(), and the call of on_progress.
TrainAndReport == /\ pc = "train"
                  /\ trained' = trained + 1
                  /\ event' = [step |-> stepIdx, epoch |-> epoch]
                  /\ pc' = "report"
                  /\ UNCHANGED <<loadVars, error, hyper, epoch, batch, stepIdx>>

ProgressTrue == /\ pc = "report"
                /\ pc' = "batches"
                /\ UNCHANGED <<loadVars, error, hyper, loopVars>>

ProgressFalse == /\ pc = "report"
                 /\ pc' = "cancelled"
                 /\ UNCHANGED <<loadVars, error, hyper, loopVars>>

\* Mutant: the cap is not looked at again after an epoch.
EpochEnds_CapUnread == /\ pc = "epochEnd"
                       /\ pc' = "epochs"
                       /\ UNCHANGED <<loadVars, error, hyper, loopVars>>

EpochEnds == /\ pc = "epochEnd"
             /\ pc' = IF cap > 0 /\ stepIdx >= cap THEN "saving" ELSE "epochs"
             /\ UNCHANGED <<loadVars, error, hyper, loopVars>>

AllEpochsDone == /\ pc = "epochs" /\ epoch = epochs
                 /\ pc' = "saving"
                 /\ UNCHANGED <<loadVars, error, hyper, loopVars>>

\* save_pretrained, the tarball and the TrainerResult.
Save == /\ pc = "saving"
        /\ pc' = "saved"
        /\ UNCHANGED <<loadVars, error, hyper, loopVars>>

\* Out of memory, an unreadable video, a full disk.
LoopFails == /\ pc \in {"batches", "train", "saving"}
             /\ Fail("TrainError")
             /\ UNCHANGED <<loadVars, hyper, loopVars>>

\* final_metrics["totalSteps"] of gr00t_lerobot.
TotalStepsMetric == stepIdx

Next == \/ Download \/ Load \/ Reload \/ MakePolicy
        \/ NextEpoch \/ DrawBatch \/ LoaderExhausted \/ TrainAndReport
        \/ ProgressTrue \/ ProgressFalse \/ EpochEnds \/ AllEpochsDone \/ Save \/ LoopFails

Spec == Init /\ [][Next]_vars /\ WF_vars(Next)

-----------------------------------------------------------------------------
\* Every variable keeps its type.
TypeOK ==
    /\ trainer \in {"smolvla_lora", "gr00t_lerobot"}
    /\ info \subseteq Dirs
    /\ first \in Dirs \cup {NoRoot} /\ second \in Dirs \cup {NoRoot}
    /\ error \in {"none", "KeyError", "DownloadFailed", "FileNotFoundError", "LoadError",
                  "HubLookup", "PolicyError", "TrainError"}
    /\ epochs \in EpochChoices /\ batches \in BatchChoices /\ cap \in CapChoices
    /\ epoch \in 0 .. epochs
    /\ batch \in 0 .. batches
    /\ stepIdx \in 0 .. (epochs * batches)
    /\ trained \in 0 .. stepIdx
    /\ event \in [step : 0 .. stepIdx, epoch : 0 .. epoch]
    /\ pc \in {"download", "load", "reload", "policy", "epochs", "batches", "train",
               "report", "epochEnd", "saving", "saved", "cancelled", "failed"}

\* A delivered policy was trained for exactly the announced number of steps
\* (gr00t_lerobot.py:110-112 and 136-169), wherever the cap falls in an epoch.
SavedMeansFullyTrained == pc \in {"saving", "saved"} => trained = TotalSteps

\* The totalSteps metric of a finished run (gr00t_lerobot.py:192) is the number of steps
\* trained, except that a cap inside an epoch is noticed only after the counter was
\* moved for a batch that is not trained (gr00t_lerobot.py:136-139): one too many then.
CapInsideEpoch == TotalSteps < epochs * batches /\ TotalSteps % batches # 0

MetricCountsSteps ==
    pc = "saved" /\ trainer = "gr00t_lerobot" =>
        TotalStepsMetric = trained + (IF CapInsideEpoch THEN 1 ELSE 0)

\* The dataset that gives fps and chunk length is the one that is trained on: a root
\* found below the download directory is found again (smolvla_lora.py:96-97,
\* gr00t_lerobot.py:90-96).
SameRootTwice ==
    pc \in {"policy", "epochs", "batches", "train", "report", "epochEnd", "saving", "saved",
            "cancelled"} => first = second /\ first \in info

\* "Maybe the bucket stored files under a repo_id subdir" (smolvla_lora.py:264): a dataset
\* that the first load found locally is not looked up on the Hub by the second.
SubdirDatasetsReload == error # "HubLookup"

\* The loops over epochs and batches behave like the flat loop of the stub trainer:
\* one report per step, in order, with the epoch the step belongs to, until all
\* steps are done or on_progress returned False.
Flat == INSTANCE StubLoop WITH
    total <- TotalSteps,
    perEpoch <- batches,
    step <- event.step,
    epoch <- event.epoch,
    phase <- IF pc \in {"report", "saved", "cancelled", "failed"} THEN pc ELSE "loop"

IsFlatLoop == Flat!Spec
IsFlatLoopSafely == Flat!SafeSpec

-----------------------------------------------------------------------------
(* The inductive invariant behind the safety properties. *)

\* The second load can only find what the first one found.
LoadKnown ==
    /\ pc = "reload" => first \in Located /\ first \in info
    /\ SameRootTwice

\* Where the step counter stands in the epochs; it passes the cap only for a batch that
\* ends the epoch, and the cap is never at the end of an epoch then.
Position == (epoch - 1) * batches + batch

Counted ==
    /\ event.step = trained
    /\ pc \in {"download", "load", "reload", "policy"} => stepIdx = 0 /\ trained = 0 /\ epoch = 0
    /\ pc = "epochs" =>
          /\ stepIdx = epoch * batches /\ trained = stepIdx
          /\ cap > 0 => stepIdx < cap
    /\ pc \in {"batches", "train", "report", "epochEnd"} => epoch > 0 /\ stepIdx = Position
    /\ pc \in {"batches", "train", "report"} /\ cap > 0 =>
          stepIdx <= cap /\ (batch = 0 => stepIdx < cap)
    /\ pc \in {"batches", "report"} => trained = stepIdx
    /\ pc \in {"train", "report"} => batch > 0
    /\ pc = "train" => trained = stepIdx - 1
    /\ pc = "epochEnd" =>
          \/ batch = batches /\ trained = stepIdx /\ (cap > 0 => stepIdx <= cap)
          \/ cap > 0 /\ batch > 1 /\ trained = cap /\ stepIdx = cap + 1
    /\ pc \in {"saving", "saved"} =>
          /\ trained = TotalSteps
          /\ stepIdx = trained + (IF CapInsideEpoch THEN 1 ELSE 0)

LoopInv == TypeOK /\ LoadKnown /\ Counted
=============================================================================
