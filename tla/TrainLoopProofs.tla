-------------------------- MODULE TrainLoopProofs --------------------------
(***************************************************************************)
(* Proofs about the train methods of smolvla_lora.py and gr00t_lerobot.py  *)
(* (module TrainLoop) for any hyperparameters and any layout of the        *)
(* downloaded directory: which dataset is trained on, for how many steps,  *)
(* and that the two nested loops are the flat loop of the stub trainer.    *)
(***************************************************************************)
EXTENDS TrainLoop, TLAPS

-----------------------------------------------------------------------------
(* Arithmetic of nested loops: batch b of the e-th of E epochs with B batches each. *)

LEMMA InsideTheEpochs ==
  ASSUME NEW E \in Nat, NEW B \in Nat \ {0}, NEW e \in 1 .. E, NEW b \in 0 .. B
  PROVE  /\ (e - 1) * B \in Nat /\ e * B = (e - 1) * B + B
         /\ (e - 1) * B + b \in 0 .. E * B
         /\ b < B => (e - 1) * B + b < E * B
<1>1. e * B = (e - 1) * B + B
  OBVIOUS
<1>2. E * B = e * B + (E - e) * B
  OBVIOUS
<1>3. (E - e) * B \in Nat /\ (e - 1) * B \in Nat
  <2>1. \A m, n \in Nat : m * n \in Nat
    OBVIOUS
  <2> QED
    BY <2>1
<1> QED
  BY <1>1, <1>2, <1>3

\* Quotient and remainder of a position in the epochs.
LEMMA EpochOfPosition ==
  ASSUME NEW B \in Nat \ {0}, NEW k \in Nat, NEW c \in 0 .. B - 1
  PROVE  (k * B + c) \div B = k /\ (k * B + c) % B = c
<1> DEFINE n == k * B + c
           q == n \div B
           r == n % B
<1>1. n \in Nat
  <2>1. k * B \in Nat
    OBVIOUS
  <2> QED
    BY <2>1
<1>2. q \in Int /\ r \in 0 .. B - 1 /\ n = B * q + r
  BY <1>1
<1>3. B * (k - q) = r - c
  BY <1>2
<1>4. k = q
  <2>1. CASE k > q
    <3>1. B * (k - q) >= B
      BY <2>1, <1>2
    <3> QED
      BY <3>1, <1>2, <1>3
  <2>2. CASE k < q
    <3>1. B * (q - k) >= B
      BY <2>2, <1>2
    <3>2. B * (k - q) = - (B * (q - k))
      BY <1>2
    <3> QED
      BY <3>1, <3>2, <1>2, <1>3
  <2> QED
    BY <2>1, <2>2, <1>2
<1>5. r = c
  BY <1>2, <1>3, <1>4
<1> QED
  BY <1>4, <1>5
-----------------------------------------------------------------------------
(* The invariant. *)

\* There is one root at most that is the first of its kind, and it holds a dataset.
LEMMA LocatedHoldsDataset ==
  ASSUME info \subseteq Dirs, NEW r \in Located
  PROVE  /\ r \in info
         /\ trainer # "smolvla_lora" => \A q \in Located : q = r
         /\ Base \in info => r = Base
<1>1. CASE Base \in info
  BY <1>1 DEF Located, DirectRoot, SortedRoot
<1>2. CASE Base \notin info
  <2>1. info \subseteq Nat
    BY DirsAssumption DEF Dirs, Base
  <2>2. r \in info
    BY <1>2 DEF Located, DirectRoot, SortedRoot, First
  <2>3. trainer # "smolvla_lora" => Located = First(info)
    BY <1>2 DEF Located, SortedRoot
  <2>4. \A p, q \in First(info) : p = q
    BY <2>1 DEF First
  <2> QED
    BY <1>2, <2>2, <2>3, <2>4
<1> QED
  BY <1>1, <1>2

\* Loading the dataset and the policy moves no counter.
LEMMA LoadingKeeps ==
  ASSUME LoopInv, Download \/ Load \/ Reload \/ MakePolicy
  PROVE  LoopInv'
<1> USE DEF LoopInv
<1>1. /\ UNCHANGED <<hyper, loopVars, trainer, info>>
      /\ pc \in {"download", "load", "reload", "policy"}
      /\ pc' \in {"load", "reload", "policy", "epochs", "failed"}
  BY DEF Download, Load, Reload, MakePolicy, Loads, Fail, loadVars
<1>2. Located' = Located
  BY <1>1 DEF Located, DirectRoot, SortedRoot, First
<1>3. Located \subseteq Dirs
  BY LocatedHoldsDataset DEF TypeOK
<1>4. CASE Download \/ MakePolicy
  <2>1. UNCHANGED <<first, second>> /\ error' \in {error, "DownloadFailed", "KeyError", "PolicyError"}
    BY <1>4 DEF Download, MakePolicy, Fail, loadVars
  <2>2. TypeOK'
    BY <1>1, <2>1 DEF TypeOK, hyper, loopVars
  <2>3. LoadKnown'
    BY <1>1, <1>4, <2>1 DEF LoadKnown, SameRootTwice, Download, MakePolicy, Fail
  <2>4. Counted'
    <3>1. pc' = "epochs" => (cap > 0 => 0 < cap)
      OBVIOUS
    <3>2. 0 * batches = 0
      BY ChoicesAssumption DEF TypeOK
    <3> QED
      BY <1>1, <1>4, <3>1, <3>2 DEF Counted, hyper, loopVars
  <2> QED
    BY <2>2, <2>3, <2>4
<1>5. CASE Load
  <2>1. /\ UNCHANGED second /\ first' \in Dirs \cup {NoRoot}
        /\ error' \in {error, "LoadError", "HubLookup", "FileNotFoundError"}
        /\ pc' \in {"reload", "failed"}
        /\ pc' = "reload" => first' \in Located /\ first' \in info
    BY <1>3, <1>5 DEF Load, Loads, Fail, TypeOK
  <2>2. TypeOK'
    BY <1>1, <2>1 DEF TypeOK, hyper, loopVars
  <2>3. LoadKnown'
    BY <1>1, <1>2, <2>1 DEF LoadKnown, SameRootTwice
  <2>4. Counted'
    BY <1>1, <2>1 DEF Counted, hyper, loopVars
  <2> QED
    BY <2>2, <2>3, <2>4
<1>6. CASE Reload
  <2>1. PICK r \in IF trainer = "smolvla_lora" THEN {Base} ELSE Located :
           second' = r /\ Loads(r, "policy")
    BY <1>6 DEF Reload
  <2>2. /\ UNCHANGED first /\ r \in Dirs
        /\ error' \in {error, "LoadError", "HubLookup"}
        /\ pc' \in {"policy", "failed"}
        /\ pc' = "policy" => r \in info
    BY <1>3, <1>6, <2>1 DEF Reload, Loads, Fail, Dirs
  <2>3. first \in Located
    BY <1>6 DEF Reload, LoadKnown
  <2>4. pc' = "policy" => r = first
    BY <2>1, <2>2, <2>3, LocatedHoldsDataset DEF TypeOK
  <2>5. TypeOK'
    BY <1>1, <2>1, <2>2 DEF TypeOK, hyper, loopVars
  <2>6. LoadKnown'
    BY <1>1, <2>1, <2>2, <2>4 DEF LoadKnown, SameRootTwice
  <2>7. Counted'
    BY <1>1, <2>2 DEF Counted, hyper, loopVars
  <2> QED
    BY <2>5, <2>6, <2>7
<1> QED
  BY <1>4, <1>5, <1>6

\* What every action of the loop leaves alone.
LEMMA LoopKeepsRoots ==
  ASSUME LoadKnown, UNCHANGED loadVars,
         pc \in {"epochs", "batches", "train", "report", "epochEnd", "saving"},
         pc' \in {"epochs", "batches", "train", "report", "epochEnd", "saving", "saved",
                  "cancelled", "failed"}
  PROVE  LoadKnown'
  BY DEF LoadKnown, SameRootTwice, loadVars

\* The epochs.
LEMMA EpochsKeep ==
  ASSUME LoopInv, NextEpoch \/ LoaderExhausted \/ EpochEnds \/ AllEpochsDone
  PROVE  LoopInv'
<1> USE DEF LoopInv
<1> USE ChoicesAssumption DEF hyper
<1>1. UNCHANGED <<loadVars, error, hyper, stepIdx, trained, event>>
  BY DEF NextEpoch, LoaderExhausted, EpochEnds, AllEpochsDone, loopVars
<1>2. /\ epochs \in Nat /\ batches \in Nat \ {0} /\ cap \in Nat /\ epochs * batches \in Nat
      /\ stepIdx \in Nat /\ trained \in Nat /\ epoch \in Nat /\ batch \in Nat
  <2>1. \A m, n \in Nat : m * n \in Nat
    OBVIOUS
  <2> QED
    BY <2>1 DEF TypeOK
<1>3. LoadKnown'
  BY <1>1, LoopKeepsRoots DEF NextEpoch, LoaderExhausted, EpochEnds, AllEpochsDone
<1>4. CASE NextEpoch
  <2>1. epoch' = epoch + 1 /\ epoch' \in 1 .. epochs /\ batch' = 0 /\ pc' = "batches"
    BY <1>2, <1>4 DEF NextEpoch, TypeOK
  <2>2. TypeOK'
    BY <1>1, <1>2, <2>1 DEF TypeOK, loadVars
  <2>3. Position' = stepIdx
    <3>1. Position' = epoch * batches + 0
      BY <1>1, <1>2, <2>1 DEF Position
    <3>2. epoch * batches \in Nat
      BY <1>2
    <3> QED
      BY <1>4, <3>1, <3>2 DEF Counted, NextEpoch
  <2>4. Counted'
    BY <1>1, <1>2, <1>4, <2>1, <2>3 DEF Counted, NextEpoch
  <2> QED
    BY <1>3, <2>2, <2>4
<1>5. CASE LoaderExhausted
  <2>1. TypeOK'
    BY <1>1, <1>5 DEF LoaderExhausted, TypeOK, loadVars, loopVars
  <2>2. Counted'
    BY <1>1, <1>5 DEF LoaderExhausted, Counted, Position, loopVars
  <2> QED
    BY <1>3, <2>1, <2>2
<1>6. CASE EpochEnds
  <2>1. epoch \in 1 .. epochs /\ batch \in 0 .. batches /\ stepIdx = Position
    BY <1>2, <1>6 DEF EpochEnds, Counted, TypeOK
  <2>2. /\ (epoch - 1) * batches \in Nat /\ epoch * batches = (epoch - 1) * batches + batches
        /\ stepIdx <= epochs * batches
        /\ epoch * batches <= epochs * batches
        /\ batch < batches => stepIdx < epochs * batches
    <3>1. epoch * batches <= epochs * batches
      BY <1>2, <2>1, InsideTheEpochs
    <3> QED
      BY <1>2, <2>1, <3>1, InsideTheEpochs DEF Position
  <2>3. TypeOK'
    BY <1>1, <1>6 DEF EpochEnds, TypeOK, loadVars, loopVars
  <2>4. CASE batch = batches /\ trained = stepIdx /\ (cap > 0 => stepIdx <= cap)
    <3>1. stepIdx = epoch * batches
      BY <2>1, <2>2, <2>4 DEF Position
    <3>2. stepIdx % batches = 0
      <4>1. (epoch * batches + 0) % batches = 0
        BY <1>2, EpochOfPosition
      <4> QED
        BY <1>2, <3>1, <4>1
    <3>3. cap > 0 /\ stepIdx >= cap => stepIdx = TotalSteps /\ ~CapInsideEpoch
      BY <1>2, <2>2, <2>4, <3>1, <3>2 DEF TotalSteps, CapInsideEpoch
    <3>4. TotalSteps' = TotalSteps /\ CapInsideEpoch' = CapInsideEpoch
      BY <1>1 DEF TotalSteps, CapInsideEpoch
    <3>5. Counted'
      BY <1>1, <1>2, <1>6, <2>4, <3>1, <3>3, <3>4 DEF EpochEnds, Counted, loopVars
    <3> QED
      BY <1>3, <2>3, <3>5
  <2>5. CASE cap > 0 /\ batch > 1 /\ trained = cap /\ stepIdx = cap + 1
    <3>1. cap = (epoch - 1) * batches + (batch - 1) /\ batch - 1 \in 1 .. batches - 1
      BY <1>2, <2>1, <2>2, <2>5 DEF Position
    <3>2. cap % batches = batch - 1
      <4>1. epoch - 1 \in Nat /\ batch - 1 \in 0 .. batches - 1
        BY <2>1, <3>1
      <4> QED
        BY <1>2, <3>1, <4>1, EpochOfPosition
    <3>3. cap < epochs * batches
      BY <1>2, <2>2, <2>5
    <3>4. TotalSteps = cap /\ CapInsideEpoch
      BY <2>5, <3>1, <3>2, <3>3 DEF TotalSteps, CapInsideEpoch
    <3>5. TotalSteps' = TotalSteps /\ CapInsideEpoch' = CapInsideEpoch
      BY <1>1 DEF TotalSteps, CapInsideEpoch
    <3>6. pc' = "saving"
      BY <1>2, <1>6, <2>5 DEF EpochEnds
    <3>7. Counted'
      BY <1>1, <2>5, <3>4, <3>5, <3>6 DEF Counted
    <3> QED
      BY <1>3, <2>3, <3>7
  <2> QED
    BY <1>6, <2>4, <2>5 DEF EpochEnds, Counted
<1>7. CASE AllEpochsDone
  <2>1. TypeOK'
    BY <1>1, <1>7 DEF AllEpochsDone, TypeOK, loadVars, loopVars
  <2>2. stepIdx = epochs * batches /\ TotalSteps = stepIdx /\ ~CapInsideEpoch
    BY <1>2, <1>7 DEF AllEpochsDone, Counted, TotalSteps, CapInsideEpoch
  <2>3. TotalSteps' = TotalSteps /\ CapInsideEpoch' = CapInsideEpoch
    BY <1>1 DEF TotalSteps, CapInsideEpoch
  <2>4. Counted'
    BY <1>1, <1>7, <2>2, <2>3 DEF AllEpochsDone, Counted
  <2> QED
    BY <1>3, <2>1, <2>4
<1> QED
  BY <1>4, <1>5, <1>6, <1>7

\* One batch, and the end.
LEMMA BatchKeeps ==
  ASSUME LoopInv,
         DrawBatch \/ TrainAndReport \/ ProgressTrue \/ ProgressFalse \/ Save \/ LoopFails
  PROVE  LoopInv'
<1> USE DEF LoopInv
<1> USE ChoicesAssumption DEF hyper
<1>1. UNCHANGED <<loadVars, hyper, epoch>>
  BY DEF DrawBatch, TrainAndReport, ProgressTrue, ProgressFalse, Save, LoopFails, loopVars
<1>2. /\ epochs \in Nat /\ batches \in Nat \ {0} /\ cap \in Nat /\ epochs * batches \in Nat
      /\ stepIdx \in Nat /\ trained \in Nat /\ epoch \in Nat /\ batch \in Nat
  <2>1. \A m, n \in Nat : m * n \in Nat
    OBVIOUS
  <2> QED
    BY <2>1 DEF TypeOK
<1>3. LoadKnown'
  BY <1>1, LoopKeepsRoots
     DEF DrawBatch, TrainAndReport, ProgressTrue, ProgressFalse, Save, LoopFails, Fail
<1>4. TotalSteps' = TotalSteps /\ CapInsideEpoch' = CapInsideEpoch
  BY <1>1 DEF TotalSteps, CapInsideEpoch
<1>5. CASE DrawBatch
  <2>1. /\ UNCHANGED <<error, trained, event>> /\ batch' = batch + 1 /\ batch' \in 1 .. batches
        /\ epoch \in 1 .. epochs /\ stepIdx' = stepIdx + 1 /\ trained = stepIdx
        /\ pc' = IF cap > 0 /\ stepIdx + 1 > cap THEN "epochEnd" ELSE "train"
    BY <1>2, <1>5 DEF DrawBatch, Counted, TypeOK
  <2>2. Position' = stepIdx'
    <3>1. (epoch - 1) * batches \in Nat
      BY <1>2, <2>1, InsideTheEpochs
    <3> QED
      BY <1>1, <1>2, <1>5, <2>1, <3>1 DEF DrawBatch, Counted, Position
  <2>3. stepIdx' <= epochs * batches
    BY <1>1, <1>2, <2>1, <2>2, InsideTheEpochs DEF Position
  <2>4. TypeOK'
    BY <1>1, <1>2, <2>1, <2>3 DEF TypeOK, loadVars
  <2>5. Counted'
    BY <1>1, <1>2, <1>5, <2>1, <2>2 DEF DrawBatch, Counted
  <2> QED
    BY <1>3, <2>4, <2>5
<1>6. CASE TrainAndReport
  <2>1. /\ UNCHANGED <<error, batch, stepIdx>> /\ trained' = stepIdx /\ pc' = "report"
        /\ event' = [step |-> stepIdx, epoch |-> epoch]
    BY <1>2, <1>6 DEF TrainAndReport, Counted
  <2>2. TypeOK'
    BY <1>1, <1>2, <2>1 DEF TypeOK, loadVars
  <2>3. Counted'
    BY <1>1, <1>6, <2>1 DEF TrainAndReport, Counted, Position
  <2> QED
    BY <1>3, <2>2, <2>3
<1>7. CASE ProgressTrue \/ ProgressFalse \/ Save
  <2>1. TypeOK'
    BY <1>1, <1>7 DEF ProgressTrue, ProgressFalse, Save, TypeOK, loadVars, loopVars
  <2>2. Counted'
    BY <1>1, <1>4, <1>7 DEF ProgressTrue, ProgressFalse, Save, Counted, Position, loopVars
  <2> QED
    BY <1>3, <2>1, <2>2
<1>8. CASE LoopFails
  <2>1. TypeOK'
    BY <1>1, <1>8 DEF LoopFails, Fail, TypeOK, loadVars, loopVars
  <2>2. Counted'
    BY <1>8 DEF LoopFails, Fail, Counted, loopVars
  <2> QED
    BY <1>3, <2>1, <2>2
<1> QED
  BY <1>5, <1>6, <1>7, <1>8

\* The invariant holds in every state of a run.
THEOREM LoopInvariant == Spec => []LoopInv
<1>1. Init => LoopInv
  <2> SUFFICES ASSUME Init PROVE LoopInv
    OBVIOUS
  <2>1. epochs \in Nat /\ batches \in Nat \ {0} /\ epochs * batches \in Nat
    <3>1. \A m, n \in Nat : m * n \in Nat
      OBVIOUS
    <3> QED
      BY <3>1, ChoicesAssumption DEF Init
  <2>2. TypeOK
    BY <2>1 DEF Init, TypeOK
  <2>3. LoadKnown /\ Counted
    BY DEF Init, LoadKnown, SameRootTwice, Counted
  <2> QED
    BY <2>2, <2>3 DEF LoopInv
<1>2. LoopInv /\ UNCHANGED vars => LoopInv'
  BY DEF LoopInv, TypeOK, LoadKnown, SameRootTwice, Counted, Position, Located, DirectRoot,
     SortedRoot, First, TotalSteps, CapInsideEpoch, vars, loadVars, loopVars, hyper
<1>3. LoopInv /\ Next => LoopInv'
  BY LoadingKeeps, EpochsKeep, BatchKeeps DEF Next
<1> QED
  BY <1>1, <1>2, <1>3, PTL DEF Spec

\* A delivered policy was trained for the announced number of steps, wherever the cap
\* falls in an epoch (gr00t_lerobot.py:110-112 and 136-169).
THEOREM SavedMeansFullyTrainedHolds == Spec => []SavedMeansFullyTrained
<1>1. LoopInv => SavedMeansFullyTrained
  BY DEF LoopInv, Counted, SavedMeansFullyTrained
<1> QED
  BY <1>1, LoopInvariant, PTL

\* The totalSteps metric is the number of steps trained, or one more for a cap inside an
\* epoch (gr00t_lerobot.py:136-139 and 192).
THEOREM MetricCountsStepsHolds == Spec => []MetricCountsSteps
<1>1. LoopInv => MetricCountsSteps
  BY DEF LoopInv, Counted, MetricCountsSteps, TotalStepsMetric
<1> QED
  BY <1>1, LoopInvariant, PTL

\* The dataset whose fps the action chunks are made from is the one that is trained on
\* (smolvla_lora.py:96-97, gr00t_lerobot.py:90-96).
THEOREM SameRootTwiceHolds == Spec => []SameRootTwice
<1>1. LoopInv => SameRootTwice
  BY DEF LoopInv, LoadKnown
<1> QED
  BY <1>1, LoopInvariant, PTL
-----------------------------------------------------------------------------
(* The refinement. *)

\* One optimizer step of the nested loops is one report of the flat loop.
LEMMA TrainIsReport ==
  ASSUME LoopInv, TrainAndReport
  PROVE  Flat!Report
<1> USE DEF LoopInv
<1>1. /\ epochs \in Nat /\ batches \in Nat \ {0} /\ cap \in Nat /\ epochs * batches \in Nat
      /\ epoch \in 1 .. epochs /\ batch \in 1 .. batches /\ stepIdx \in Nat
  <2>1. \A m, n \in Nat : m * n \in Nat
    OBVIOUS
  <2> QED
    BY <2>1, ChoicesAssumption DEF TypeOK, Counted, TrainAndReport
<1>2. /\ event.step = stepIdx - 1 /\ stepIdx = Position /\ (cap > 0 => stepIdx <= cap)
      /\ event' = [step |-> stepIdx, epoch |-> epoch] /\ pc = "train" /\ pc' = "report"
      /\ UNCHANGED <<epochs, batches, cap>>
  BY <1>1 DEF Counted, TrainAndReport, hyper
<1>3. stepIdx - 1 = (epoch - 1) * batches + (batch - 1)
  BY <1>1, <1>2, InsideTheEpochs DEF Position
<1>4. (stepIdx - 1) \div batches = epoch - 1
  <2>1. epoch - 1 \in Nat /\ batch - 1 \in 0 .. batches - 1
    BY <1>1
  <2> QED
    BY <1>1, <1>3, <2>1, EpochOfPosition
<1>5. stepIdx - 1 < TotalSteps
  <2>1. stepIdx - 1 < epochs * batches
    <3>1. batch - 1 \in 0 .. batches /\ batch - 1 < batches
      BY <1>1
    <3> QED
      BY <1>1, <1>3, <3>1, InsideTheEpochs
  <2> QED
    BY <1>1, <1>2, <2>1 DEF TotalSteps
<1>6. TotalSteps' = TotalSteps
  BY <1>2 DEF TotalSteps
<1> QED
  BY <1>1, <1>2, <1>4, <1>5, <1>6 DEF Flat!Report, Flat!Fixed

\* The two nested loops, the cap in them and every failure around them behave as the flat
\* loop of the stub trainer (smolvla_lora.py:140-183, gr00t_lerobot.py:132-171).
THEOREM LoopsAreFlat == Spec => IsFlatLoopSafely
<1>1. Init => Flat!Init
  <2> SUFFICES ASSUME Init PROVE Flat!Init
    OBVIOUS
  <2>1. \A m, n \in Nat : m * n \in Nat
    OBVIOUS
  <2>2. TotalSteps \in Nat /\ batches \in Nat
    BY <2>1, ChoicesAssumption DEF Init, TotalSteps
  <2> QED
    BY <2>2 DEF Init, Flat!Init
<1>2. LoopInv /\ [Next]_vars => [Flat!Next]_(Flat!vars)
  <2> SUFFICES ASSUME LoopInv, [Next]_vars PROVE [Flat!Next]_(Flat!vars)
    OBVIOUS
  <2> DEFINE phase == IF pc \in {"report", "saved", "cancelled", "failed"} THEN pc ELSE "loop"
  <2>1. CASE TrainAndReport
    BY <2>1, TrainIsReport DEF Flat!Next
  <2>2. CASE \/ Download \/ Load \/ Reload \/ MakePolicy
             \/ NextEpoch \/ DrawBatch \/ LoaderExhausted \/ EpochEnds \/ AllEpochsDone
    <3>1. UNCHANGED <<epochs, batches, cap, event>> /\ phase = "loop" /\ phase' \in {"loop", "failed"}
      BY <2>2 DEF Download, Load, Loads, Reload, MakePolicy, NextEpoch, DrawBatch,
         LoaderExhausted, EpochEnds, AllEpochsDone, Fail, hyper, loopVars
    <3>2. TotalSteps' = TotalSteps
      BY <3>1 DEF TotalSteps
    <3> QED
      BY <3>1, <3>2 DEF Flat!Next, Flat!vars, Flat!Fail, Flat!Fixed
  <2>3. CASE ProgressTrue \/ ProgressFalse
    <3>1. UNCHANGED <<epochs, batches, cap, event>> /\ phase = "report" /\ phase' \in {"loop", "cancelled"}
      BY <2>3 DEF ProgressTrue, ProgressFalse, hyper, loopVars
    <3>2. TotalSteps' = TotalSteps
      BY <3>1 DEF TotalSteps
    <3> QED
      BY <3>1, <3>2 DEF Flat!Next, Flat!GoOn, Flat!Cancel, Flat!Fixed
  <2>4. CASE Save
    <3>1. /\ UNCHANGED <<epochs, batches, cap, event>> /\ phase = "loop" /\ phase' = "saved"
          /\ event.step = TotalSteps
      BY <2>4 DEF Save, LoopInv, Counted, hyper, loopVars
    <3>2. TotalSteps' = TotalSteps
      BY <3>1 DEF TotalSteps
    <3> QED
      BY <3>1, <3>2 DEF Flat!Next, Flat!Save, Flat!Fixed
  <2>5. CASE LoopFails
    <3>1. UNCHANGED <<epochs, batches, cap, event>> /\ phase = "loop" /\ phase' = "failed"
      BY <2>5 DEF LoopFails, Fail, hyper, loopVars
    <3>2. TotalSteps' = TotalSteps
      BY <3>1 DEF TotalSteps
    <3> QED
      BY <3>1, <3>2 DEF Flat!Next, Flat!Fail, Flat!Fixed
  <2>6. CASE UNCHANGED vars
    BY <2>6 DEF vars, hyper, loopVars, TotalSteps, Flat!vars
  <2> QED
    BY <2>1, <2>2, <2>3, <2>4, <2>5, <2>6 DEF Next
<1> QED
  BY <1>1, <1>2, LoopInvariant, PTL DEF Spec, IsFlatLoopSafely, Flat!SafeSpec
=============================================================================
