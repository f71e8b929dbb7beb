---------------------------- MODULE Gr00tProofs ----------------------------
(***************************************************************************)
(* Proofs about the GR00T trainer (modules Gr00tDataset, Gr00tStream and   *)
(* Gr00tTrainer) for any layout of the bucket, any number of training      *)
(* steps, and any limit of the replay.                                     *)
(***************************************************************************)
EXTENDS Gr00tTrainer, FiniteSetTheorems, FunctionTheorems, TLAPS

-----------------------------------------------------------------------------
(* The preparation of the dataset. *)

\* There is one root at most: the order of the directories is total.
LEMMA RootIsOne ==
  ASSUME NEW dirs \in SUBSET Dirs, NEW d \in OriginalRoot(dirs), NEW e \in OriginalRoot(dirs)
  PROVE  d = e /\ d \in Dirs /\ d \in dirs /\ d \notin Backups
  BY DirsAssumption DEF OriginalRoot, First, Dirs, Base

\* The conversion does not change which directory is found: the original went to a
\* directory that is skipped (gr00t_n1.py:124-125 and 246-252).
LEMMA ConvertKeepsRoot ==
  ASSUME PrepInv, Convert
  PROVE  /\ PrepTypeOK'
         /\ root' = root /\ root' \in OriginalRoot(info')
         /\ tree'[root'] = "v2" /\ root' \notin Backups
<1> USE DEF PrepInv, PrepTypeOK, Convert
<1>1. root \in OriginalRoot(info) /\ root' = root /\ prepPc' = "relocate"
  BY DEF PrepGoto
<1>2. root \in Dirs /\ root \in info /\ root \notin Backups
  BY <1>1, RootIsOne DEF info
<1>3. CASE root = Base
  <2>1. tree' \in [Dirs -> Versions] /\ tree'[Base] = "v2"
    BY <1>3 DEF Versions, Dirs
  <2>2. Base \in info'
    BY <2>1 DEF info, Dirs
  <2>3. modality' \subseteq Dirs
    BY <1>3
  <2> QED
    BY <1>1, <1>2, <1>3, <2>1, <2>2, <2>3 DEF OriginalRoot, PrepGoto
<1>4. CASE root # Base
  <2>1. Base \notin info /\ root \in First(info \ Backups) /\ root \in Subdirs
    BY <1>1, <1>2, <1>4 DEF OriginalRoot, Dirs
  <2>2. BackupOf[root] \in Backups /\ BackupOf[root] \in Subdirs
    BY <2>1, LayoutsAssumption, DirsAssumption
  <2>3. /\ tree' \in [Dirs -> Versions] /\ tree'[root] = "v2"
        /\ \A d \in Dirs \ {root, BackupOf[root]} : tree'[d] = tree[d]
    BY <1>2, <1>4, <2>2 DEF Versions, Dirs
  <2>4. info' \ Backups = info \ Backups
    BY <1>2, <2>2, <2>3 DEF info
  <2>5. Base \notin info'
    BY <1>4, <2>1, <2>2, <2>3, DirsAssumption DEF info, Dirs, Base
  <2>6. modality' \subseteq Dirs
    BY <1>4
  <2>7. root \in OriginalRoot(info')
    BY <2>1, <2>4, <2>5 DEF OriginalRoot, First
  <2> QED
    BY <1>1, <1>2, <2>3, <2>6, <2>7 DEF PrepGoto
<1> QED
  BY <1>3, <1>4

\* Every step of the preparation keeps its invariant: one case per action.
LEMMA PrepKept == PrepInv /\ PrepStep => PrepInv'
<1> SUFFICES ASSUME PrepInv, PrepStep PROVE PrepInv'
  OBVIOUS
<1> USE DEF PrepInv, PrepTypeOK, PrepGoto, PrepRaise
<1>1. CASE Environment \/ DownloadDataset
  BY <1>1 DEF Environment, DownloadDataset
<1>2. CASE Locate("locate", "version")
  <2>1. info' = info /\ info \in SUBSET Dirs
    BY <1>2 DEF Locate, info
  <2> QED
    BY <1>2, <2>1, RootIsOne DEF Locate
<1>3. CASE Locate("relocate", "modality")
  <2>1. info' = info /\ info \in SUBSET Dirs
    BY <1>3 DEF Locate, info
  <2>2. \A d \in OriginalRoot(info) : d = root
    BY <1>3, <2>1, RootIsOne DEF Locate
  <2> QED
    BY <1>3, <2>1, <2>2 DEF Locate
<1>4. CASE IsV2
  <2>1. root \in info /\ root \notin Backups
    BY <1>4, RootIsOne DEF IsV2, info
  <2> QED
    BY <1>4, <2>1 DEF IsV2, info, Versions
<1>5. CASE IsV3 \/ VersionUnreadable \/ ConvertFails
  BY <1>5 DEF IsV3, VersionUnreadable, ConvertFails, info
<1>6. CASE Convert
  BY <1>6, ConvertKeepsRoot DEF Convert
<1>7. CASE EnsureModality \/ NoModality \/ ModalityConfig
  BY <1>7 DEF EnsureModality, NoModality, ModalityConfig
<1> QED
  BY <1>1, <1>2, <1>3, <1>4, <1>5, <1>6, <1>7 DEF PrepStep

-----------------------------------------------------------------------------
(* The stream. *)

\* Quotient and remainder.
LEMMA Quotient ==
  ASSUME NEW p \in Nat, NEW q \in Nat \ {0}
  PROVE  /\ p \div q \in Nat /\ p % q \in 0 .. q - 1
         /\ p = q * (p \div q) + (p % q)
OBVIOUS

\* Division is monotone.
LEMMA QuotientGrows ==
  ASSUME NEW m \in Nat, NEW p \in Nat, NEW q \in Nat \ {0}, m <= p
  PROVE  m \div q <= p \div q
<1> DEFINE d == m \div q
           e == p \div q
<1>1. d \in Nat /\ q * d <= m
  BY Quotient
<1>2. e \in Nat /\ p < q * e + q
  BY Quotient
<1> HIDE DEF d, e
<1>3. ~(d >= e + 1)
  <2> SUFFICES ASSUME d >= e + 1 PROVE FALSE
    OBVIOUS
  <2>1. q * d >= q * (e + 1)
    BY <1>1, <1>2
  <2>2. q * (e + 1) = q * e + q
    BY <1>2
  <2> QED
    BY <1>1, <1>2, <2>1, <2>2
<1>4. d <= e
  BY <1>1, <1>2, <1>3
<1> QED
  BY <1>4 DEF d, e

\* The last point of the history is always sampled (gr00t_n1.py:662-665).
LEMMA LastIsSampled ==
  ASSUME NEW n \in Nat \ {0}
  PROVE  n \in Sampled(n) /\ Sampled(n) \subseteq 1 .. n
<1>1. n - 1 \in {i \in 0 .. n - 1 : i % Stride(n) = 0 \/ i = n - 1}
  OBVIOUS
<1>2. n \in Sampled(n)
  BY <1>1 DEF Sampled
<1>3. \A s \in Sampled(n) : s \in 1 .. n
  BY DEF Sampled
<1> QED
  BY <1>2, <1>3

\* Before the launch nothing has happened.
LEMMA StreamInit == Init => IInv
<1> SUFFICES ASSUME Init PROVE IInv
  OBVIOUS
<1>1. StepsTrained = 0 /\ 0 \in Steps
  BY LimitAssumption DEF Init, StepsTrained, Steps
<1>2. TypeOK
  <2>1. /\ state \in [step : 0 .. StepsTrained, loss : 0 .. StepsTrained]
        /\ wrote \in 0 .. 2 * MaxStep /\ saving \in Steps /\ ckpt \in 0 .. saving
        /\ read \in 0 .. wrote /\ seen \in 0 .. ckpt /\ artifact \in Steps
    BY <1>1, LimitAssumption DEF Init
  <2>2. curve \in [Steps -> {NoPoint} \cup Steps]
    BY DEF Init
  <2>3. /\ quiet \in BOOLEAN /\ exited \in BOOLEAN
        /\ todo \subseteq Steps /\ replayed \subseteq Steps
    BY DEF Init
  <2> QED
    BY <2>1, <2>2, <2>3 DEF Init, TypeOK
<1>3. ChildKnown /\ ReplayKept
  BY <1>1 DEF Init, ChildKnown, ReplayKept
<1> QED
  BY <1>2, <1>3 DEF IInv

\* The child may do what it likes.
LEMMA ChildKeeps == IInv /\ ChildStep => IInv'
<1> SUFFICES ASSUME IInv, ChildStep PROVE IInv'
  OBVIOUS
<1> USE DEF IInv
<1>1. CASE PrintLine
  <2>1. StepsTrained \in Nat /\ StepsTrained <= StepsTrained' /\ StepsTrained' \in Nat
    BY <1>1, LimitAssumption DEF PrintLine, TypeOK, StepsTrained
  <2>2. TypeOK'
    BY <1>1, <2>1, LimitAssumption DEF PrintLine, TypeOK, readerVars, endVars, replayVars
  <2>3. ChildKnown' /\ ReplayKept'
    BY <1>1, <2>1, LimitAssumption DEF PrintLine, TypeOK, ChildKnown, ReplayKept, Steps,
       readerVars, endVars, replayVars
  <2> QED
    BY <2>2, <2>3
<1>2. CASE BeginCheckpoint
  <2>1. StepsTrained' = StepsTrained /\ StepsTrained \in Steps
    BY <1>2, LimitAssumption DEF BeginCheckpoint, TypeOK, StepsTrained, Steps
  <2>2. TypeOK'
    BY <1>2, <2>1, LimitAssumption DEF BeginCheckpoint, TypeOK, Steps, readerVars, endVars, replayVars
  <2>3. ChildKnown' /\ ReplayKept'
    BY <1>2, <2>1 DEF BeginCheckpoint, TypeOK, ChildKnown, ReplayKept, Steps, readerVars, endVars,
       replayVars
  <2> QED
    BY <2>2, <2>3
<1>3. CASE CheckpointSaved
  <2>1. StepsTrained' = StepsTrained
    BY <1>3 DEF CheckpointSaved, StepsTrained
  <2>2. TypeOK'
    BY <1>3, <2>1, LimitAssumption DEF CheckpointSaved, TypeOK, Steps, readerVars, endVars, replayVars
  <2>3. ChildKnown' /\ ReplayKept'
    BY <1>3, <2>1 DEF CheckpointSaved, TypeOK, ChildKnown, ReplayKept, Steps, readerVars, endVars,
       replayVars
  <2> QED
    BY <2>2, <2>3
<1>4. CASE ChildExits("ok") \/ ChildExits("bad")
  <2>1. StepsTrained' = StepsTrained
    BY <1>4 DEF ChildExits, StepsTrained
  <2>2. TypeOK'
    BY <1>4, <2>1 DEF ChildExits, TypeOK, readerVars, endVars, replayVars
  <2>3. ChildKnown' /\ ReplayKept'
    BY <1>4, <2>1 DEF ChildExits, TypeOK, ChildKnown, ReplayKept, readerVars, endVars, replayVars
  <2> QED
    BY <2>2, <2>3
<1> QED
  BY <1>1, <1>2, <1>3, <1>4 DEF ChildStep

\* The reader writes nothing but the state (gr00t_n1.py:535-551).
LEMMA ReaderKeeps == IInv /\ ReaderStep => IInv'
<1> SUFFICES ASSUME IInv, ReaderStep PROVE IInv'
  OBVIOUS
<1> USE DEF IInv
<1>1. StepsTrained' = StepsTrained
  BY DEF ReaderStep, ParseLine, ReaderEnds, childVars, StepsTrained
<1>2. CASE ParseLine
  <2>1. read + 1 \in 1 .. wrote /\ wrote \in Nat
    BY <1>2, LimitAssumption DEF ParseLine, TypeOK
  <2>2. \A n \in 1 .. wrote : (n + 1) \div 2 \in 0 .. StepsTrained /\ n \div 2 \in 0 .. StepsTrained
    BY <2>1 DEF StepsTrained
  <2>3. Parsed(read + 1) \in [step : 0 .. StepsTrained, loss : 0 .. StepsTrained]
    BY <2>1, <2>2 DEF Parsed, TypeOK
  <2>4. TypeOK'
    BY <1>1, <1>2, <2>1, <2>3 DEF ParseLine, TypeOK, childVars, endVars, replayVars
  <2>5. ChildKnown' /\ ReplayKept'
    BY <1>1, <1>2 DEF ParseLine, ChildKnown, ReplayKept, childVars, endVars, replayVars
  <2> QED
    BY <2>4, <2>5
<1>3. CASE ReaderEnds
  BY <1>1, <1>3 DEF ReaderEnds, TypeOK, ChildKnown, ReplayKept, childVars, endVars, replayVars
<1> QED
  BY <1>2, <1>3 DEF ReaderStep

\* The launch, the poll loop and the cancellation (gr00t_n1.py:519-620).
LEMMA PollKeeps ==
  ASSUME IInv,
         \/ Launch \/ LaunchFails \/ Poll \/ Merge \/ Report \/ AnswerTrue \/ AnswerFalse
         \/ WaitedForChild \/ TermTimesOut \/ KillTimesOut \/ RaiseCancelled
  PROVE  IInv'
<1> USE DEF IInv, Raise
<1>1. StepsTrained' = StepsTrained /\ StepsTrained \in Nat
  BY LimitAssumption DEF Launch, LaunchFails, Poll, Merge, Report, AnswerTrue, AnswerFalse,
     WaitedForChild, TermTimesOut, KillTimesOut, RaiseCancelled, childVars, StepsTrained, TypeOK
<1>2. CASE Launch \/ LaunchFails
  <2>1. UNCHANGED <<quiet, wrote, ckpt, saving, readerVars, state, seen, exited, replayVars,
                    artifact, curve>>
    BY <1>2 DEF Launch, LaunchFails, childVars, endVars
  <2>2. /\ pc' \in {"poll", "raised"} /\ child' \in {"running", child}
        /\ error' \in {error, "OSError"} /\ pc = "launch"
        /\ child' = "none" => pc' = "raised"
    BY <1>2 DEF Launch, LaunchFails, childVars, endVars
  <2>3. TypeOK'
    BY <1>1, <2>1, <2>2 DEF TypeOK, readerVars, replayVars
  <2>4. ChildKnown'
    <3>1. child = "none" /\ ~exited
      BY <2>2 DEF ChildKnown
    <3> QED
      BY <1>1, <2>1, <2>2, <3>1 DEF ChildKnown, readerVars, replayVars
  <2>5. ReplayKept'
    BY <2>1, <2>2 DEF ReplayKept, replayVars
  <2> QED
    BY <2>3, <2>4, <2>5
<1>3. CASE Poll \/ AnswerTrue \/ AnswerFalse
  <2>1. UNCHANGED <<childVars, readerVars, state, seen, endVars, curve>>
    BY <1>3 DEF Poll, AnswerTrue, AnswerFalse
  <2>2. /\ pc \in {"poll", "answer"} /\ pc' \in {"merge", "join", "poll", "term"}
        /\ pc' = "join" => exited /\ exited' = exited
    BY <1>3 DEF Poll, AnswerTrue, AnswerFalse
  <2>3. exited' \in BOOLEAN
    BY <1>3 DEF Poll, AnswerTrue, AnswerFalse, TypeOK
  <2>4. exited' => child \in {"ok", "bad"}
    <3>1. CASE Poll
      <4>1. child # "none"
        BY <3>1 DEF Poll, ChildKnown
      <4>2. exited' => child # "running"
        BY <3>1 DEF Poll
      <4> QED
        BY <4>1, <4>2 DEF TypeOK
    <3>2. CASE AnswerTrue \/ AnswerFalse
      BY <3>2 DEF AnswerTrue, AnswerFalse, ChildKnown
    <3> QED
      BY <1>3, <3>1, <3>2
  <2>5. TypeOK'
    BY <1>1, <2>1, <2>2, <2>3 DEF TypeOK, childVars, readerVars, endVars, replayVars
  <2>6. ChildKnown'
    BY <1>1, <2>1, <2>2, <2>4 DEF ChildKnown, childVars, readerVars, endVars, replayVars
  <2>7. ReplayKept'
    BY <2>1, <2>2 DEF ReplayKept, childVars, endVars, replayVars
  <2> QED
    BY <2>5, <2>6, <2>7
<1>4. CASE Merge
  <2>1. ckpt \in 0 .. StepsTrained
    BY <1>1, LimitAssumption DEF TypeOK, ChildKnown, Steps
  <2>2. state' \in [step : 0 .. StepsTrained, loss : 0 .. StepsTrained]
    BY <1>1, <1>4, <2>1 DEF Merge, Merged, Larger, TypeOK
  <2>3. TypeOK'
    BY <1>1, <1>4, <2>1, <2>2 DEF Merge, TypeOK, childVars, readerVars, endVars, replayVars
  <2>4. ChildKnown' /\ ReplayKept'
    BY <1>1, <1>4 DEF Merge, ChildKnown, ReplayKept, childVars, readerVars, endVars, replayVars
  <2> QED
    BY <2>3, <2>4
<1>5. CASE Report
  <2>1. state.loss \in Steps
    BY <1>1, LimitAssumption DEF TypeOK, Steps, StepsTrained
  <2>2. TypeOK'
    BY <1>1, <1>5, <2>1 DEF Report, TypeOK, childVars, readerVars, endVars, replayVars
  <2>3. ChildKnown' /\ ReplayKept'
    BY <1>1, <1>5 DEF Report, ChildKnown, ReplayKept, childVars, readerVars, endVars, replayVars
  <2> QED
    BY <2>2, <2>3
<1>6. CASE WaitedForChild \/ TermTimesOut \/ KillTimesOut \/ RaiseCancelled
  BY <1>1, <1>6 DEF WaitedForChild, TermTimesOut, KillTimesOut, RaiseCancelled, TypeOK,
     ChildKnown, ReplayKept, childVars, readerVars, endVars, replayVars
<1> QED
  BY <1>2, <1>3, <1>4, <1>5, <1>6

\* The end of a run: join, replay and packaging (gr00t_n1.py:622-682 and 749-796).
LEMMA EndKeeps ==
  ASSUME IInv,
         Join \/ ReadHistory \/ NoHistory \/ ReplayPoint \/ ReplayEnds \/ Package \/ PackageFails
  PROVE  IInv'
<1> USE DEF IInv, Raise
<1>1. StepsTrained' = StepsTrained /\ StepsTrained \in Nat
  BY LimitAssumption DEF Join, ReadHistory, NoHistory, ReplayPoint, ReplayEnds, Package,
     PackageFails, childVars, StepsTrained, TypeOK
<1>2. CASE Join \/ NoHistory
  <2>1. UNCHANGED <<childVars, readerVars, state, seen, exited, todo, replayed, artifact, curve>>
    BY <1>2 DEF Join, NoHistory, endVars, replayVars
  <2>2. /\ pc \in {"join", "history"} /\ pc' \in {"history", "package", "raised"}
        /\ error' \in {error, "RuntimeError"}
    BY <1>2 DEF Join, NoHistory, endVars
  <2>3. pc' # "raised" => child = "ok"
    BY <1>2 DEF Join, NoHistory, ChildKnown
  <2>4. TypeOK'
    BY <1>1, <2>1, <2>2 DEF TypeOK, childVars, readerVars
  <2>5. ChildKnown'
    BY <1>1, <2>1, <2>2, <2>3 DEF ChildKnown, childVars, readerVars
  <2>6. ReplayKept'
    BY <2>1, <2>2 DEF ReplayKept, childVars
  <2> QED
    BY <2>4, <2>5, <2>6
<1>3. CASE ReadHistory
  <2>1. ckpt \in Nat \ {0} /\ 1 .. ckpt \subseteq Steps
    BY <1>3, LimitAssumption DEF ReadHistory, TypeOK, Steps
  <2>2. ckpt \in todo' /\ todo' \subseteq Steps
    BY <1>3, <2>1, LastIsSampled DEF ReadHistory
  <2>3. TypeOK'
    BY <1>1, <1>3, <2>2 DEF ReadHistory, TypeOK, childVars, readerVars
  <2>4. ChildKnown' /\ ReplayKept'
    BY <1>1, <1>3, <2>2 DEF ReadHistory, ChildKnown, ReplayKept, childVars, readerVars
  <2> QED
    BY <2>3, <2>4
<1>4. CASE ReplayPoint
  <2>1. PICK s \in todo : /\ todo' = todo \ {s} /\ replayed' = replayed \cup {s}
                          /\ curve' = [curve EXCEPT ![s] = s]
    BY <1>4 DEF ReplayPoint
  <2>2. TypeOK'
    BY <1>1, <1>4, <2>1 DEF ReplayPoint, TypeOK, childVars, readerVars
  <2>3. ChildKnown'
    BY <1>1, <1>4 DEF ReplayPoint, ChildKnown, childVars, readerVars
  <2>4. \A r \in replayed' : curve'[r] = r
    BY <1>4, <2>1 DEF ReplayPoint, TypeOK, ReplayKept
  <2>5. ReplayKept'
    BY <1>4, <2>1, <2>4 DEF ReplayPoint, ReplayKept, childVars, readerVars
  <2> QED
    BY <2>2, <2>3, <2>5
<1>5. CASE ReplayEnds
  <2>1. ckpt \in 0 .. StepsTrained
    BY <1>1, LimitAssumption DEF TypeOK, ChildKnown, Steps
  <2>2. state' \in [step : 0 .. StepsTrained, loss : 0 .. StepsTrained]
    BY <1>5, <2>1 DEF ReplayEnds, Larger, TypeOK
  <2>3. TypeOK'
    BY <1>1, <1>5, <2>2 DEF ReplayEnds, TypeOK, childVars, readerVars, endVars, replayVars
  <2>4. ChildKnown' /\ ReplayKept'
    BY <1>1, <1>5, <2>2 DEF ReplayEnds, ChildKnown, ReplayKept, childVars, readerVars, endVars,
       replayVars
  <2> QED
    BY <2>3, <2>4
<1>6. CASE Package \/ PackageFails
  BY <1>1, <1>6 DEF Package, PackageFails, TypeOK, ChildKnown, ReplayKept, childVars, readerVars,
     replayVars
<1> QED
  BY <1>2, <1>3, <1>4, <1>5, <1>6

-----------------------------------------------------------------------------
(* The trainer. *)

\* Both invariants hold in every state of a run.
THEOREM TrainerInvariant == TrainSpec => [](PrepInv /\ IInv)
<1>1. TrainInit => PrepInv /\ IInv
  <2>1. PrepInit => PrepInv
    BY LayoutsAssumption DEF PrepInit, PrepInv, PrepTypeOK, Dirs, info
  <2> QED
    BY <2>1, StreamInit DEF TrainInit
<1>2. PrepInv /\ UNCHANGED prepVars => PrepInv'
  BY DEF PrepInv, PrepTypeOK, prepVars, info
<1>3. IInv /\ UNCHANGED vars => IInv'
  BY DEF IInv, TypeOK, ChildKnown, ReplayKept, StepsTrained, vars, childVars, readerVars, endVars,
     replayVars
<1>4. IInv /\ MainStep => IInv'
  BY PollKeeps, EndKeeps DEF MainStep
<1>5. PrepInv /\ IInv /\ [TrainNext]_trainVars => (PrepInv /\ IInv)'
  BY <1>2, <1>3, <1>4, PrepKept, ChildKeeps, ReaderKeeps
     DEF TrainNext, TrainStep, OtherStep, trainVars
<1> QED
  BY <1>1, <1>5, PTL DEF TrainSpec

\* The child trains on a v2 dataset with its modality.json that is no backup, whatever
\* the bucket holds (gr00t_n1.py:119-126 and 228-240).
THEOREM LaunchedDatasetFitsHolds == TrainSpec => []LaunchedDatasetFits
<1>1. PrepInv => LaunchedDatasetFits
  BY DEF PrepInv, LaunchedDatasetFits
<1> QED
  BY <1>1, TrainerInvariant, PTL

\* The artifact is the newest checkpoint, complete, and the last that was replayed
\* (gr00t_n1.py:622-628 and 749-757).
THEOREM ArtifactIsReplayedHolds == TrainSpec => []ArtifactIsReplayed
<1>1. IInv => ArtifactIsReplayed
  BY DEF IInv, ChildKnown, ReplayKept, ArtifactIsReplayed
<1> QED
  BY <1>1, TrainerInvariant, PTL

\* The replay leaves the logged losses on the server's curve (gr00t_n1.py:658-678).
THEOREM ReplayCorrectsCurveHolds == TrainSpec => []ReplayCorrectsCurve
<1>1. IInv => ReplayCorrectsCurve
  BY DEF IInv, ReplayKept, ReplayCorrectsCurve
<1> QED
  BY <1>1, TrainerInvariant, PTL

-----------------------------------------------------------------------------
(* The length of the replay. *)

\* The stride leaves at most twice the limit (gr00t_n1.py:662): the index of a point,
\* divided by the stride, is too small for more.
LEMMA StrideCovers ==
  ASSUME NEW n \in Nat \ {0}
  PROVE  /\ Stride(n) \in Nat \ {0}
         /\ (n - 1) \div Stride(n) \in 0 .. 2 * ReplayLimit - 2
<1> DEFINE L == ReplayLimit
           q == n \div L
           s == Stride(n)
           d == (n - 1) \div s
<1>1. L \in Nat \ {0}
  BY LimitAssumption
<1>2. q \in Nat /\ n < L * q + L
  BY <1>1, Quotient
<1>3. s \in Nat \ {0} /\ s >= q
  BY <1>2 DEF Stride, Larger
<1> HIDE DEF L, q, s
<1>4. n - 1 \in Nat /\ d \in Nat /\ s * d <= n - 1
  <2>1. n - 1 \in Nat
    OBVIOUS
  <2> QED
    BY <1>3, <2>1, Quotient
<1> HIDE DEF d
<1>5. L * q <= L * s
  BY <1>1, <1>2, <1>3
<1>6. s * d <= L * s + L - 2
  BY <1>1, <1>2, <1>3, <1>4, <1>5
<1>7. ~(d >= 2 * L - 1)
  <2> SUFFICES ASSUME d >= 2 * L - 1 PROVE FALSE
    OBVIOUS
  <2>1. s * d >= s * (2 * L - 1)
    BY <1>1, <1>3, <1>4
  <2>2. s * (L - 1) >= L - 1
    BY <1>1, <1>3
  <2>3. s * (2 * L - 1) = L * s + s * (L - 1)
    BY <1>1, <1>3
  <2> QED
    BY <1>1, <1>3, <1>4, <1>6, <2>1, <2>2, <2>3
<1>8. d \in 0 .. 2 * L - 2
  BY <1>1, <1>4, <1>7
<1> QED
  BY <1>3, <1>8 DEF L, s, d

\* At most twice the limit is sampled, the last point included (gr00t_n1.py:662-665).
LEMMA SampledIsBounded ==
  ASSUME NEW n \in Nat
  PROVE  IsFiniteSet(Sampled(n)) /\ Cardinality(Sampled(n)) <= 2 * ReplayLimit
<1>1. CASE n = 0
  <2>1. Sampled(n) = {}
    BY <1>1 DEF Sampled
  <2> QED
    BY <2>1, FS_EmptySet, LimitAssumption
<1>2. CASE n # 0
  <2> DEFINE s == Stride(n)
             T == 0 .. 2 * ReplayLimit - 1
             slot == [x \in Sampled(n) |->
                         IF (x - 1) % s = 0 THEN (x - 1) \div s ELSE 2 * ReplayLimit - 1]
  <2>1. s \in Nat \ {0} /\ (n - 1) \div s \in 0 .. 2 * ReplayLimit - 2
    BY <1>2, StrideCovers
  <2>2. \A x \in Sampled(n) : /\ x \in Nat /\ x - 1 \in 0 .. n - 1
                              /\ (x - 1) % s = 0 \/ x = n
    BY DEF Sampled
  <2> HIDE DEF s
  <2>3. \A x \in Sampled(n) : (x - 1) % s = 0 =>
           /\ x - 1 = s * ((x - 1) \div s)
           /\ (x - 1) \div s \in 0 .. 2 * ReplayLimit - 2
    <3> SUFFICES ASSUME NEW x \in Sampled(n), (x - 1) % s = 0
                 PROVE  /\ x - 1 = s * ((x - 1) \div s)
                        /\ (x - 1) \div s \in 0 .. 2 * ReplayLimit - 2
      OBVIOUS
    <3>1. x - 1 \in Nat /\ n - 1 \in Nat /\ x - 1 <= n - 1
      BY <1>2, <2>2
    <3>2. (x - 1) \div s \in Nat /\ x - 1 = s * ((x - 1) \div s) + ((x - 1) % s)
      BY <2>1, <3>1, Quotient
    <3>3. (x - 1) \div s <= (n - 1) \div s
      BY <2>1, <3>1, QuotientGrows
    <3> QED
      BY <2>1, <3>1, <3>2, <3>3, LimitAssumption
  <2>4. slot \in [Sampled(n) -> T]
    BY <2>3, LimitAssumption
  <2>5. \A x, y \in Sampled(n) : slot[x] = slot[y] => x = y
    <3> SUFFICES ASSUME NEW x \in Sampled(n), NEW y \in Sampled(n), slot[x] = slot[y]
                 PROVE  x = y
      OBVIOUS
    <3>1. CASE (x - 1) % s = 0 /\ (y - 1) % s = 0
      <4>1. (x - 1) \div s = (y - 1) \div s
        BY <3>1
      <4>2. x - 1 = y - 1
        BY <2>3, <3>1, <4>1
      <4> QED
        BY <2>2, <4>2
    <3>2. CASE (x - 1) % s # 0 /\ (y - 1) % s # 0
      BY <2>2, <3>2
    <3>3. CASE ((x - 1) % s = 0) # ((y - 1) % s = 0)
      BY <2>3, <3>3, LimitAssumption
    <3> QED
      BY <3>1, <3>2, <3>3
  <2>6. slot \in Injection(Sampled(n), T)
    BY <2>4, <2>5, Fun_IsInj
  <2>7. IsFiniteSet(T) /\ Cardinality(T) = 2 * ReplayLimit
    BY FS_Interval, LimitAssumption
  <2> HIDE DEF slot, T
  <2>8. IsFiniteSet(Sampled(n)) /\ Cardinality(Sampled(n)) <= Cardinality(T)
    BY <2>6, <2>7, FS_Injection
  <2> QED
    BY <2>7, <2>8
<1> QED
  BY <1>1, <1>2

\* Only the newest checkpoint is replayed: a step that moves it, or ends the child, comes
\* before the replay.
LEMMA SampledKept == IInv /\ ReplaySampled /\ [Next]_vars => ReplaySampled'
<1> SUFFICES ASSUME IInv, ReplaySampled, [Next]_vars PROVE ReplaySampled'
  OBVIOUS
<1>1. CASE ChildStep
  <2>1. /\ UNCHANGED <<todo, replayed>> /\ child = "running"
    BY <1>1 DEF ChildStep, PrintLine, BeginCheckpoint, CheckpointSaved, ChildExits, endVars, replayVars
  <2>2. todo' = {} /\ replayed' = {}
    BY <2>1 DEF ReplaySampled
  <2> QED
    BY <2>2 DEF ReplaySampled
<1>2. CASE ReadHistory
  <2>1. child = "ok" /\ replayed = {}
    BY <1>2 DEF ReadHistory, IInv, ChildKnown, ReplayKept
  <2> QED
    BY <1>2, <2>1 DEF ReadHistory, ReplaySampled, childVars
<1>3. CASE ReplayPoint
  <2>1. child = "ok"
    BY <1>3 DEF ReplayPoint, IInv, ChildKnown
  <2> QED
    BY <1>3, <2>1 DEF ReplayPoint, ReplaySampled, childVars
<1>4. CASE Launch
  <2>1. UNCHANGED <<todo, replayed>> /\ child = "none" /\ child' = "running"
    BY <1>4 DEF Launch, endVars, replayVars, IInv, ChildKnown
  <2>2. todo' = {} /\ replayed' = {}
    BY <2>1 DEF ReplaySampled
  <2> QED
    BY <2>2 DEF ReplaySampled
<1>5. CASE \/ ReaderStep \/ LaunchFails \/ Poll \/ Merge \/ Report \/ AnswerTrue \/ AnswerFalse
           \/ WaitedForChild \/ TermTimesOut \/ KillTimesOut \/ RaiseCancelled
           \/ Join \/ NoHistory \/ ReplayEnds \/ Package \/ PackageFails \/ UNCHANGED vars
  <2>1. UNCHANGED <<child, ckpt, todo, replayed>>
    BY <1>5 DEF ReaderStep, ParseLine, ReaderEnds, LaunchFails, Poll, Merge, Report, AnswerTrue,
       AnswerFalse, WaitedForChild, TermTimesOut, KillTimesOut, RaiseCancelled, Join, NoHistory,
       ReplayEnds, Package, PackageFails, vars, childVars, endVars, replayVars
  <2> QED
    BY <2>1 DEF ReplaySampled
<1> QED
  BY <1>1, <1>2, <1>3, <1>4, <1>5 DEF Next, MainStep

\* The replay posts at most twice as many points as it is limited to, for any length of
\* the history (gr00t_n1.py:662-669).
THEOREM ReplayBoundedHolds == TrainSpec => []ReplayBounded
<1>1. TrainInit => ReplaySampled
  BY DEF TrainInit, Init, ReplaySampled
<1>2. IInv /\ ReplaySampled /\ [TrainNext]_trainVars => ReplaySampled'
  <2>1. [TrainNext]_trainVars => [Next]_vars
    BY DEF TrainNext, TrainStep, OtherStep, Next, trainVars
  <2> QED
    BY <2>1, SampledKept
<1>3. IInv /\ ReplaySampled => ReplayBounded
  <2> SUFFICES ASSUME IInv, ReplaySampled PROVE ReplayBounded
    OBVIOUS
  <2>1. ckpt \in Nat
    BY LimitAssumption DEF IInv, TypeOK, Steps
  <2>2. IsFiniteSet(Sampled(ckpt)) /\ Cardinality(Sampled(ckpt)) <= 2 * ReplayLimit
    BY <2>1, SampledIsBounded
  <2>3. /\ Cardinality(todo \cup replayed) \in Nat
        /\ Cardinality(todo \cup replayed) <= Cardinality(Sampled(ckpt))
    BY <2>2, FS_Subset, FS_CardinalityType DEF ReplaySampled
  <2> QED
    BY <2>2, <2>3, FS_CardinalityType, LimitAssumption DEF ReplayBounded
<1> QED
  BY <1>1, <1>2, <1>3, TrainerInvariant, PTL DEF TrainSpec

-----------------------------------------------------------------------------
(* The contract of a trainer. *)

\* The preparation is over before the launch.
LEMMA OrderHolds == TrainSpec => []PartsInOrder
<1>1. TrainInit => PartsInOrder
  BY DEF TrainInit, PrepInit, Init, PartsInOrder
<1>2. PartsInOrder /\ IInv /\ [TrainNext]_trainVars => PartsInOrder'
  <2> SUFFICES ASSUME PartsInOrder, IInv, [TrainNext]_trainVars PROVE PartsInOrder'
    OBVIOUS
  <2>1. CASE PrepStep /\ UNCHANGED vars
    <3>1. pc = "launch" \/ prepPc = "ready"
      BY DEF PartsInOrder
    <3>2. prepPc # "ready"
      BY <2>1 DEF PrepStep, Environment, DownloadDataset, Locate, IsV2, IsV3,
         VersionUnreadable, Convert, ConvertFails, EnsureModality, NoModality, ModalityConfig
    <3> QED
      BY <2>1, <3>1, <3>2 DEF PartsInOrder, vars, childVars, endVars
  <2>2. CASE prepPc = "ready" /\ MainStep /\ UNCHANGED prepVars
    <3>1. prepPc' = "ready"
      BY <2>2 DEF prepVars
    <3>2. pc' # "raised" => error' = "none"
      BY <2>2 DEF MainStep, PartsInOrder, Launch, LaunchFails, Poll, Merge, Report, AnswerTrue,
         AnswerFalse, WaitedForChild, TermTimesOut, KillTimesOut, RaiseCancelled, Join,
         ReadHistory, NoHistory, ReplayPoint, ReplayEnds, Package, PackageFails, Raise, endVars
    <3>3. pc' = "raised" /\ child' = "running" => error' = "TimeoutExpired"
      <4>1. CASE LaunchFails \/ Join \/ RaiseCancelled \/ PackageFails
        BY <4>1 DEF LaunchFails, Join, RaiseCancelled, PackageFails, Raise, IInv, ChildKnown,
           childVars
      <4>2. CASE KillTimesOut
        BY <4>2 DEF KillTimesOut, Raise
      <4> QED
        BY <2>2, <4>1, <4>2 DEF MainStep, Launch, Poll, Merge, Report, AnswerTrue, AnswerFalse,
           WaitedForChild, TermTimesOut, ReadHistory, NoHistory, ReplayPoint, ReplayEnds, Package
    <3> QED
      BY <3>1, <3>2, <3>3 DEF PartsInOrder
  <2>3. CASE OtherStep
    BY <2>3 DEF OtherStep, ChildStep, ReaderStep, PrintLine, BeginCheckpoint, CheckpointSaved,
       ChildExits, ParseLine, ReaderEnds, PartsInOrder, prepVars, childVars, endVars
  <2>4. CASE UNCHANGED trainVars
    BY <2>4 DEF trainVars, prepVars, vars, childVars, endVars, PartsInOrder
  <2> QED
    BY <2>1, <2>2, <2>3, <2>4 DEF TrainNext, TrainStep
<1> QED
  BY <1>1, <1>2, TrainerInvariant, PTL DEF TrainSpec

\* A step of the main thread, seen from the job runner.
LEMMA MainKeepsContract ==
  ASSUME PartsInOrder, IInv, MainStep, prepPc = "ready", UNCHANGED prepVars
  PROVE  [Contract!Next]_(Contract!vars)
<1>1. prepPc' = "ready"
  BY DEF prepVars
<1> USE DEF IInv, PartsInOrder, Raise
<1>2. CASE Launch
  BY <1>1, <1>2 DEF Launch, ChildKnown, endVars, Contract!Next, Contract!Engage
<1>3. CASE AnswerFalse
  BY <1>1, <1>3 DEF AnswerFalse, childVars, endVars, Contract!Next, Contract!ToldToStop
<1>4. CASE RaiseCancelled
  BY <1>1, <1>4 DEF RaiseCancelled, childVars, ChildKnown, Contract!Next, Contract!Cancelled
<1>5. CASE KillTimesOut
  BY <1>1, <1>5 DEF KillTimesOut, childVars, Contract!Next, Contract!Failed
<1>6. CASE LaunchFails \/ PackageFails
  BY <1>1, <1>6 DEF LaunchFails, PackageFails, childVars, ChildKnown, Contract!Next,
     Contract!Failed
<1>7. CASE Join
  BY <1>1, <1>7 DEF Join, childVars, ChildKnown, Contract!Next, Contract!Failed, Contract!vars
<1>8. CASE Package
  BY <1>1, <1>8 DEF Package, childVars, ChildKnown, replayVars, Contract!Next, Contract!Result
<1>9. CASE \/ Poll \/ Merge \/ Report \/ AnswerTrue \/ WaitedForChild \/ TermTimesOut
           \/ ReadHistory \/ NoHistory \/ ReplayPoint \/ ReplayEnds
  <2>1. UNCHANGED <<child, error>>
    BY <1>9 DEF Poll, Merge, Report, AnswerTrue, WaitedForChild, TermTimesOut, ReadHistory,
       NoHistory, ReplayPoint, ReplayEnds, childVars, endVars
  <2>2. /\ pc \notin {"returned", "raised"} /\ pc' \notin {"returned", "raised"}
        /\ pc \in {"term", "kill", "reap"} <=> pc' \in {"term", "kill", "reap"}
    BY <1>9 DEF Poll, Merge, Report, AnswerTrue, WaitedForChild, TermTimesOut, ReadHistory,
       NoHistory, ReplayPoint, ReplayEnds, endVars
  <2> QED
    BY <1>1, <2>1, <2>2 DEF Contract!vars
<1> QED
  BY <1>2, <1>3, <1>4, <1>5, <1>6, <1>7, <1>8, <1>9 DEF MainStep

\* However the child, the reader and the server interleave, the trainer keeps what the job
\* runner relies on: a result or a cancellation leaves no child behind, a cancellation is
\* never reported as a result, and only a child that survives SIGKILL outlives train
\* (gr00t_n1.py:604-628, base.py:71-79 and 105-117).
THEOREM Gr00tKeepsContract == TrainSpec => IsTrainerSafely
<1>1. TrainInit => Contract!Init
  BY DEF TrainInit, PrepInit, Init, Contract!Init
<1>2. PartsInOrder /\ IInv /\ [TrainNext]_trainVars => [Contract!Next]_(Contract!vars)
  <2> SUFFICES ASSUME PartsInOrder, IInv, [TrainNext]_trainVars
               PROVE  [Contract!Next]_(Contract!vars)
    OBVIOUS
  <2>1. CASE PrepStep /\ UNCHANGED vars
    <3>1. prepPc \notin {"ready", "raised"}
      BY <2>1 DEF PrepStep, Environment, DownloadDataset, Locate, IsV2, IsV3,
         VersionUnreadable, Convert, ConvertFails, EnsureModality, NoModality, ModalityConfig
    <3>2. pc = "launch" /\ child = "none" /\ error = "none"
      BY <3>1 DEF PartsInOrder, IInv, ChildKnown
    <3> QED
      BY <2>1, <3>1, <3>2 DEF vars, childVars, endVars, Contract!Next, Contract!Failed,
         Contract!vars
  <2>2. CASE prepPc = "ready" /\ MainStep /\ UNCHANGED prepVars
    BY <2>2, MainKeepsContract
  <2>3. CASE OtherStep
    BY <2>3 DEF OtherStep, ChildStep, ReaderStep, PrintLine, BeginCheckpoint, CheckpointSaved,
       ChildExits, ParseLine, ReaderEnds, prepVars, childVars, endVars, Contract!Next,
       Contract!Release, Contract!vars
  <2>4. CASE UNCHANGED trainVars
    BY <2>4 DEF trainVars, prepVars, vars, childVars, endVars, Contract!vars
  <2> QED
    BY <2>1, <2>2, <2>3, <2>4 DEF TrainNext, TrainStep
<1> QED
  BY <1>1, <1>2, TrainerInvariant, OrderHolds, PTL DEF TrainSpec, IsTrainerSafely, Contract!SafeSpec

\* So a run that returns, or is cancelled, has left no child on the GPU, and only a failure
\* can leave one, which was told to stop (gr00t_n1.py:604-628).
THEOREM Gr00tEndIsClean == TrainSpec => []Contract!EndIsClean
<1>1. Contract!Init => Contract!EndIsClean
  BY DEF Contract!Init, Contract!EndIsClean
<1>2. Contract!EndIsClean /\ [Contract!Next]_(Contract!vars) => Contract!EndIsClean'
  BY DEF Contract!EndIsClean, Contract!Next, Contract!Engage, Contract!Release,
     Contract!ToldToStop, Contract!Result, Contract!Cancelled, Contract!Failed, Contract!vars
<1> QED
  BY <1>1, <1>2, Gr00tKeepsContract, PTL DEF IsTrainerSafely, Contract!SafeSpec
=============================================================================
