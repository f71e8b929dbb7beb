---------------------------- MODULE StorageProofs ----------------------------
(***************************************************************************)
(* Proofs about the store as a job uses it (module JobStorage): the        *)
(* parallel download for any number of objects and any size of the pool,   *)
(* the bucket that the workers share for any set of workers, and the two   *)
(* composed.                                                               *)
(***************************************************************************)
EXTENDS JobStorage, TLAPS

-----------------------------------------------------------------------------
(* The download: one step per action. *)

\* Before the listing nothing has been submitted.
LEMMA DownloadInit == Init => IInv
<1> SUFFICES ASSUME Init PROVE IInv
  OBVIOUS
<1>1. TypeOK
  BY PoolAssumption DEF Init, TypeOK, Keys, Futures
<1>2. DoneMeansThere /\ ResultsInOrder /\ PhaseOfPool /\ OverMeansQuiet
  BY DEF Init, DoneMeansThere, ResultsInOrder, PhaseOfPool, OverMeansQuiet, In, Keys
<1> QED
  BY <1>1, <1>2 DEF IInv

\* The calling thread keeps the invariant (storage.py:66-110).
LEMMA DownloadMain == IInv /\ MainStep => IInv'
<1> SUFFICES ASSUME IInv, MainStep PROVE IInv'
  OBVIOUS
<1> USE DEF IInv
<1>1. CASE Listed
  <2>1. TypeOK'
    BY <1>1 DEF Listed, TypeOK, Keys, Futures
  <2>2. (DoneMeansThere /\ ResultsInOrder)'
    BY <1>1 DEF Listed, DoneMeansThere, ResultsInOrder, In, Keys
  <2>3. (PhaseOfPool /\ OverMeansQuiet)'
    BY <1>1 DEF Listed, PhaseOfPool, OverMeansQuiet, In, Keys, TypeOK
  <2> QED
    BY <2>1, <2>2, <2>3
<1>2. CASE ListingFails
  <2>1. TypeOK'
    BY <1>2 DEF ListingFails, TypeOK, Keys, Futures
  <2>2. (DoneMeansThere /\ ResultsInOrder)'
    BY <1>2 DEF ListingFails, DoneMeansThere, ResultsInOrder, In, Keys
  <2>3. (PhaseOfPool /\ OverMeansQuiet)'
    BY <1>2 DEF ListingFails, PhaseOfPool, OverMeansQuiet, In, Keys
  <2> QED
    BY <2>1, <2>2, <2>3
<1>3. CASE NextResult
  <2>1. TypeOK'
    BY <1>3 DEF NextResult, TypeOK, Keys, Futures
  <2>2. (DoneMeansThere /\ ResultsInOrder)'
    BY <1>3 DEF NextResult, DoneMeansThere, ResultsInOrder, In, Keys, TypeOK
  <2>3. (PhaseOfPool /\ OverMeansQuiet)'
    BY <1>3 DEF NextResult, PhaseOfPool, OverMeansQuiet, In, Keys
  <2> QED
    BY <2>1, <2>2, <2>3
<1>4. CASE ResultRaises
  <2>1. TypeOK'
    BY <1>4 DEF ResultRaises, TypeOK, Keys, Futures
  <2>2. DoneMeansThere'
    BY <1>4 DEF ResultRaises, DoneMeansThere, In, Keys
  <2>3. ResultsInOrder'
    BY <1>4 DEF ResultRaises, ResultsInOrder, Keys, TypeOK
  <2>4. (PhaseOfPool /\ OverMeansQuiet)'
    BY <1>4 DEF ResultRaises, PhaseOfPool, OverMeansQuiet, In, Keys
  <2> QED
    BY <2>1, <2>2, <2>3, <2>4
<1>5. CASE AllResults
  <2>1. TypeOK'
    BY <1>5 DEF AllResults, TypeOK, Keys, Futures
  <2>2. (DoneMeansThere /\ ResultsInOrder)'
    BY <1>5 DEF AllResults, DoneMeansThere, ResultsInOrder, In, Keys
  <2>3. (PhaseOfPool /\ OverMeansQuiet)'
    BY <1>5 DEF AllResults, PhaseOfPool, OverMeansQuiet, In, Keys
  <2> QED
    BY <2>1, <2>2, <2>3
<1>6. CASE PoolExits
  <2>1. TypeOK'
    BY <1>6 DEF PoolExits, TypeOK, Keys, Futures
  <2>2. (DoneMeansThere /\ ResultsInOrder)'
    BY <1>6 DEF PoolExits, DoneMeansThere, ResultsInOrder, In, Keys
  <2>3. (PhaseOfPool /\ OverMeansQuiet)'
    BY <1>6 DEF PoolExits, PhaseOfPool, OverMeansQuiet, In, Keys
  <2> QED
    BY <2>1, <2>2, <2>3
<1> QED
  BY <1>1, <1>2, <1>3, <1>4, <1>5, <1>6 DEF MainStep

\* The threads of the pool keep it (storage.py:99-103).
LEMMA DownloadPool == IInv /\ PoolStep => IInv'
<1> SUFFICES ASSUME IInv, NEW k \in Keys, StartTask(k) \/ TaskFails(k) \/ TaskDone(k)
             PROVE  IInv'
  BY DEF PoolStep
<1> USE DEF IInv
<1>1. CASE StartTask(k)
  <2>1. TypeOK'
    BY <1>1 DEF StartTask, TypeOK, Keys, Futures
  <2>2. (DoneMeansThere /\ ResultsInOrder)'
    BY <1>1 DEF StartTask, DoneMeansThere, ResultsInOrder, In, Keys, TypeOK
  <2>3. (PhaseOfPool /\ OverMeansQuiet)'
    BY <1>1 DEF StartTask, PhaseOfPool, OverMeansQuiet, In, Keys
  <2> QED
    BY <2>1, <2>2, <2>3
<1>2. CASE TaskFails(k)
  <2>1. TypeOK'
    BY <1>2 DEF TaskFails, TypeOK, Keys, Futures
  <2>2. (DoneMeansThere /\ ResultsInOrder)'
    BY <1>2 DEF TaskFails, DoneMeansThere, ResultsInOrder, In, Keys, TypeOK
  <2>3. (PhaseOfPool /\ OverMeansQuiet)'
    BY <1>2 DEF TaskFails, PhaseOfPool, OverMeansQuiet, In, Keys, TypeOK
  <2> QED
    BY <2>1, <2>2, <2>3
<1>3. CASE TaskDone(k)
  <2>1. TypeOK'
    BY <1>3 DEF TaskDone, TypeOK, Keys, Futures
  <2>2. (DoneMeansThere /\ ResultsInOrder)'
    BY <1>3 DEF TaskDone, DoneMeansThere, ResultsInOrder, In, Keys, TypeOK
  <2>3. (PhaseOfPool /\ OverMeansQuiet)'
    BY <1>3 DEF TaskDone, PhaseOfPool, OverMeansQuiet, In, Keys, TypeOK
  <2> QED
    BY <2>1, <2>2, <2>3
<1> QED
  BY <1>1, <1>2, <1>3

\* The invariant of the download holds in every reachable state.
THEOREM DownloadInvariant == Spec => []IInv
<1>1. IInv /\ [Next]_vars => IInv'
  <2>1. IInv /\ UNCHANGED vars => IInv'
    BY DEF IInv, TypeOK, DoneMeansThere, ResultsInOrder, PhaseOfPool, OverMeansQuiet,
           In, Keys, vars
  <2> QED
    BY <2>1, DownloadMain, DownloadPool DEF Next
<1> QED
  BY <1>1, DownloadInit, PTL DEF Spec

-----------------------------------------------------------------------------
(* What a download promises, for every number of objects and threads. *)

\* storage.py:105-110: a download that returns has fetched every object.
THEOREM ReturnMeansCompleteHolds == Spec => []ReturnMeansComplete
<1>1. IInv => ReturnMeansComplete
  <2> SUFFICES ASSUME IInv, pc = "returned" PROVE objects > 0 /\ files = Keys
    BY DEF ReturnMeansComplete
  <2>1. objects \in Nat /\ objects > 0 /\ next = objects + 1
    BY PoolAssumption DEF IInv, TypeOK, PhaseOfPool
  <2>2. \A k \in Keys : task[k] = "done"
    BY <2>1 DEF IInv, ResultsInOrder, Keys
  <2>3. Keys \subseteq files
    BY <2>2 DEF IInv, DoneMeansThere, In
  <2> QED
    BY <2>1, <2>3 DEF IInv, TypeOK
<1> QED
  BY <1>1, DownloadInvariant, PTL

\* storage.py:105: when the call is over, no thread of the pool is at work.
THEOREM OverMeansQuietHolds == Spec => []OverMeansQuiet
<1>1. IInv => OverMeansQuiet
  BY DEF IInv
<1> QED
  BY <1>1, DownloadInvariant, PTL

\* storage.py:106: the failure that is raised is the first in the order of the listing.
THEOREM EarlierKeysAreThereHolds == Spec => []EarlierKeysAreThere
<1>1. IInv => EarlierKeysAreThere
  BY DEF IInv, TypeOK, PhaseOfPool, ResultsInOrder, DoneMeansThere, In, Keys,
         EarlierKeysAreThere
<1> QED
  BY <1>1, DownloadInvariant, PTL

-----------------------------------------------------------------------------
(* The bucket. *)

\* Every variable keeps its type.
LEMMA BucketType == BucketSpec => []BucketTypeOK
<1>1. BucketInit => BucketTypeOK
  BY DEF BucketInit, BucketTypeOK
<1>2. BucketTypeOK /\ [BucketNext]_bucketVars => BucketTypeOK'
  <2> SUFFICES ASSUME BucketTypeOK, [BucketNext]_bucketVars PROVE BucketTypeOK'
    OBVIOUS
  <2> USE DEF BucketTypeOK, Go
  <2>1. CASE UNCHANGED bucketVars
    BY <2>1 DEF bucketVars
  <2>2. ASSUME NEW c \in Clients, HasArtifact(c) \/ NextJob(c) PROVE BucketTypeOK'
    BY <2>2 DEF HasArtifact, NextJob
  <2>3. ASSUME NEW c \in Clients, BucketStep(c) PROVE BucketTypeOK'
    BY <2>3 DEF BucketStep, HeadFinds, HeadMisses, HeadFails, Create, CreateLost,
       CreateRefused, Upload, CallFails
  <2> QED
    BY <2>1, <2>2, <2>3 DEF BucketNext
<1> QED
  BY <1>1, <1>2, PTL DEF BucketSpec

\* The two parts of the invariant that are about the creator are kept by a step of one
\* worker, whoever it is.
LEMMA CreatorStep ==
    ASSUME BucketInv, NEW c \in Clients,
           HasArtifact(c) \/ BucketStep(c) \/ NextJob(c)
    PROVE  (CreatorIsPast /\ LostRaceHasWinner)'
<1> USE NobodyAssumption DEF BucketInv, BucketTypeOK, CreatorIsPast, LostRaceHasWinner, Go
<1>1. CASE HasArtifact(c)
  BY <1>1 DEF HasArtifact
<1>2. CASE HeadFinds(c)
  BY <1>2 DEF HeadFinds
<1>3. CASE HeadMisses(c)
  BY <1>3 DEF HeadMisses
<1>4. CASE HeadFails(c)
  BY <1>4 DEF HeadFails
<1>5. CASE Create(c) \/ CreateLost(c)
  BY <1>5 DEF Create, CreateLost
<1>6. CASE CreateRefused(c)
  BY <1>6 DEF CreateRefused
<1>7. CASE Upload(c)
  BY <1>7 DEF Upload
<1>8. CASE CallFails(c)
  BY <1>8 DEF CallFails
<1>9. CASE NextJob(c)
  BY <1>9 DEF NextJob
<1> QED
  BY <1>1, <1>2, <1>3, <1>4, <1>5, <1>6, <1>7, <1>8, <1>9 DEF BucketStep

\* The invariant of the race for the bucket (storage.py:144-149).
LEMMA BucketSafe == BucketSpec => []BucketInv
<1>1. BucketInit => CreatorIsPast /\ LostRaceHasWinner
  BY DEF BucketInit, CreatorIsPast, LostRaceHasWinner
<1>2. BucketTypeOK /\ BucketTypeOK' /\ CreatorIsPast /\ LostRaceHasWinner /\ [BucketNext]_bucketVars
        => (CreatorIsPast /\ LostRaceHasWinner)'
  <2> SUFFICES ASSUME BucketInv, [BucketNext]_bucketVars
               PROVE  (CreatorIsPast /\ LostRaceHasWinner)'
    BY DEF BucketInv
  <2>1. CASE UNCHANGED bucketVars
    BY <2>1 DEF bucketVars, BucketInv, CreatorIsPast, LostRaceHasWinner
  <2>2. CASE BucketNext
    BY <2>2, CreatorStep DEF BucketNext
  <2> QED
    BY <2>1, <2>2
<1> QED
  BY <1>1, <1>2, BucketType, PTL DEF BucketSpec, BucketInv

\* Whoever loses the race for the bucket, another worker has won it, for any number of
\* workers and of jobs (storage.py:144-149).
THEOREM BucketRace == BucketSpec => []LostRaceHasWinner
<1>1. BucketInv => LostRaceHasWinner
  BY DEF BucketInv
<1> QED
  BY <1>1, BucketSafe, PTL

-----------------------------------------------------------------------------
(* The composition. *)

\* A step of the job or of another worker is a step of the download or a stutter, and a
\* step of the bucket or a stutter.
LEMMA StepsApart ==
  ASSUME [StorageNext]_storageVars
  PROVE  [Next]_vars /\ [BucketNext]_bucketVars
<1>1. CASE Next /\ UNCHANGED bucketVars
  BY <1>1
<1>2. CASE OwnBucketStep /\ UNCHANGED vars
  BY <1>2, SelfAssumption DEF OwnBucketStep, BucketNext
<1>3. CASE OtherBucketStep /\ UNCHANGED vars
  BY <1>3 DEF OtherBucketStep, BucketNext
<1>4. CASE UNCHANGED storageVars
  BY <1>4 DEF storageVars
<1> QED
  BY <1>1, <1>2, <1>3, <1>4 DEF StorageNext

\* A job gets from the store what each part of the client promises on its own, whatever
\* the other workers do meanwhile (storage.py:99-110 and 144-149).
THEOREM JobKeepsPromises ==
    StorageSpec => [](ReturnMeansComplete /\ OverMeansQuiet /\ LostRaceHasWinner)
<1>1. StorageSpec => Spec
  BY StepsApart, PTL DEF StorageSpec, StorageInit, Spec
<1>2. StorageSpec => BucketSpec
  BY StepsApart, PTL DEF StorageSpec, StorageInit, BucketSpec
<1> QED
  BY <1>1, <1>2, ReturnMeansCompleteHolds, OverMeansQuietHolds, BucketRace, PTL
=============================================================================
