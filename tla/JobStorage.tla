----------------------------- MODULE JobStorage -----------------------------
(***************************************************************************)
(* The store as one job of the worker uses it: the dataset is downloaded   *)
(* by a pool of threads (ParallelDownload), a trainer makes an artifact of *)
(* it, and the artifact goes to the bucket that the job shares with those  *)
(* of all other workers (ModelBucket).                                     *)
(***************************************************************************)
EXTENDS ParallelDownload, ModelBucket

CONSTANT Self    \* the worker whose job this is

ASSUME SelfAssumption == Self \in Clients

storageVars == <<vars, bucketVars>>

StorageInit == Init /\ BucketInit

\* The training between the two is the trainer's (TrainerContract).
OwnBucketStep == \/ pc = "returned" /\ HasArtifact(Self)
                 \/ BucketStep(Self)

OtherBucketStep == \E c \in Clients \ {Self} : HasArtifact(c) \/ BucketStep(c) \/ NextJob(c)

StorageNext == \/ Next /\ UNCHANGED bucketVars
               \/ (OwnBucketStep \/ OtherBucketStep) /\ UNCHANGED vars

StorageSpec == /\ StorageInit /\ [][StorageNext]_storageVars
               /\ WF_vars(MainStep) /\ WF_vars(PoolStep)
=============================================================================
