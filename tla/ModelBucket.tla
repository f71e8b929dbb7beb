----------------------------- MODULE ModelBucket -----------------------------
(***************************************************************************)
(* ensure_model_bucket and upload_artifact of StorageClient (storage.py),  *)
(* called by the workers that share one store: look whether the bucket for *)
(* the models is there, create it if not, upload the artifact.             *)
(*                                                                         *)
(* The store is external (RustFS, or moto in the tests).  It may refuse to *)
(* create a bucket that exists, and any call to it may fail.               *)
(***************************************************************************)
CONSTANTS Clients, Nobody

ASSUME NobodyAssumption == Nobody \notin Clients

VARIABLES
    bucket,     \* the bucket exists
    creator,    \* who created it; Nobody also if it was there before
    at,         \* where each client is
    faulty      \* history: the clients that a call failed for, but for an existing bucket

bucketVars == <<bucket, creator, at, faulty>>

BucketInit == /\ bucket \in BOOLEAN /\ creator = Nobody /\ faulty = {}
              /\ at = [c \in Clients |-> "idle"]

Go(c, from, to) == at[c] = from /\ at' = [at EXCEPT ![c] = to]

\* The trainer has returned.
HasArtifact(c) == Go(c, "idle", "head") /\ UNCHANGED <<bucket, creator, faulty>>

\* Mutant: what head_bucket says is not heeded.
HeadFinds_CreatesAnyway(c) ==
    bucket /\ Go(c, "head", "create") /\ UNCHANGED <<bucket, creator, faulty>>

\* head_bucket; whatever it raises is taken for a missing bucket.
HeadFinds(c)  == bucket /\ Go(c, "head", "upload") /\ UNCHANGED <<bucket, creator, faulty>>
HeadMisses(c) == ~bucket /\ Go(c, "head", "create") /\ UNCHANGED <<bucket, creator, faulty>>
HeadFails(c)  == /\ Go(c, "head", "create")
                 /\ faulty' = faulty \cup {c}
                 /\ UNCHANGED <<bucket, creator>>

\* create_bucket: for a bucket that exists, the store answers as if it had created it, or
\* it refuses.
Create(c) == /\ Go(c, "create", "upload")
             /\ bucket' = TRUE
             /\ creator' = IF bucket THEN creator ELSE c
             /\ UNCHANGED faulty

\* It creates the bucket and the answer is lost.
CreateLost(c) == /\ Go(c, "create", "raised")
                 /\ bucket' = TRUE
                 /\ creator' = IF bucket THEN creator ELSE c
                 /\ faulty' = faulty \cup {c}

CreateRefused(c) ==
    bucket /\ Go(c, "create", "raised") /\ UNCHANGED <<bucket, creator, faulty>>

\* upload_artifact
Upload(c) == Go(c, "upload", "uploaded") /\ UNCHANGED <<bucket, creator, faulty>>

CallFails(c) == /\ Go(c, "create", "raised") \/ Go(c, "upload", "raised")
                /\ faulty' = faulty \cup {c}
                /\ UNCHANGED <<bucket, creator>>

\* The next job of the worker.
NextJob(c) == /\ Go(c, "uploaded", "idle") \/ Go(c, "raised", "idle")
              /\ faulty' = faulty \ {c}
              /\ UNCHANGED <<bucket, creator>>

BucketStep(c) == \/ HeadFinds(c) \/ HeadMisses(c) \/ HeadFails(c)
                 \/ Create(c) \/ CreateLost(c) \/ CreateRefused(c)
                 \/ Upload(c) \/ CallFails(c)

BucketNext == \E c \in Clients : HasArtifact(c) \/ BucketStep(c) \/ NextJob(c)

BucketSpec == BucketInit /\ [][BucketNext]_bucketVars

-----------------------------------------------------------------------------
BucketTypeOK ==
    /\ bucket \in BOOLEAN /\ creator \in Clients \cup {Nobody}
    /\ at \in [Clients -> {"idle", "head", "create", "upload", "uploaded", "raised"}]
    /\ faulty \subseteq Clients

\* A job is lost without an error of the store only to the race for the bucket: another
\* worker created it after this one had looked; the jobs of the worker that created it
\* are never lost like that (storage.py:144-149, worker.py:251-267).
LostRaceHasWinner ==
    \A c \in Clients : at[c] = "raised" /\ c \notin faulty => creator \notin {Nobody, c}

-----------------------------------------------------------------------------
(* The inductive invariant behind it. *)

\* Nobody created a bucket that is missing; the creator is past create_bucket, or has
\* found the bucket there since.
CreatorIsPast ==
    /\ creator # Nobody => bucket
    /\ \A c \in Clients : at[c] = "create" /\ c \notin faulty =>
          creator # c /\ (bucket => creator # Nobody)

BucketInv == BucketTypeOK /\ CreatorIsPast /\ LostRaceHasWinner
=============================================================================
